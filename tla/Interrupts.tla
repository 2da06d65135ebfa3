----------------------------- MODULE Interrupts -----------------------------
(***************************************************************************)
(* The way of an interrupt: the 8259A controllers as i8259.c programs      *)
(* them, the gates of idt_init.c, the stubs of assembly_linkage.S around   *)
(* the handlers, and the boot that turns all of it on.  The calls and the  *)
(* clock are those of Rtc, whose handler is here one step of several: every *)
(* behaviour is shown to be one of Rtc.                                    *)
(*                                                                         *)
(* Handlers nest: rtc_handler turns interrupts on before its stub returns. *)
(* How deep is a matter of time (a period is thousands of instructions     *)
(* long), so the depth is bounded by a constant.                           *)
(***************************************************************************)
EXTENDS Rtc, Sequences

CONSTANT MaxNested   \* handlers active at once

ASSUME InterruptsAssumption == MaxNested \in Nat \ {0}

Lines == 0..15       \* IRQ 0 to 7 on the master, 8 to 15 on the slave
Timer == 0
Keys == 1
Cascade == 2
Clock == 8

VARIABLES
  interrupts,   \* IF, the interrupt flag of the processor
  stack,        \* the active handlers, the running one last
  requested,    \* the request registers of the controllers
  masked,       \* their mask registers
  inservice,    \* their in-service registers
  scancode,     \* the keyboard holds a key nobody has read
  boot          \* where entry() is

pic  == <<requested, masked, inservice>>
cpu  == <<interrupts, stack>>
machine == <<interrupts, stack, requested, masked, inservice, scancode, boot>>
all  == <<vars, machine>>

\* Mutant: the timer is left on with the cascade.
MaskedButTimer == Lines \ {Timer, Cascade}

\* After i8259_init every line is masked but the slave's.
MaskedAtInit == Lines \ {Cascade}

\* entry() after i8259_init, which clears the requests made before.
MachineInit ==
  /\ Init
  /\ interrupts = 0 /\ stack = <<>>
  /\ requested = {} /\ masked = MaskedAtInit /\ inservice = {}
  /\ scancode = FALSE
  /\ boot = "keyboard_init"

-----------------------------------------------------------------------------
\* i8259.c.
enable_irq(irq)  == masked' = masked \ {irq}
disable_irq(irq) == masked' = masked \cup {irq}

\* Mutant: the master is not told.
SlaveEoi(irq) == {irq}

\* The lines taken out of service by send_eoi: an interrupt of the slave is in
\* service on the master too, as its line 2.
Eoi(irq) == IF irq < 8 THEN {irq} ELSE {irq, Cascade}

send_eoi(irq) == inservice' = inservice \ Eoi(irq)

\* The order the controllers serve requests in: the slave's come third.
Level(irq) == IF irq < 8 THEN irq ELSE Cascade

\* The request the controllers pass to the processor: the first that is not
\* masked, while nothing as urgent is in service.
Offered(irq) ==
  LET ready == {l \in requested \ masked : l >= 8 => Cascade \notin masked}
  IN  /\ irq \in ready
      /\ \A l \in ready : Level(irq) <= Level(l)
      /\ \A l \in inservice : Level(irq) < Level(l)

\* init_idt_entry.
\* Mutant: the range of vectors ends with the timer's.
NoInterruptGate(vector) == vector \in 32..32

\* The gates that turn interrupts off.
InterruptGate(vector) == vector \in 32..47

\* Mutant: the two gates are set the wrong way round.
HandlerSwapped(irq) ==
  CASE 32 + irq = 33 -> "rtc"
    [] 32 + irq = 40 -> "keyboard"
    [] OTHER -> "default"

\* The addresses of the gates.
Handler(irq) ==
  CASE 32 + irq = 33 -> "keyboard"
    [] 32 + irq = 40 -> "rtc"
    [] OTHER -> "default"

-----------------------------------------------------------------------------
\* The devices.  The timer of the firmware runs on; the keyboard raises its
\* line for a key when the last one was read; the clock for a period when
\* register C was read since the last.
TimerTick ==
  /\ requested' = requested \cup {Timer}
  /\ UNCHANGED <<vars, cpu, masked, inservice, scancode, boot>>

KeyPressed ==
  /\ ~scancode /\ scancode' = TRUE
  /\ requested' = requested \cup {Keys}
  /\ UNCHANGED <<vars, cpu, masked, inservice, boot>>

PeriodEnds ==
  /\ Tick
  /\ requested' = IF boot \in {"keyboard_init", "rtc_init"} \/ pending
                    THEN requested ELSE requested \cup {Clock}
  /\ UNCHANGED <<cpu, masked, inservice, scancode, boot>>

\* entry().  rtc_init turns interrupts on, and they stay on while it sets up
\* paging and the file system; execute turns them off for the first program.
KeyboardInit ==
  /\ boot = "keyboard_init" /\ boot' = "rtc_init"
  /\ enable_irq(Keys)
  /\ UNCHANGED <<vars, cpu, requested, inservice, scancode>>

RtcInit ==
  /\ boot = "rtc_init" /\ boot' = "enable_irq"
  /\ disable_irq(Clock)
  /\ requested' = IF pending THEN requested \cup {Clock} ELSE requested
  /\ interrupts' = 1
  /\ UNCHANGED <<vars, stack, inservice, scancode>>

RtcEnable ==
  /\ boot = "enable_irq" /\ stack = <<>> /\ boot' = "done"
  /\ enable_irq(Clock)
  /\ UNCHANGED <<vars, cpu, requested, inservice, scancode>>

-----------------------------------------------------------------------------
\* The processor takes an interrupt, through the gate of its vector.
Accept(irq) ==
  /\ interrupts = 1 /\ Offered(irq)
  /\ Len(stack) < MaxNested
  /\ requested' = requested \ {irq}
  /\ inservice' = inservice \cup {irq} \cup (IF irq < 8 THEN {} ELSE {Cascade})
  /\ interrupts' = IF InterruptGate(32 + irq) THEN 0 ELSE interrupts
  /\ stack' = Append(stack, [handler |-> Handler(irq), at |-> "entry"])
  /\ UNCHANGED <<vars, masked, scancode, boot>>

\* The running handler goes from one point to the next.
Moves(handler, from, to) ==
  /\ stack # <<>>
  /\ stack[Len(stack)] = [handler |-> handler, at |-> from]
  /\ stack' = [stack EXCEPT ![Len(stack)].at = to]
  /\ UNCHANGED <<requested, masked, boot>>

KeyboardEoi ==
  /\ Moves("keyboard", "entry", "body")
  /\ send_eoi(Keys)
  /\ UNCHANGED <<vars, interrupts, scancode>>

\* inb(KEYBOARD_PORT) and all that keyboard_handler does with the key.
KeyboardBody ==
  /\ Moves("keyboard", "body", "popfl")
  /\ scancode' = FALSE
  /\ UNCHANGED <<vars, interrupts, inservice>>

RtcEoi ==
  /\ Moves("rtc", "entry", "body")
  /\ send_eoi(Clock)
  /\ UNCHANGED <<vars, interrupts, scancode>>

\* rtc_handler from its cli to its sti.
RtcBody ==
  /\ Moves("rtc", "body", "popfl")
  /\ HandleTick
  /\ interrupts' = 1
  /\ UNCHANGED <<inservice, scancode>>

\* popfl brings back the flags pushfl saved behind an interrupt gate.
PopFlags ==
  /\ \E handler \in {"keyboard", "rtc"} : Moves(handler, "popfl", "iret")
  /\ interrupts' = 0
  /\ UNCHANGED <<vars, inservice, scancode>>

\* iret goes on with what was interrupted, with interrupts on as they were.
Iret ==
  /\ stack # <<>> /\ stack[Len(stack)].at = "iret"
  /\ stack' = SubSeq(stack, 1, Len(stack) - 1)
  /\ interrupts' = 1
  /\ UNCHANGED <<vars, pic, scancode, boot>>

\* Mutant: prep_iret hands interrupts to the program.
ProgramFlagsOn == 1

\* IF in the flags a program gets from prep_iret, after the cli of execute,
\* and gets back from every call.
ProgramFlags == 0

\* A step of a call, which turns interrupts on at its beginning (the sti of
\* read and of rtc_write) and gives the program its flags back at its end.
Call ==
  /\ boot = "done" /\ stack = <<>>
  /\ \/ (ReadBegin \/ OtherBegin \/ rtc_write) /\ interrupts' = 1
     \/ (ReadWait \/ ReadClear) /\ UNCHANGED interrupts
     \/ (ReadReturn \/ OtherEnd) /\ interrupts' = ProgramFlags
  /\ UNCHANGED <<stack, pic, scancode, boot>>

Calls == Call /\ Continue

Boots   == KeyboardInit \/ RtcInit \/ RtcEnable
Handles == KeyboardEoi \/ KeyboardBody \/ RtcEoi \/ RtcBody \/ PopFlags \/ Iret

MachineNext ==
  \/ TimerTick \/ KeyPressed \/ PeriodEnds
  \/ Boots
  \/ \E irq \in Lines : Accept(irq)
  \/ Handles
  \/ Call

\* Periods and the time between keys are far longer than handlers: again and
\* again no handler is active and, while a call has interrupts on, no key waits.
Pace ==
  []<>(stack = <<>> /\ (interrupts = 1 => Keys \notin requested))

\* Handlers go on, and between interrupts so do the boot and the calls; periods
\* end; the clock, less urgent than the keyboard, is served between two keys.
MachineSpec ==
  /\ MachineInit /\ [][MachineNext]_all
  /\ WF_all(Handles) /\ SF_all(Boots) /\ SF_all(Calls)
  /\ WF_all(PeriodEnds) /\ SF_all(Accept(Clock)) /\ Pace

-----------------------------------------------------------------------------
Frame == [handler : {"keyboard", "rtc", "default"},
          at : {"entry", "body", "popfl", "iret"}]

\* Type invariant; TypeOK holds the clock to the frequency last asked for, over
\* reads too, which rtc.h says otherwise (ReadChangesFrequency).
MachineOK ==
  /\ TypeOK
  /\ interrupts \in {0, 1}
  /\ stack \in Seq(Frame) /\ Len(stack) <= MaxNested
  /\ {requested, masked, inservice} \subseteq SUBSET Lines
  /\ scancode \in BOOLEAN
  /\ boot \in {"keyboard_init", "rtc_init", "enable_irq", "done"}

\* A handler is interrupted only in the last instructions of rtc_handler's
\* stub, after its sti: keyboard_handler runs to its end, and what rtc_handler
\* does to the flag and to register C is one step to everyone else.
HandlersNest ==
  \A n \in 1..Len(stack) - 1 : stack[n] = [handler |-> "rtc", at |-> "popfl"]

\* A line is in service only from the acceptance of its interrupt to the
\* send_eoi its handler begins with, on both controllers: one left in service
\* would hold back its own next interrupt and every less urgent one for ever.
ServiceEnds ==
  inservice # {} =>
    /\ stack # <<>>
    /\ stack[Len(stack)].at = "entry"
    /\ inservice = CASE stack[Len(stack)].handler = "keyboard" -> {Keys}
                     [] stack[Len(stack)].handler = "rtc" -> {Clock, Cascade}
                     [] OTHER -> {}

\* No request is lost on its way: until rtc_handler has seen the clock's, and
\* keyboard_handler has read the key, it waits in the controller or the handler
\* is on its way to it.
OnItsWay(irq, handler) ==
  \/ irq \in requested
  \/ \E n \in DOMAIN stack :
       stack[n].handler = handler /\ stack[n].at \in {"entry", "body"}

RequestsKept ==
  /\ request /\ boot \notin {"keyboard_init", "rtc_init"} => OnItsWay(Clock, "rtc")
  /\ scancode => OnItsWay(Keys, "keyboard")

\* No interrupt reaches idt_default, which takes every vector without a
\* handler for an exception and halts the program that was running.
OnlyHandled == \A n \in DOMAIN stack : stack[n].handler # "default"

\* Seen from rtc_read, this is the clock of Rtc: its handler is atomic and is
\* run for every request, however keys and handlers nest around it.
ImplementsRtc == Spec
=============================================================================
