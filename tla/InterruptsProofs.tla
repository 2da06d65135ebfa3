-------------------------- MODULE InterruptsProofs --------------------------
(***************************************************************************)
(* The safety of Rtc, for every set of words that programs write; that of  *)
(* Interrupts, for every depth of nesting too; and that the steps of       *)
(* Interrupts are those of Rtc.                                            *)
(***************************************************************************)
EXTENDS Interrupts, SequenceTheorems, TLAPS

(* Rtc: the clock and its calls, a handler in one step. *)

\* What NoTickTwice rests on: the flag is set, or found set by a read that is
\* about to clear it, only if an interrupt was handled since the last read.
HandledInv ==
  /\ interrupt_flag \in {0, 1}
  /\ interrupt_flag = 1 => handled
  /\ pc = "clear" => handled

LEMMA HandledInit == Init => HandledInv
  BY DEF Init, HandledInv

LEMMA HandledNext == HandledInv /\ [Next]_vars => HandledInv'
<1> SUFFICES ASSUME HandledInv, [Next]_vars PROVE HandledInv'
  OBVIOUS
<1> USE DEF HandledInv
<1>1. CASE Tick
  BY <1>1 DEF Tick
<1>2. CASE rtc_handler
  BY <1>2 DEF rtc_handler, HandleTick
<1>3. CASE ReadBegin
  BY <1>3 DEF ReadBegin, Step
<1>4. CASE OtherBegin
  BY <1>4 DEF OtherBegin, Step
<1>5. CASE rtc_write
  BY <1>5 DEF rtc_write
<1>6. CASE ReadWait
  BY <1>6 DEF ReadWait, Step
<1>7. CASE ReadClear
  BY <1>7 DEF ReadClear, Step, ClearFlag
<1>8. CASE ReadReturn
  BY <1>8 DEF ReadReturn, Step
<1>9. CASE OtherEnd
  BY <1>9 DEF OtherEnd, Step
<1>10. CASE UNCHANGED vars
  BY <1>10 DEF vars
<1> QED
  BY <1>1, <1>2, <1>3, <1>4, <1>5, <1>6, <1>7, <1>8, <1>9, <1>10
  DEF Next, Continue

\* Whatever interrupts come between the steps of rtc_read, and however long
\* the program runs with interrupts off, no interrupt ends two reads.
THEOREM TickEndsOneRead == Spec => NoTickTwice
<1>1. HandledInv /\ [Next]_vars => [ReadClear => handled]_vars
  BY DEF HandledInv, ReadClear, Step
<1> QED
  BY <1>1, HandledInit, HandledNext, PTL DEF Spec, NoTickTwice

\* The two tables of rtc_write and that of the chip fit each other.
LEMMA Tables ==
  ASSUME NEW n \in Known
  PROVE  ValueOf(n) \in 6..15 /\ Periodic(ValueOf(n)) = Freq(n)
<1>1. n \in 1..5 \/ n \in 6..10
  BY DEF Known
<1>2. \/ n = 1 \/ n = 2 \/ n = 3 \/ n = 4 \/ n = 5
      \/ n = 6 \/ n = 7 \/ n = 8 \/ n = 9 \/ n = 10
  BY <1>1
<1> QED
  BY <1>2 DEF ValueOf, Periodic, Freq

LEMMA TypeInit == Init => TypeOK
<1>1. Freq(10) = 1024 /\ Periodic(6) = 1024 /\ 10 \in Known
  BY DEF Freq, Periodic, Known
<1>2. Init => frequency \in {Freq(n) : n \in Known} /\ frequency = Periodic(rate)
  BY <1>1 DEF Init
<1>3. Init => {pending, request, handled} \subseteq BOOLEAN
  BY DEF Init
<1>4. Init => {interrupt_flag} \subseteq {0, 1} /\ rate \in 6..15 /\ pc = "other"
  BY DEF Init
<1> QED
  BY <1>2, <1>3, <1>4 DEF TypeOK

LEMMA TypeNext == TypeOK /\ [Next]_vars => TypeOK'
<1> SUFFICES ASSUME TypeOK, [Next]_vars PROVE TypeOK'
  OBVIOUS
<1> USE DEF TypeOK
<1>1. CASE Tick
  BY <1>1 DEF Tick, clock
<1>2. CASE rtc_handler
  BY <1>2 DEF rtc_handler, HandleTick, ReadRegisterC, clock
<1>3. CASE ReadBegin \/ OtherBegin \/ Continue
  BY <1>3 DEF ReadBegin, OtherBegin, Continue, ReadWait, ReadClear, ClearFlag, ReadReturn,
              OtherEnd, Step, clock, chip
<1>4. CASE rtc_write
  BY <1>4, Tables DEF rtc_write, chip
<1>5. CASE UNCHANGED vars
  BY <1>5 DEF vars
<1> QED
  BY <1>1, <1>2, <1>3, <1>4, <1>5 DEF Next

\* Whatever words programs write, the chip's rate gives the frequency of the last
\* one that was accepted.
THEOREM ClockTyped == Spec => []TypeOK
BY TypeInit, TypeNext, PTL DEF Spec

-----------------------------------------------------------------------------
(* Interrupts: the processor, the controllers and the stubs. *)

Top == stack[Len(stack)]

\* The last instructions of rtc_handler's stub, where interrupts are on.
Open == [handler |-> "rtc", at |-> "popfl"]

Handling(handler) == stack # <<>> /\ Top.handler = handler /\ Top.at \in {"entry", "body"}

Early == boot \in {"keyboard_init", "rtc_init"}

\* Only the three devices raise their lines, and only two lines get through.
LinesInv ==
  /\ requested \subseteq {Timer, Keys, Clock}
  /\ Lines \ {Keys, Clock, Cascade} \subseteq masked

\* A handler can be interrupted only where its stub is open.
NestInv ==
  /\ interrupts \in {0, 1}
  /\ stack \in Seq(Frame)
  /\ HandlersNest /\ OnlyHandled /\ ServiceEnds
  /\ interrupts = 1 /\ stack # <<>> => Top = Open

\* A request of the clock, the flag of register C and the way of the interrupt
\* to its handler are one thing; programs run with interrupts off.
ClockInv ==
  /\ boot \in {"keyboard_init", "rtc_init", "enable_irq", "done"}
  /\ pending \in BOOLEAN /\ request = pending
  /\ Early => interrupts = 0 /\ stack = <<>> /\ Clock \notin requested
  /\ ~Early => (request <=> Clock \in requested \/ Handling("rtc"))
  /\ Clock \in requested => ~Handling("rtc")
  /\ boot # "done" => pc = "other"
  /\ pc = "user" => interrupts = 0 /\ stack = <<>>

KeysInv == scancode => Keys \in requested \/ Handling("keyboard")

MachineInv == LinesInv /\ NestInv /\ ClockInv /\ KeysInv

-----------------------------------------------------------------------------
LEMMA MachineInvInit == MachineInit => MachineInv
<1> SUFFICES ASSUME MachineInit PROVE MachineInv
  OBVIOUS
<1>1. LinesInv
  BY DEF MachineInit, LinesInv, MaskedAtInit, Lines, Keys, Clock, Cascade, Timer
<1>2. stack \in Seq(Frame) /\ Len(stack) = 0 /\ stack = <<>>
  BY DEF MachineInit
<1>3. NestInv
  BY <1>2 DEF MachineInit, NestInv, HandlersNest, OnlyHandled, ServiceEnds
<1>4. ClockInv /\ KeysInv
  BY DEF MachineInit, Init, ClockInv, KeysInv, Handling, Early
<1> QED
  BY <1>1, <1>3, <1>4 DEF MachineInv

\* The stack after the processor has taken an interrupt.
LEMMA Pushed ==
  ASSUME NEW s \in Seq(Frame), NEW f \in Frame
  PROVE  /\ Append(s, f) \in Seq(Frame)
         /\ Append(s, f) # <<>>
         /\ Len(Append(s, f)) = Len(s) + 1
         /\ Append(s, f)[Len(s) + 1] = f
         /\ \A n \in 1..Len(s) : Append(s, f)[n] = s[n]
  OBVIOUS

\* The stack after iret.
LEMMA Popped ==
  ASSUME NEW s \in Seq(Frame), s # <<>>, NEW t, t = SubSeq(s, 1, Len(s) - 1)
  PROVE  /\ t \in Seq(Frame)
         /\ Len(t) = Len(s) - 1
         /\ \A n \in 1..Len(t) : t[n] = s[n]
<1>1. PICK n \in Nat \ {0} : n = Len(s)
  BY EmptySeq
<1>2. \A i \in 1..n - 1 : s[i] \in Frame
  BY <1>1, ElementOfSeq
<1>3. /\ t \in Seq(Frame)
      /\ Len(t) = IF 1 <= n - 1 THEN n - 1 - 1 + 1 ELSE 0
      /\ \A i \in 1..n - 1 - 1 + 1 : t[i] = s[1 + i - 1]
  BY <1>1, <1>2, SubSeqProperties
<1>4. Len(t) = n - 1
  BY <1>3
<1> QED
  BY <1>1, <1>3, <1>4

\* What a step of the running handler does to the stack, and that nothing
\* below it is touched.
LEMMA Moved ==
  ASSUME NestInv,
         NEW handler, NEW from, NEW to \in {"entry", "body", "popfl", "iret"},
         Moves(handler, from, to)
  PROVE  /\ stack # <<>> /\ Top = [handler |-> handler, at |-> from]
         /\ stack' \in Seq(Frame) /\ stack' # <<>> /\ Len(stack') = Len(stack)
         /\ Top' = [handler |-> handler, at |-> to]
         /\ HandlersNest' /\ OnlyHandled'
<1>1. stack \in Seq(Frame) /\ stack # <<>> /\ Len(stack) \in Nat \ {0}
  BY EmptySeq DEF NestInv, Moves
<1>2. Top = [handler |-> handler, at |-> from]
  BY DEF Moves, Top
<1>3. /\ stack' \in Seq(Frame) /\ stack' # <<>> /\ Len(stack') = Len(stack)
      /\ Top' = [handler |-> handler, at |-> to]
      /\ \A n \in 1..Len(stack) - 1 : stack'[n] = stack[n]
  <2> DEFINE f == [handler |-> stack[Len(stack)].handler, at |-> to]
  <2>1. Len(stack) \in 1..Len(stack) /\ stack[Len(stack)] \in Frame
    BY <1>1, LenProperties, ElementOfSeq
  <2>2. [stack[Len(stack)] EXCEPT !.at = to] = f /\ f \in Frame
    BY <2>1 DEF Frame
  <2>3. stack' = [stack EXCEPT ![Len(stack)] = f]
    BY <2>2 DEF Moves
  <2>4. stack' \in Seq(Frame) /\ Len(stack') = Len(stack)
    BY <1>1, <2>1, <2>2, <2>3, ExceptSeq
  <2>5. /\ stack'[Len(stack)] = f
        /\ \A n \in 1..Len(stack) - 1 : stack'[n] = stack[n]
    BY <1>1, <2>1, <2>3, LenProperties
  <2>6. stack' # <<>>
    BY <1>1, <2>4
  <2> QED
    BY <1>2, <2>4, <2>5, <2>6 DEF Top
<1>4. HandlersNest'
  BY <1>1, <1>3 DEF NestInv, HandlersNest
<1>5. OnlyHandled'
  <2>1. DOMAIN stack' = 1..Len(stack) /\ DOMAIN stack = 1..Len(stack)
    BY <1>1, <1>3, LenProperties
  <2>2. stack'[Len(stack)].handler # "default"
    BY <1>1, <1>2, <1>3, <2>1 DEF NestInv, OnlyHandled, Top
  <2> QED
    BY <1>1, <1>3, <2>1, <2>2 DEF NestInv, OnlyHandled
<1> QED
  BY <1>1, <1>2, <1>3, <1>4, <1>5

\* While interrupts are on nothing is in service, and no handler is at work.
LEMMA NothingInService ==
  ASSUME NestInv, interrupts = 1
  PROVE  inservice = {} /\ ~Handling("rtc") /\ ~Handling("keyboard")
BY DEF NestInv, ServiceEnds, Handling, Open, Top

-----------------------------------------------------------------------------
\* Steps of the devices, the boot and the calls leave the stack alone.
LEMMA SameStack ==
  ASSUME NestInv, UNCHANGED <<stack, inservice>>,
         interrupts' \in {0, 1},
         interrupts' = 1 => interrupts = 1 \/ stack = <<>>
  PROVE  NestInv'
BY DEF NestInv, HandlersNest, OnlyHandled, ServiceEnds, Top

LEMMA DevicesInv ==
  ASSUME MachineInv, TimerTick \/ KeyPressed \/ PeriodEnds
  PROVE  MachineInv'
<1> USE DEF MachineInv
<1>1. LinesInv'
  BY DEF LinesInv, TimerTick, KeyPressed, PeriodEnds, Timer, Keys, Clock
<1>2. NestInv'
  BY SameStack DEF NestInv, TimerTick, KeyPressed, PeriodEnds, cpu
<1>3. UNCHANGED <<stack, boot, interrupts>>
  BY DEF TimerTick, KeyPressed, PeriodEnds, cpu
<1>4. /\ Handling("rtc")' = Handling("rtc")
      /\ Handling("keyboard")' = Handling("keyboard")
      /\ Early' = Early
  BY <1>3 DEF Handling, Top, Early
<1>5. CASE TimerTick
  BY <1>1, <1>2, <1>3, <1>4, <1>5
  DEF TimerTick, vars, ClockInv, KeysInv, Timer, Keys, Clock
<1>6. CASE KeyPressed
  BY <1>1, <1>2, <1>3, <1>4, <1>6
  DEF KeyPressed, vars, ClockInv, KeysInv, Keys, Clock
<1>7. CASE PeriodEnds
  <2>1. ClockInv'
    BY <1>3, <1>4, <1>7 DEF PeriodEnds, Tick, ClockInv, Early
  <2>2. KeysInv'
    BY <1>4, <1>7 DEF PeriodEnds, KeysInv
  <2> QED
    BY <1>1, <1>2, <2>1, <2>2
<1> QED
  BY <1>5, <1>6, <1>7

LEMMA BootsInv ==
  ASSUME MachineInv, Boots
  PROVE  MachineInv'
<1> USE DEF MachineInv
<1>1. LinesInv'
  BY DEF LinesInv, Boots, KeyboardInit, RtcInit, RtcEnable, enable_irq, disable_irq,
         Lines, Timer, Keys, Clock, Cascade
<1>2. UNCHANGED <<stack, inservice, scancode, vars>>
  BY DEF Boots, KeyboardInit, RtcInit, RtcEnable, cpu
<1>3. /\ Handling("rtc")' = Handling("rtc")
      /\ Handling("keyboard")' = Handling("keyboard")
  BY <1>2 DEF Handling, Top
<1>4. CASE KeyboardInit
  <2>1. NestInv'
    BY <1>2, <1>4, SameStack DEF NestInv, KeyboardInit, cpu
  <2>2. ClockInv' /\ KeysInv'
    BY <1>2, <1>3, <1>4 DEF KeyboardInit, vars, cpu, ClockInv, KeysInv, Early
  <2> QED
    BY <1>1, <2>1, <2>2
<1>5. CASE RtcInit
  <2>1. NestInv'
    BY <1>2, <1>5, SameStack DEF NestInv, RtcInit, ClockInv, Early
  <2>2. ClockInv' /\ KeysInv'
    BY <1>2, <1>3, <1>5 DEF RtcInit, vars, ClockInv, KeysInv, Early, Handling
  <2> QED
    BY <1>1, <2>1, <2>2
<1>6. CASE RtcEnable
  <2>1. NestInv'
    BY <1>2, <1>6, SameStack DEF NestInv, RtcEnable, cpu
  <2>2. ClockInv' /\ KeysInv'
    BY <1>2, <1>3, <1>6 DEF RtcEnable, vars, cpu, ClockInv, KeysInv, Early
  <2> QED
    BY <1>1, <2>1, <2>2
<1> QED
  BY <1>4, <1>5, <1>6 DEF Boots

\* A call changes interrupts only between programs and the kernel, with no
\* handler active.
LEMMA CallInv ==
  ASSUME MachineInv, Call
  PROVE  MachineInv'
<1> USE DEF MachineInv
<1>1. UNCHANGED <<stack, pic, scancode, boot, chip>> /\ stack = <<>> /\ boot = "done"
  BY DEF Call, ReadBegin, OtherBegin, rtc_write, ReadWait, ReadClear, ReadReturn,
         OtherEnd, Step
<1>2. interrupts' \in {0, 1}
  BY DEF Call, NestInv, ProgramFlags
<1>3. NestInv'
  BY <1>1, <1>2, SameStack DEF pic
<1>4. pc' = "user" => interrupts' = 0
  BY DEF Call, ReadBegin, OtherBegin, rtc_write, ReadWait, ReadClear, ReadReturn,
         OtherEnd, Step, ProgramFlags
<1>5. ClockInv' /\ KeysInv' /\ LinesInv'
  BY <1>1, <1>4 DEF pic, chip, ClockInv, KeysInv, LinesInv, Early, Handling, Top
<1> QED
  BY <1>3, <1>5

-----------------------------------------------------------------------------
\* The processor takes an interrupt: only the keyboard's and the clock's get
\* through, each to its handler.
LEMMA AcceptInv ==
  ASSUME MachineInv, NEW irq \in Lines, Accept(irq)
  PROVE  MachineInv'
<1> USE DEF MachineInv
<1> DEFINE f == [handler |-> Handler(irq), at |-> "entry"]
<1>1. irq \in {Keys, Clock} /\ irq \in requested
  BY DEF Accept, Offered, LinesInv, Lines, Timer, Keys, Clock, Cascade
<1>2. interrupts = 1 /\ interrupts' = 0
  BY <1>1 DEF Accept, InterruptGate, Keys, Clock
<1>3. f = IF irq = Keys THEN [handler |-> "keyboard", at |-> "entry"]
                        ELSE [handler |-> "rtc", at |-> "entry"]
  BY <1>1 DEF Handler, Keys, Clock
<1>4. f \in Frame
  BY <1>3 DEF Frame
<1>5. stack \in Seq(Frame) /\ stack' = Append(stack, f)
  BY DEF NestInv, Accept
<1>6. /\ stack' \in Seq(Frame) /\ stack' # <<>> /\ Len(stack') = Len(stack) + 1
      /\ stack'[Len(stack')] = f
      /\ \A n \in 1..Len(stack) : stack'[n] = stack[n]
      /\ Len(stack) \in Nat
  BY <1>4, <1>5, Pushed, LenProperties
<1> HIDE DEF f
<1>7. inservice' = IF irq = Keys THEN {Keys} ELSE {Clock, Cascade}
  BY <1>1, <1>2, NothingInService DEF Accept, Keys, Clock, Cascade
<1>8. HandlersNest'
  <2>1. stack # <<>> => stack[Len(stack)] = Open
    BY <1>2 DEF NestInv, Top
  <2>2. SUFFICES ASSUME NEW n \in 1..Len(stack) PROVE stack'[n] = Open
    BY <1>6 DEF HandlersNest, Open
  <2>3. stack # <<>>
    BY EmptySeq
  <2>4. CASE n = Len(stack)
    BY <1>6, <2>1, <2>3, <2>4
  <2>5. CASE n \in 1..Len(stack) - 1
    BY <1>6, <2>5 DEF NestInv, HandlersNest, Open
  <2> QED
    BY <1>6, <2>4, <2>5
<1>9. OnlyHandled'
  <2>1. DOMAIN stack' = 1..Len(stack) + 1 /\ DOMAIN stack = 1..Len(stack)
    BY <1>5, <1>6, LenProperties
  <2>2. f.handler # "default"
    BY <1>3
  <2> QED
    BY <1>6, <2>1, <2>2 DEF NestInv, OnlyHandled
<1>10. ServiceEnds'
  BY <1>3, <1>6, <1>7 DEF ServiceEnds, Keys, Clock
<1>11. NestInv'
  BY <1>2, <1>6, <1>8, <1>9, <1>10 DEF NestInv
<1>12. LinesInv'
  BY DEF Accept, LinesInv
<1>13. /\ Handling("rtc")' <=> irq = Clock
       /\ Handling("keyboard")' <=> irq = Keys
  BY <1>1, <1>3, <1>6 DEF Handling, Top, Keys, Clock
<1>14. ~Handling("rtc") /\ ~Handling("keyboard")
  BY <1>2, NothingInService
<1>15. ClockInv' /\ KeysInv'
  BY <1>1, <1>2, <1>13, <1>14
  DEF Accept, vars, ClockInv, KeysInv, Early, Keys, Clock
<1> QED
  BY <1>11, <1>12, <1>15

\* The running handler goes on.
LEMMA HandlesInv ==
  ASSUME MachineInv, Handles
  PROVE  MachineInv'
<1> USE DEF MachineInv
<1>1. ASSUME KeyboardEoi PROVE MachineInv'
  <2>1. Moves("keyboard", "entry", "body")
    BY <1>1 DEF KeyboardEoi
  <2>2. /\ stack # <<>> /\ Top = [handler |-> "keyboard", at |-> "entry"]
        /\ stack' \in Seq(Frame) /\ stack' # <<>>
        /\ Top' = [handler |-> "keyboard", at |-> "body"]
        /\ HandlersNest' /\ OnlyHandled'
    BY <2>1, Moved
  <2>3. inservice' = {}
    BY <1>1, <2>2 DEF KeyboardEoi, send_eoi, Eoi, NestInv, ServiceEnds, Top, Keys
  <2>4. NestInv'
    BY <1>1, <2>2, <2>3 DEF KeyboardEoi, NestInv, ServiceEnds, Open
  <2>5. LinesInv' /\ ClockInv' /\ KeysInv'
    BY <1>1, <2>1, <2>2
    DEF KeyboardEoi, Moves, vars, LinesInv, ClockInv, KeysInv, Early, Handling
  <2> QED
    BY <2>4, <2>5
<1>2. ASSUME KeyboardBody PROVE MachineInv'
  <2>1. Moves("keyboard", "body", "popfl")
    BY <1>2 DEF KeyboardBody
  <2>2. /\ stack # <<>> /\ Top = [handler |-> "keyboard", at |-> "body"]
        /\ stack' \in Seq(Frame) /\ stack' # <<>>
        /\ Top' = [handler |-> "keyboard", at |-> "popfl"]
        /\ HandlersNest' /\ OnlyHandled'
    BY <2>1, Moved
  <2>3. inservice' = {} /\ interrupts' # 1
    BY <1>2, <2>2 DEF KeyboardBody, NestInv, ServiceEnds, Top, Open
  <2>4. NestInv'
    BY <1>2, <2>2, <2>3 DEF KeyboardBody, NestInv, ServiceEnds
  <2>5. LinesInv' /\ ClockInv' /\ KeysInv'
    BY <1>2, <2>1, <2>2
    DEF KeyboardBody, Moves, vars, LinesInv, ClockInv, KeysInv, Early, Handling
  <2> QED
    BY <2>4, <2>5
<1>3. ASSUME RtcEoi PROVE MachineInv'
  <2>1. Moves("rtc", "entry", "body")
    BY <1>3 DEF RtcEoi
  <2>2. /\ stack # <<>> /\ Top = [handler |-> "rtc", at |-> "entry"]
        /\ stack' \in Seq(Frame) /\ stack' # <<>>
        /\ Top' = [handler |-> "rtc", at |-> "body"]
        /\ HandlersNest' /\ OnlyHandled'
    BY <2>1, Moved
  <2>3. inservice' = {}
    BY <1>3, <2>2
    DEF RtcEoi, send_eoi, Eoi, NestInv, ServiceEnds, Top, Clock, Cascade
  <2>4. NestInv'
    BY <1>3, <2>2, <2>3 DEF RtcEoi, NestInv, ServiceEnds, Open
  <2>5. LinesInv' /\ ClockInv' /\ KeysInv'
    BY <1>3, <2>1, <2>2
    DEF RtcEoi, Moves, vars, LinesInv, ClockInv, KeysInv, Early, Handling
  <2> QED
    BY <2>4, <2>5
<1>4. ASSUME RtcBody PROVE MachineInv'
  <2>1. Moves("rtc", "body", "popfl")
    BY <1>4 DEF RtcBody
  <2>2. /\ stack # <<>> /\ Top = [handler |-> "rtc", at |-> "body"]
        /\ stack' \in Seq(Frame) /\ stack' # <<>>
        /\ Top' = Open
        /\ HandlersNest' /\ OnlyHandled'
    BY <2>1, Moved DEF Open
  <2>3. inservice' = {}
    BY <1>4, <2>2 DEF RtcBody, NestInv, ServiceEnds, Top
  <2>4. NestInv'
    BY <1>4, <2>2, <2>3 DEF RtcBody, NestInv, ServiceEnds
  <2>5. LinesInv' /\ ClockInv' /\ KeysInv'
    BY <1>4, <2>1, <2>2
    DEF RtcBody, HandleTick, ReadRegisterC, Moves, LinesInv, ClockInv, KeysInv, Early,
        Handling, Open
  <2> QED
    BY <2>4, <2>5
<1>5. ASSUME PopFlags PROVE MachineInv'
  <2>1. PICK handler \in {"keyboard", "rtc"} : Moves(handler, "popfl", "iret")
    BY <1>5 DEF PopFlags
  <2>2. /\ stack # <<>> /\ Top = [handler |-> handler, at |-> "popfl"]
        /\ stack' \in Seq(Frame) /\ stack' # <<>>
        /\ Top' = [handler |-> handler, at |-> "iret"]
        /\ HandlersNest' /\ OnlyHandled'
    BY <2>1, Moved
  <2>3. inservice' = {}
    BY <1>5, <2>2 DEF PopFlags, NestInv, ServiceEnds, Top
  <2>4. NestInv'
    BY <1>5, <2>2, <2>3 DEF PopFlags, NestInv, ServiceEnds
  <2>5. LinesInv' /\ ClockInv' /\ KeysInv'
    BY <1>5, <2>1, <2>2
    DEF PopFlags, Moves, vars, LinesInv, ClockInv, KeysInv, Early, Handling
  <2> QED
    BY <2>4, <2>5
<1>6. ASSUME Iret PROVE MachineInv'
  <2>1. /\ stack \in Seq(Frame) /\ stack # <<>> /\ Top.at = "iret"
        /\ stack' = SubSeq(stack, 1, Len(stack) - 1)
        /\ Len(stack) \in Nat \ {0}
    BY <1>6, EmptySeq DEF Iret, Top, NestInv
  <2>2. /\ stack' \in Seq(Frame)
        /\ Len(stack') = Len(stack) - 1
        /\ \A n \in 1..Len(stack') : stack'[n] = stack[n]
    BY <2>1, Popped
  <2>3. \A n \in 1..Len(stack') : stack'[n] = Open
    BY <2>1, <2>2 DEF NestInv, HandlersNest, Open
  <2>4. stack' # <<>> => Len(stack') \in 1..Len(stack')
    BY <2>2, EmptySeq
  <2>5. stack' # <<>> => Top' = Open
    BY <2>3, <2>4 DEF Top
  <2>6. HandlersNest' /\ OnlyHandled'
    <3>1. DOMAIN stack' = 1..Len(stack')
      BY <2>2, LenProperties
    <3> QED
      BY <2>1, <2>2, <2>3, <3>1 DEF HandlersNest, OnlyHandled, Open
  <2>7. inservice = {} /\ UNCHANGED inservice
    BY <1>6, <2>1 DEF Iret, pic, NestInv, ServiceEnds, Top
  <2>8. NestInv'
    BY <1>6, <2>2, <2>5, <2>6, <2>7 DEF Iret, NestInv, ServiceEnds
  <2>9. ~Handling("rtc") /\ ~Handling("keyboard")
    BY <2>1 DEF Handling
  <2>10. ~Handling("rtc")' /\ ~Handling("keyboard")'
    BY <2>5 DEF Handling, Open
  <2>11. LinesInv' /\ ClockInv' /\ KeysInv'
    BY <1>6, <2>1, <2>9, <2>10 DEF Iret, pic, vars, LinesInv, ClockInv, KeysInv, Early
  <2> QED
    BY <2>8, <2>11
<1> QED
  BY <1>1, <1>2, <1>3, <1>4, <1>5, <1>6 DEF Handles

LEMMA MachineInvNext == MachineInv /\ [MachineNext]_all => MachineInv'
<1> SUFFICES ASSUME MachineInv, [MachineNext]_all PROVE MachineInv'
  OBVIOUS
<1>1. CASE UNCHANGED all
  <2>1. UNCHANGED <<vars, interrupts, stack, requested, masked, inservice, scancode, boot>>
    BY <1>1 DEF all, machine
  <2> QED
    BY <2>1
    DEF MachineInv, vars, LinesInv, NestInv, HandlersNest, OnlyHandled, ServiceEnds,
        ClockInv, KeysInv, Early, Handling, Top
<1>2. CASE MachineNext
  BY <1>2, DevicesInv, BootsInv, AcceptInv, HandlesInv, CallInv DEF MachineNext
<1> QED
  BY <1>1, <1>2

-----------------------------------------------------------------------------
\* keyboard_handler is never interrupted, and rtc_handler only behind its sti,
\* however many handlers may be active at once.
THEOREM HandlersOnlyNest == MachineSpec => []HandlersNest
<1>1. MachineInv => HandlersNest
  BY DEF MachineInv, NestInv
<1> QED
  BY <1>1, MachineInvInit, MachineInvNext, PTL DEF MachineSpec

\* On both controllers every line is out of service again once its handler has
\* begun, in whatever order devices raise them.
THEOREM EveryServiceEnds == MachineSpec => []ServiceEnds
<1>1. MachineInv => ServiceEnds
  BY DEF MachineInv, NestInv
<1> QED
  BY <1>1, MachineInvInit, MachineInvNext, PTL DEF MachineSpec

\* No vector but those of the keyboard and the clock is ever taken.
THEOREM NoneUnhandled == MachineSpec => []OnlyHandled
<1>1. MachineInv => OnlyHandled
  BY DEF MachineInv, NestInv
<1> QED
  BY <1>1, MachineInvInit, MachineInvNext, PTL DEF MachineSpec

\* A request is in the controller or with its handler until it is served.
THEOREM NoRequestLost == MachineSpec => []RequestsKept
<1>1. MachineInv => RequestsKept
  <2> SUFFICES ASSUME MachineInv PROVE RequestsKept
    OBVIOUS
  <2>1. ASSUME NEW irq, NEW handler, irq \in requested \/ Handling(handler)
        PROVE  OnItsWay(irq, handler)
    <3>1. CASE irq \in requested
      BY <3>1 DEF OnItsWay
    <3>2. CASE Handling(handler)
      <4>1. Len(stack) \in DOMAIN stack
        BY <3>2, EmptySeq, LenProperties DEF Handling, MachineInv, NestInv
      <4> QED
        BY <3>2, <4>1 DEF Handling, Top, OnItsWay
    <3> QED
      BY <2>1, <3>1, <3>2
  <2> QED
    BY <2>1 DEF MachineInv, ClockInv, KeysInv, Early, RequestsKept
<1> QED
  BY <1>1, MachineInvInit, MachineInvNext, PTL DEF MachineSpec

\* Every step of the machine is one of Rtc or changes nothing of it: its
\* handler runs for a request, in a call that has interrupts on.
LEMMA StepsOfRtc == MachineInv /\ [MachineNext]_all => [Next]_vars
<1> SUFFICES ASSUME MachineInv, [MachineNext]_all PROVE [Next]_vars
  OBVIOUS
<1>1. CASE UNCHANGED all
  BY <1>1 DEF all
<1>2. CASE PeriodEnds
  BY <1>2 DEF PeriodEnds, Next
<1>3. CASE RtcBody
  <2>1. Handling("rtc") /\ stack # <<>>
    BY <1>3 DEF RtcBody, Moves, Handling, Top
  <2>2. request /\ pc # "user"
    BY <2>1 DEF MachineInv, ClockInv
  <2> QED
    BY <1>3, <2>2 DEF RtcBody, rtc_handler, Next
<1>4. CASE Call
  BY <1>4 DEF Call, Next, Continue
<1>5. CASE \/ TimerTick \/ KeyPressed \/ Boots
           \/ \E irq \in Lines : Accept(irq)
           \/ KeyboardEoi \/ KeyboardBody \/ RtcEoi \/ PopFlags \/ Iret
  BY <1>5 DEF TimerTick, KeyPressed, Boots, KeyboardInit, RtcInit, RtcEnable, Accept,
              KeyboardEoi, KeyboardBody, RtcEoi, PopFlags, Iret
<1> QED
  BY <1>1, <1>2, <1>3, <1>4, <1>5 DEF MachineNext, Handles

\* The safety of Rtc holds of the machine: whatever nests around its handler,
\* no interrupt of the clock ends two reads.
THEOREM TickEndsOneReadHere == MachineSpec => Init /\ [][Next]_vars /\ NoTickTwice
<1>1. MachineInit => Init
  BY DEF MachineInit
<1>2. HandledInv /\ [Next]_vars => [ReadClear => handled]_vars
  BY DEF HandledInv, ReadClear, Step
<1> QED
  BY <1>1, <1>2, MachineInvInit, MachineInvNext, StepsOfRtc, HandledInit, HandledNext, PTL
  DEF MachineSpec, NoTickTwice

-----------------------------------------------------------------------------
\* What MachineOK says beside MachineInv and the type of Rtc.
SizesInv ==
  /\ Len(stack) <= MaxNested
  /\ requested \subseteq Lines /\ masked \subseteq Lines /\ inservice \subseteq Lines
  /\ scancode \in BOOLEAN

\* No step but the processor's taking an interrupt makes the stack longer.
LEMMA HandlesSizes == MachineInv /\ SizesInv /\ Handles => SizesInv'
<1> SUFFICES ASSUME MachineInv, SizesInv, Handles PROVE SizesInv'
  OBVIOUS
<1>1. ASSUME NEW handler, NEW from, NEW to \in {"entry", "body", "popfl", "iret"},
             Moves(handler, from, to)
      PROVE  Len(stack') <= MaxNested /\ UNCHANGED <<requested, masked>>
  BY <1>1, Moved DEF MachineInv, SizesInv, Moves
<1>2. CASE KeyboardEoi
  BY <1>1, <1>2 DEF KeyboardEoi, send_eoi, SizesInv
<1>3. CASE KeyboardBody
  BY <1>1, <1>3 DEF KeyboardBody, SizesInv
<1>4. CASE RtcEoi
  BY <1>1, <1>4 DEF RtcEoi, send_eoi, SizesInv
<1>5. CASE RtcBody
  BY <1>1, <1>5 DEF RtcBody, SizesInv
<1>6. CASE PopFlags
  BY <1>1, <1>6 DEF PopFlags, SizesInv
<1>7. CASE Iret
  <2>1. stack \in Seq(Frame) /\ stack # <<>> /\ Len(stack) \in Nat \ {0}
    BY <1>7, EmptySeq DEF Iret, MachineInv, NestInv
  <2>2. Len(stack') = Len(stack) - 1
    BY <1>7, <2>1, Popped DEF Iret
  <2> QED
    BY <1>7, <2>1, <2>2, InterruptsAssumption DEF Iret, pic, SizesInv
<1> QED
  BY <1>2, <1>3, <1>4, <1>5, <1>6, <1>7 DEF Handles

LEMMA SizesNext == MachineInv /\ SizesInv /\ [MachineNext]_all => SizesInv'
<1> SUFFICES ASSUME MachineInv, SizesInv, [MachineNext]_all PROVE SizesInv'
  OBVIOUS
<1>1. CASE UNCHANGED all
  BY <1>1 DEF all, machine, SizesInv
<1>0. {Timer, Keys, Clock} \subseteq Lines
  BY DEF Timer, Keys, Clock, Lines
<1>2. CASE TimerTick \/ KeyPressed \/ PeriodEnds
  <2>1. UNCHANGED <<stack, masked, inservice>> /\ scancode' \in {scancode, TRUE}
    BY <1>2 DEF TimerTick, KeyPressed, PeriodEnds, cpu
  <2>2. requested' \subseteq requested \cup {Timer, Keys, Clock}
    BY <1>2 DEF TimerTick, KeyPressed, PeriodEnds
  <2> QED
    BY <1>0, <2>1, <2>2 DEF SizesInv
<1>3. CASE Boots
  <2>1. UNCHANGED <<stack, inservice, scancode>>
    BY <1>3 DEF Boots, KeyboardInit, RtcInit, RtcEnable, cpu
  <2>2. requested' \subseteq requested \cup {Clock} /\ masked' \subseteq masked \cup {Clock}
    BY <1>3 DEF Boots, KeyboardInit, RtcInit, RtcEnable, enable_irq, disable_irq
  <2> QED
    BY <1>0, <2>1, <2>2 DEF SizesInv
<1>4. ASSUME NEW irq \in Lines, Accept(irq) PROVE SizesInv'
  <2>1. stack \in Seq(Frame) /\ Len(stack) \in Nat /\ Len(stack) < MaxNested
    BY <1>4 DEF Accept, MachineInv, NestInv
  <2>2. Len(stack') = Len(stack) + 1
    BY <1>4, <2>1 DEF Accept
  <2>3. Cascade \in Lines
    BY DEF Cascade, Lines
  <2> QED
    BY <1>4, <2>1, <2>2, <2>3, InterruptsAssumption DEF Accept, SizesInv
<1>5. CASE Call
  BY <1>5 DEF Call, pic, SizesInv
<1> QED
  BY <1>1, <1>2, <1>3, <1>4, <1>5, HandlesSizes DEF MachineNext

\* Every register and every frame of a handler holds what it may, for every depth
\* of nesting; the chip's rate gives the frequency last accepted, whatever
\* interrupts come before, after and within rtc_write.
THEOREM MachineTyped == MachineSpec => []MachineOK
<1> DEFINE Inv == MachineInv /\ SizesInv /\ TypeOK
<1>1. MachineInit => Inv
  <2>1. MachineInit => SizesInv
    <3>1. MachineInit => Len(stack) = 0
      BY DEF MachineInit
    <3>2. MachineInit => Len(stack) <= MaxNested
      BY <3>1, InterruptsAssumption
    <3>3. MachineInit => /\ requested = {} /\ masked \subseteq Lines /\ inservice = {}
                         /\ scancode = FALSE
      BY DEF MachineInit, MaskedAtInit
    <3> QED
      BY <3>2, <3>3 DEF SizesInv
  <2>2. MachineInit => TypeOK
    BY TypeInit DEF MachineInit
  <2> QED
    BY <2>1, <2>2, MachineInvInit
<1>2. Inv /\ [MachineNext]_all => Inv'
  BY MachineInvNext, SizesNext, StepsOfRtc, TypeNext
<1>3. Inv => MachineOK
  BY DEF MachineInv, NestInv, ClockInv, SizesInv, MachineOK
<1> HIDE DEF Inv
<1> QED
  BY <1>1, <1>2, <1>3, PTL DEF MachineSpec
=============================================================================
