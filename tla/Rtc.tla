-------------------------------- MODULE Rtc --------------------------------
(***************************************************************************)
(* The real-time clock of rtc.c: its periodic interrupt, the handler that  *)
(* acknowledges it, and rtc_read and rtc_write.  Programs run with         *)
(* interrupts off, so the flag the handler sets and rtc_read waits for     *)
(* outlives the call it was set in.                                        *)
(*                                                                         *)
(* The chip asks for an interrupt at the end of a period only when its     *)
(* register C has been read since the last one; the request waits in the   *)
(* interrupt controller until interrupts are on.                           *)
(***************************************************************************)
EXTENDS Integers

CONSTANT Asked   \* the words programs write to the clock

ASSUME RtcAssumption == Asked \subseteq Nat

\* The frequencies rtc_write knows, FREQ_2 to FREQ_1024.
Known == 1..10
Freq(n) == <<2, 4, 8, 16, 32, 64, 128, 256, 512, 1024>>[n]

\* The frequency of the chip at a rate from 6 to 15: 32768 Hz, halved rate - 1
\* times.
Periodic(value) == <<1024, 512, 256, 128, 64, 32, 16, 8, 4, 2>>[value - 5]

VARIABLES
  interrupt_flag,
  rate,        \* the low half of register A
  pending,     \* the flag in register C that a period ended
  request,     \* the interrupt it asked for has not been handled
  pc,          \* where rtc_read is; "other" is another call with interrupts
               \* on, or the boot, "user" the program, with interrupts off
  frequency,   \* history: the word of the last rtc_write that returned 0
  handled      \* history: an interrupt was handled since the last rtc_read

vars == <<interrupt_flag, rate, pending, request, pc, frequency, handled>>
clock == <<rate, frequency>>
chip  == <<pending, request>>

\* The end of rtc_init, which turns the periodic interrupt on and leaves the
\* rate of the firmware, 1024 Hz.  Interrupts are on until the first program.
Init ==
  /\ interrupt_flag = 0
  /\ rate = 6 /\ frequency = 1024
  /\ pending \in BOOLEAN /\ request = pending
  /\ pc = "other"
  /\ handled = FALSE

-----------------------------------------------------------------------------
\* The end of a period.
Tick ==
  /\ pending' = TRUE
  /\ request' = (request \/ ~pending)
  /\ UNCHANGED <<interrupt_flag, clock, pc, handled>>

\* Mutant: the handler leaves register C unread.
KeepRegisterC == UNCHANGED pending

\* Reading register C, "else interrupt wont happen again".
ReadRegisterC == pending' = FALSE

HandleTick ==
  /\ interrupt_flag' = 1
  /\ request' = FALSE
  /\ ReadRegisterC
  /\ handled' = TRUE
  /\ UNCHANGED <<clock, pc>>

\* The handler runs for a request, in a call that has interrupts on.
rtc_handler == pc # "user" /\ request /\ HandleTick

\* A step of a call, which touches neither clock nor chip.
Step(from, to) == pc = from /\ pc' = to /\ UNCHANGED <<clock, chip>>

ReadBegin  == Step("user", "wait") /\ UNCHANGED <<interrupt_flag, handled>>

ReadWait ==
  /\ interrupt_flag # 0
  /\ Step("wait", "clear")
  /\ UNCHANGED <<interrupt_flag, handled>>

\* Mutant: rtc_read leaves the flag as it found it.
KeepFlag == UNCHANGED interrupt_flag

\* interrupt_flag = 0, whatever was handled since the loop ended.
ClearFlag == interrupt_flag' = 0

ReadClear  == Step("clear", "return") /\ ClearFlag /\ handled' = FALSE
ReadReturn == Step("return", "user") /\ UNCHANGED <<interrupt_flag, handled>>

\* read of anything else, from its sti to its return, and the end of the boot.
OtherBegin == Step("user", "other") /\ UNCHANGED <<interrupt_flag, handled>>
OtherEnd   == Step("other", "user") /\ UNCHANGED <<interrupt_flag, handled>>

\* Mutant: the table starts at its second entry.
ValueOfNext(n) == <<14, 13, 12, 11, 10, 9, 8, 7, 6, 5>>[n]

\* FREQ_2_VAL to FREQ_1024_VAL.
ValueOf(n) == <<15, 14, 13, 12, 11, 10, 9, 8, 7, 6>>[n]

\* A word that is none of the frequencies is refused and changes nothing.
\* Interrupts are on from the sti at the end of rtc_write.
rtc_write ==
  /\ pc = "user"
  /\ \E n \in Known :
       /\ Freq(n) \in Asked
       /\ rate' = ValueOf(n)
       /\ frequency' = Freq(n)
  /\ pc' = "other"
  /\ UNCHANGED <<interrupt_flag, chip, handled>>

Continue == ReadWait \/ ReadClear \/ ReadReturn \/ OtherEnd

Next ==
  \/ Tick \/ rtc_handler
  \/ ReadBegin \/ OtherBegin \/ rtc_write
  \/ Continue

\* Periods end, a request is served once interrupts are on, and calls go on.
Spec ==
  Init /\ [][Next]_vars
       /\ WF_vars(Tick) /\ WF_vars(rtc_handler) /\ WF_vars(Continue)

-----------------------------------------------------------------------------
\* Type invariant.  The clock is always at a rate the hardware divides by, and
\* the one that gives the frequency the last successful rtc_write asked for: no
\* read has changed it.
TypeOK ==
  /\ {interrupt_flag} \subseteq {0, 1}
  /\ rate \in 6..15
  /\ {pending, request, handled} \subseteq BOOLEAN
  /\ pc \in {"user", "other", "wait", "clear", "return"}
  /\ frequency \in {Freq(n) : n \in Known}
  /\ frequency = Periodic(rate)

\* No interrupt ends two reads: one handled before a read ended, in whichever
\* of its steps and in whichever call, does not end the next.
NoTickTwice == [][ReadClear => handled]_vars

\* A read of the clock returns: the interrupt it waits for comes again however
\* many periods ended, unseen, while the program ran with interrupts off.
ReadReturns == pc = "wait" ~> pc = "user"

\* What the header says of rtc_read and the code does not do: it "changes RTC
\* interrupt frequency to 2 Hz" (rtc.h:52).
ReadChangesFrequency == [][ReadReturn => Periodic(rate) = 2]_vars
=============================================================================
