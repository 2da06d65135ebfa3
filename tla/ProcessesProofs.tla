-------------------------- MODULE ProcessesProofs --------------------------
(***************************************************************************)
(* Theorems about Processes, for every MaxProcesses, LastFd, Statuses and  *)
(* SwitchTargets that ProcessesAssumption allows.                          *)
(*                                                                         *)
(* TypeInv, the first inductive invariant, adds to the type invariant what *)
(* keeps each number execute and halt compute within its table: counters   *)
(* that agree, a pid exactly on the terminals that run a program, and user *)
(* registers on every kernel stack a saved frame lies on.                  *)
(***************************************************************************)
EXTENDS Processes, TLAPS

Started ==
  /\ \A t \in Terminals : active[t] \in Pids <=> programs[t] >= 1
  /\ Live => \A t \in Terminals : programs[t] >= 0
  /\ mode = "boot" => \A t \in Terminals : programs[t] = 0
  /\ mode # "boot" => programs[1] >= 1

Occupied ==
  /\ mode = "boot" => terminalCheck = 1 /\ running = 0
  /\ Live => curr_PCB \in Slots /\ running \in Pids

StacksEntered ==
  /\ esp0 = 0 \/ entry[0].pid \in Pids
  /\ \A k \in Slots : \/ pcb[k].frame.stack = 0
                      \/ entry[pcb[k].frame.stack].pid \in Pids

TypeInv == TypeOK /\ CountsAgree /\ Started /\ Occupied /\ StacksEntered

USE DEF Terminals, Pids, Slots, NoPid, Lost, Live

\* The initial state satisfies the invariant: nothing is started, and the
\* boot code is still on the kernel stack of pid 0.
LEMMA TypeInvInit == Init => TypeInv
<1> SUFFICES ASSUME Init PROVE TypeInv
  OBVIOUS
<1>1. 0 \in Pids /\ NoPid \in Int
  BY ProcessesAssumption
<1>2. pcb \in [Slots -> PCB]
  BY <1>1 DEF Init, PCB, Frame
<1>3. entry \in [Pids -> [pid : Pids \cup {NoPid}, waits : BOOLEAN]]
  BY <1>1 DEF Init
<1>4. /\ terminalCheck \in Terminals
      /\ process_num \in 0..MaxProcesses
      /\ curr_PCB \in Slots \cup {-1, 0}
  BY ProcessesAssumption DEF Init
<1>7. /\ page \in Pids
      /\ esp0 \in Pids
      /\ running \in Pids \cup {Lost}
  BY <1>1 DEF Init
<1>9. vidmapped \in BOOLEAN
  BY DEF Init
<1>8. /\ eax \in Int
      /\ mode \in {"boot", "user", "read", "lost", "fault"}
  BY DEF Init
<1>5. /\ programs \in [Terminals -> Int]
      /\ active \in [Terminals -> Pids \cup {NoPid}]
  BY <1>1 DEF Init
<1>6. CountsAgree /\ Started /\ Occupied /\ StacksEntered
  BY <1>1, ProcessesAssumption
  DEF Init, CountsAgree, Started, Occupied, StacksEntered
<1> QED
  BY <1>2, <1>3, <1>4, <1>5, <1>6, <1>7, <1>8, <1>9 DEF TypeInv, TypeOK

\* What every system call does to the kernel stack it enters by: registers of
\* a program are on it afterwards, and on every stack that held some before.
LEMMA EnteredStacks ==
  ASSUME TypeInv, Live, NEW waits \in BOOLEAN, entry' = Entered(waits)
  PROVE  /\ entry' \in [Pids -> [pid : Pids \cup {NoPid}, waits : BOOLEAN]]
         /\ entry'[0].pid \in Pids
         /\ entry'[esp0].pid \in Pids
         /\ \A k \in Slots : entry'[pcb[k].frame.stack].pid \in Pids
         /\ \A s \in Pids : entry[s].pid \in Pids => entry'[s].pid \in Pids
<1>1. running \in Pids /\ esp0 \in Pids /\ 0 \in Pids
  BY ProcessesAssumption DEF TypeInv, TypeOK, Occupied
<1>2. \A k \in Slots : pcb[k].frame.stack \in Pids
  BY DEF TypeInv, TypeOK, PCB, Frame
<1>3. entry' \in [Pids -> [pid : Pids \cup {NoPid}, waits : BOOLEAN]]
  BY <1>1 DEF TypeInv, TypeOK, Entered
<1>4. \A s \in Pids : entry'[s].pid = IF s = esp0 THEN running ELSE entry[s].pid
  BY <1>1 DEF TypeInv, TypeOK, Entered
<1>5. entry'[esp0].pid \in Pids /\ entry'[0].pid \in Pids
  BY <1>1, <1>4 DEF TypeInv, StacksEntered
<1>6. \A k \in Slots : entry'[pcb[k].frame.stack].pid \in Pids
  BY <1>1, <1>2, <1>4, <1>5 DEF TypeInv, StacksEntered
<1> QED
  BY <1>1, <1>3, <1>4, <1>5, <1>6

\* The second half of execute keeps the invariant wherever it is entered with
\* counters that agree and with room for one more process.
LEMMA LoadTypeInv ==
  ASSUME TypeInv,
         NEW n \in Pids, NEW progs \in [Terminals -> Int], NEW frame \in Frame,
         n = progs[1] + progs[2] + progs[3],
         \A t \in Terminals : progs[t] >= 0,
         \A t \in Terminals : progs[t] >= 1 => active[t] \in Pids,
         \A t \in Terminals \ {terminalCheck} :
           active[t] \in Pids => progs[t] >= 1,
         terminalCheck = 1 \/ progs[1] >= 1,
         entry' \in [Pids -> [pid : Pids \cup {NoPid}, waits : BOOLEAN]],
         n = 0 \/ entry'[0].pid \in Pids,
         frame.stack = 0 \/ entry'[frame.stack].pid \in Pids,
         \A k \in Slots : \/ pcb[k].frame.stack = 0
                          \/ entry'[pcb[k].frame.stack].pid \in Pids,
         Load(n, progs, frame)
  PROVE  TypeInv'
<1> DEFINE t0  == terminalCheck
           new == [parent |-> IF progs[t0] = 0 THEN 0 ELSE active[t0],
                   terminal |-> t0, frame |-> frame, fds |-> {}]
<1>0. /\ t0 \in Terminals
      /\ active \in [Terminals -> Pids \cup {NoPid}]
      /\ pcb \in [Slots -> PCB]
  BY DEF TypeInv, TypeOK
<1>1. /\ t0 \in Terminals
      /\ n + 1 \in Slots
      /\ 0 \in Pids
  BY <1>0, ProcessesAssumption
<1>2. /\ process_num' = n + 1
      /\ programs' = [progs EXCEPT ![t0] = @ + 1]
      /\ active' = [active EXCEPT ![t0] = n]
      /\ page' = n /\ esp0' = n /\ running' = n /\ eax' = 43 /\ mode' = "user"
      /\ terminalCheck' = t0
  BY DEF Load, Returns
<1>3. vidmapped' \in BOOLEAN
  BY DEF Load, TypeInv, TypeOK
<1>4. /\ curr_PCB' = n + 1
      /\ pcb' = [pcb EXCEPT ![n + 1] = new]
  BY DEF Load, SlotOf
<1>5. new \in PCB
  BY <1>1 DEF PCB
<1>6. pcb' \in [Slots -> PCB]
  BY <1>0, <1>1, <1>4, <1>5
<1>7. programs' \in [Terminals -> Int]
  <2>1. programs' = [progs EXCEPT ![t0] = progs[t0] + 1]
    BY <1>2
  <2>2. progs[t0] + 1 \in Int
    BY <1>0
  <2> QED
    BY <2>1, <2>2
<1>17. active' \in [Terminals -> Pids \cup {NoPid}]
  BY <1>0, <1>2
<1>8. /\ terminalCheck' \in Terminals
      /\ process_num' \in 0..MaxProcesses
      /\ curr_PCB' \in Slots \cup {-1, 0}
      /\ page' \in Pids /\ esp0' \in Pids /\ running' \in Pids \cup {Lost}
      /\ eax' \in Int
  BY <1>1, <1>2, <1>4, ProcessesAssumption
<1>9. mode' \in {"boot", "user", "read", "lost", "fault"}
  BY <1>2
<1>10. TypeOK'
  BY <1>3, <1>6, <1>7, <1>8, <1>9, <1>17 DEF TypeOK
<1>11. CountsAgree'
  BY <1>1, <1>2 DEF CountsAgree
<1>12. \A t \in Terminals : programs'[t] = IF t = t0 THEN progs[t] + 1
                                                     ELSE progs[t]
  BY <1>1, <1>2
<1>13. \A t \in Terminals : active'[t] = IF t = t0 THEN n ELSE active[t]
  BY <1>0, <1>2
<1>14. Started'
  <2>1. \A t \in Terminals : active'[t] \in Pids <=> programs'[t] >= 1
    BY <1>0, <1>12, <1>13
  <2>2. \A t \in Terminals : programs'[t] >= 0
    BY <1>12
  <2>3. programs'[1] >= 1
    BY <1>0, <1>12
  <2> QED
    BY <1>2, <2>1, <2>2, <2>3 DEF Started
<1>15. Occupied'
  BY <1>1, <1>2, <1>4 DEF Occupied
<1>16. StacksEntered'
  <2>1. \A k \in Slots : pcb'[k].frame = IF k = n + 1 THEN frame
                                                      ELSE pcb[k].frame
    BY <1>0, <1>1, <1>4
  <2> QED
    BY <1>2, <2>1 DEF StacksEntered
<1> QED
  BY <1>10, <1>11, <1>14, <1>15, <1>16 DEF TypeInv

\* The facts of the invariant the steps below need again and again.
LEMMA Facts ==
  ASSUME TypeInv
  PROVE  /\ terminalCheck \in Terminals
         /\ process_num \in 0..MaxProcesses
         /\ programs \in [Terminals -> Int]
         /\ active \in [Terminals -> Pids \cup {NoPid}]
         /\ pcb \in [Slots -> PCB]
         /\ entry \in [Pids -> [pid : Pids \cup {NoPid}, waits : BOOLEAN]]
         /\ page \in Pids
         /\ esp0 \in Pids
         /\ 0 \in Pids
         /\ \A k \in Slots : pcb[k].parent \in Pids /\ pcb[k].frame \in Frame
         /\ process_num = programs[1] + programs[2] + programs[3]
<1>1. 0 \in Pids
  BY ProcessesAssumption
<1>2. pcb \in [Slots -> PCB]
  BY DEF TypeInv, TypeOK
<1>3. \A k \in Slots : pcb[k].parent \in Pids /\ pcb[k].frame \in Frame
  BY <1>2 DEF PCB
<1> QED
  BY <1>1, <1>2, <1>3 DEF TypeInv, TypeOK, CountsAgree

\* The bookkeeping of "exit" and halt, on a terminal with another program.
LEMMA LeaveFacts ==
  ASSUME TypeInv, Live, ~OnlyProgram, Leave
  PROVE  /\ programs' \in [Terminals -> Int]
         /\ \A t \in Terminals :
              programs'[t] = IF t = terminalCheck THEN programs[t] - 1
                                                  ELSE programs[t]
         /\ \A t \in Terminals : programs'[t] >= 1 <=> programs[t] >= 1
         /\ process_num' \in 0..MaxProcesses
         /\ process_num' = programs'[1] + programs'[2] + programs'[3]
         /\ programs'[1] >= 1
<1> DEFINE t0 == terminalCheck
<1>1. programs' = [programs EXCEPT ![t0] = programs[t0] - 1]
  BY DEF Leave
<1>2. programs[t0] # 1 /\ process_num' = process_num - 1
  BY DEF OnlyProgram, Leave
<1>3. t0 \in Terminals /\ programs[t0] - 1 \in Int
  BY Facts
<1>4. programs' \in [Terminals -> Int]
  BY <1>1, <1>3, Facts
<1>5. \A t \in Terminals :
        programs'[t] = IF t = t0 THEN programs[t] - 1 ELSE programs[t]
  BY <1>1, <1>3, Facts
<1>6. /\ \A t \in Terminals : programs[t] >= 0
      /\ programs[1] >= 1
  BY DEF TypeInv, Started
<1>7. \A t \in Terminals : programs'[t] >= 1 <=> programs[t] >= 1
  BY <1>2, <1>5, Facts
<1>8. process_num' = programs'[1] + programs'[2] + programs'[3]
  BY <1>2, <1>3, <1>5, Facts
<1>9. process_num' \in 0..MaxProcesses
  BY <1>2, <1>6, Facts, ProcessesAssumption
<1> QED
  BY <1>4, <1>5, <1>6, <1>7, <1>8, <1>9

\* "exit" in execute keeps the invariant, also when it faults.
LEMMA ExitTypeInv ==
  ASSUME TypeInv, ExecuteExit \/ ExitFaults
  PROVE  TypeInv'
<1> DEFINE t0 == terminalCheck
           k  == active[t0]
<1>1. Live /\ ~OnlyProgram /\ entry' = Entered(FALSE)
  BY DEF ExecuteExit, ExitFaults, Syscall
<1>2. /\ entry' \in [Pids -> [pid : Pids \cup {NoPid}, waits : BOOLEAN]]
      /\ entry'[0].pid \in Pids
      /\ \A j \in Slots : entry'[pcb[j].frame.stack].pid \in Pids
  BY <1>1, EnteredStacks
<1>3. CASE ExecuteExit
  <2>1. /\ k \in Slots /\ curr_PCB' = k /\ Leave
        /\ active' = [active EXCEPT ![t0] = pcb[k].parent]
        /\ eax' = 0 /\ mode' = "user"
        /\ terminalCheck' = terminalCheck /\ pcb' = pcb /\ page' = page
        /\ esp0' = esp0 /\ running' = running
    BY <1>3 DEF ExecuteExit, ParentSlot, Previous, Returns, cpu
  <2>2. vidmapped' = vidmapped
    BY <1>3 DEF ExecuteExit
  <2>3. k \in Pids /\ pcb[k].parent \in Pids
    BY <2>1, Facts
  <2>4. active' \in [Terminals -> Pids \cup {NoPid}]
    BY <2>1, <2>3, Facts
  <2>5. \A t \in Terminals :
          active'[t] = IF t = t0 THEN pcb[k].parent ELSE active[t]
    BY <2>1, Facts
  <2>6. running \in Pids
    BY <1>1 DEF TypeInv, Occupied
  <2>7. vidmapped' \in BOOLEAN
    BY <2>2 DEF TypeInv, TypeOK
  <2>11. /\ process_num' \in 0..MaxProcesses
         /\ programs' \in [Terminals -> Int]
    BY <1>1, <2>1, LeaveFacts
  <2>12. /\ terminalCheck' \in Terminals /\ pcb' \in [Slots -> PCB]
         /\ page' \in Pids /\ esp0' \in Pids
    BY <2>1, Facts
  <2>13. /\ curr_PCB' \in Slots \cup {-1, 0}
         /\ running' \in Pids \cup {Lost} /\ eax' \in Int
    BY <2>1, <2>6
  <2>14. mode' \in {"boot", "user", "read", "lost", "fault"}
    BY <2>1
  <2>8. TypeOK'
    BY <1>2, <2>4, <2>7, <2>11, <2>12, <2>13, <2>14 DEF TypeOK
  <2>9. Started'
    <3>1. \A t \in Terminals : active'[t] \in Pids <=> active[t] \in Pids
      BY <2>3, <2>5
    <3>2. \A t \in Terminals : active[t] \in Pids <=> programs[t] >= 1
      BY DEF TypeInv, Started
    <3>3. \A t \in Terminals : programs[t] >= 0
      BY <1>1 DEF TypeInv, Started
    <3>5. programs[t0] >= 1
      BY <2>3, <3>2, Facts
    <3>4. \A t \in Terminals : programs'[t] >= 0
      <4>1. \A t \in Terminals : programs'[t] =
              IF t = t0 THEN programs[t] - 1 ELSE programs[t]
        BY <1>1, <2>1, LeaveFacts
      <4>2. \A t \in Terminals : programs[t] \in Int
        BY Facts
      <4> QED
        BY <3>3, <3>5, <4>1, <4>2
    <3> QED
      BY <1>1, <2>1, <3>1, <3>2, <3>4, LeaveFacts DEF Started
  <2>10. Occupied' /\ StacksEntered' /\ CountsAgree'
    BY <1>1, <1>2, <2>1, <2>6, LeaveFacts
    DEF Occupied, StacksEntered, CountsAgree
  <2> QED
    BY <2>8, <2>9, <2>10 DEF TypeInv
<1>4. CASE ExitFaults
  <2>1. /\ curr_PCB' = k /\ k \notin Slots
        /\ terminalCheck' = terminalCheck /\ process_num' = process_num
        /\ programs' = programs /\ active' = active /\ pcb' = pcb
        /\ page' = page /\ esp0' = esp0 /\ running' = running
        /\ eax' = eax /\ mode' = "fault"
    BY <1>4 DEF ExitFaults, ParentSlot, counters, cpu
  <2>2. vidmapped' = vidmapped
    BY <1>4 DEF ExitFaults
  <2>5. k \in Pids \cup {NoPid}
    BY Facts
  <2>3. curr_PCB' \in Slots \cup {-1, 0}
    BY <2>1, <2>5, ProcessesAssumption
  <2>4. TypeOK'
    BY <1>2, <2>1, <2>2, <2>3 DEF TypeInv, TypeOK
  <2>6. Started' /\ Occupied' /\ StacksEntered' /\ CountsAgree'
    BY <1>1, <1>2, <2>1
    DEF TypeInv, Started, Occupied, StacksEntered, CountsAgree
  <2> QED
    BY <2>4, <2>6 DEF TypeInv
<1> QED
  BY <1>3, <1>4

\* halt going back to a saved frame keeps the invariant: the slot it takes
\* holds the PCB of a pid that has been started, and its frame lies on a
\* stack that holds a program's registers.
LEMMA HaltToParentTypeInv ==
  ASSUME TypeInv, NEW value \in Int, HaltToParent(value)
  PROVE  TypeInv'
<1> DEFINE t0  == terminalCheck
           k   == active[t0]
           new == [pcb[curr_PCB] EXCEPT !.fds = {}]
<1>1. Live /\ ~OnlyProgram /\ entry' = Entered(FALSE) /\ Leave
  BY DEF HaltToParent, Syscall
<1>2. /\ entry' \in [Pids -> [pid : Pids \cup {NoPid}, waits : BOOLEAN]]
      /\ entry'[0].pid \in Pids
      /\ \A j \in Slots : entry'[pcb[j].frame.stack].pid \in Pids
  BY <1>1, EnteredStacks
<1>3. /\ k \in Slots /\ curr_PCB' = k /\ page' = pcb[k].parent
      /\ active' = [active EXCEPT ![t0] = pcb[k].parent]
      /\ pcb' = [pcb EXCEPT ![curr_PCB] = new]
      /\ esp0' = 0 /\ eax' = value /\ terminalCheck' = terminalCheck
  BY DEF HaltToParent, ParentSlot, Previous, HaltStack
<1>4. vidmapped' \in BOOLEAN
  BY DEF HaltToParent, TypeInv, TypeOK
<1>5. curr_PCB \in Slots /\ running \in Pids
  BY <1>1 DEF TypeInv, Occupied
<1>6. k \in Pids /\ pcb[k].parent \in Pids
  BY <1>3, Facts
<1>7. new \in PCB /\ new.frame = pcb[curr_PCB].frame
  BY <1>5, Facts DEF PCB
<1>8. /\ pcb' \in [Slots -> PCB]
      /\ \A j \in Slots : pcb'[j].frame = pcb[j].frame
  BY <1>3, <1>5, <1>7, Facts
<1>9. \/ running' \in Pids /\ mode' = "user"
      \/ running' = Lost /\ mode' = "lost"
  <2>1. PICK p \in Continuations(pcb[k].frame, entry') :
          running' = p /\ mode' = IF p = Lost THEN "lost" ELSE "user"
    BY DEF HaltToParent, ParentSlot
  <2>2. entry'[pcb[k].frame.stack].pid \in Pids
    BY <1>2, <1>3
  <2>3. p \in Pids \/ p = Lost
    BY <2>1, <2>2 DEF Continuations
  <2>4. \A q \in Pids : q # Lost
    BY ProcessesAssumption
  <2> QED
    BY <2>1, <2>3, <2>4
<1>10. active' \in [Terminals -> Pids \cup {NoPid}]
  BY <1>3, <1>6, Facts
<1>11. \A t \in Terminals :
         active'[t] = IF t = t0 THEN pcb[k].parent ELSE active[t]
  BY <1>3, Facts
<1>12. TypeOK'
  <2>1. /\ process_num' \in 0..MaxProcesses
        /\ programs' \in [Terminals -> Int]
    BY <1>1, LeaveFacts
  <2>2. /\ terminalCheck' \in Terminals
        /\ page' \in Pids /\ esp0' \in Pids
    BY <1>3, <1>6, Facts
  <2>3. /\ curr_PCB' \in Slots \cup {-1, 0}
        /\ running' \in Pids \cup {Lost} /\ eax' \in Int
    BY <1>3, <1>9
  <2>4. mode' \in {"boot", "user", "read", "lost", "fault"}
    BY <1>9
  <2> QED
    BY <1>2, <1>4, <1>8, <1>10, <2>1, <2>2, <2>3, <2>4 DEF TypeOK
<1>13. Started'
  <2>1. \A t \in Terminals : active'[t] \in Pids <=> active[t] \in Pids
    BY <1>6, <1>11
  <2>2. \A t \in Terminals : active[t] \in Pids <=> programs[t] >= 1
    BY DEF TypeInv, Started
  <2>3. \A t \in Terminals : programs[t] >= 0
    BY <1>1 DEF TypeInv, Started
  <2>4. programs[t0] >= 1
    BY <1>6, <2>2, Facts
  <2>5. \A t \in Terminals : programs'[t] >= 0
    <3>1. \A t \in Terminals :
            programs'[t] = IF t = t0 THEN programs[t] - 1 ELSE programs[t]
      BY <1>1, LeaveFacts
    <3>2. \A t \in Terminals : programs[t] \in Int
      BY Facts
    <3> QED
      BY <2>3, <2>4, <3>1, <3>2
  <2> QED
    BY <1>1, <1>9, <2>1, <2>2, <2>5, LeaveFacts DEF Started
<1>14. Occupied'
  BY <1>3, <1>9 DEF Occupied
<1>15. StacksEntered'
  BY <1>2, <1>3, <1>8 DEF StacksEntered
<1>16. CountsAgree'
  BY <1>1, LeaveFacts DEF CountsAgree
<1> QED
  BY <1>12, <1>13, <1>14, <1>15, <1>16 DEF TypeInv

\* halt keeps it when the slot it takes is not mapped, and the kernel faults.
LEMMA HaltFaultsTypeInv ==
  ASSUME TypeInv, HaltFaults
  PROVE  TypeInv'
<1> DEFINE t0  == terminalCheck
           new == [pcb[curr_PCB] EXCEPT !.fds = {}]
<1>1. Live /\ ~OnlyProgram /\ entry' = Entered(FALSE) /\ Leave
  BY DEF HaltFaults, Syscall
<1>2. /\ entry' \in [Pids -> [pid : Pids \cup {NoPid}, waits : BOOLEAN]]
      /\ entry'[0].pid \in Pids
      /\ \A j \in Slots : entry'[pcb[j].frame.stack].pid \in Pids
  BY <1>1, EnteredStacks
<1>3. /\ active[t0] \notin Slots /\ curr_PCB' = active[t0]
      /\ pcb' = [pcb EXCEPT ![curr_PCB] = new]
      /\ active' = active /\ page' = page /\ esp0' = esp0 /\ eax' = eax
      /\ running' = running /\ terminalCheck' = terminalCheck
      /\ mode' = "fault"
  BY DEF HaltFaults, ParentSlot, cpu
<1>4. vidmapped' \in BOOLEAN
  BY DEF HaltFaults, TypeInv, TypeOK
<1>5. curr_PCB \in Slots /\ running \in Pids
  BY <1>1 DEF TypeInv, Occupied
<1>6. curr_PCB' \in Slots \cup {-1, 0}
  <2>1. active[t0] \in Pids \cup {NoPid}
    BY Facts
  <2> QED
    BY <1>3, <2>1, ProcessesAssumption
<1>7. new \in PCB /\ new.frame = pcb[curr_PCB].frame
  BY <1>5, Facts DEF PCB
<1>8. /\ pcb' \in [Slots -> PCB]
      /\ \A j \in Slots : pcb'[j].frame = pcb[j].frame
  BY <1>3, <1>5, <1>7, Facts
<1>9. TypeOK'
  <2>1. /\ process_num' \in 0..MaxProcesses
        /\ programs' \in [Terminals -> Int]
    BY <1>1, LeaveFacts
  <2>2. /\ terminalCheck' \in Terminals
        /\ page' \in Pids /\ esp0' \in Pids
        /\ active' \in [Terminals -> Pids \cup {NoPid}]
    BY <1>3, Facts
  <2>3. running' \in Pids \cup {Lost} /\ eax' \in Int
    BY <1>3, <1>5 DEF TypeInv, TypeOK
  <2>4. mode' \in {"boot", "user", "read", "lost", "fault"}
    BY <1>3
  <2> QED
    BY <1>2, <1>4, <1>6, <1>8, <2>1, <2>2, <2>3, <2>4 DEF TypeOK
<1>10. Started'
  BY <1>1, <1>3, LeaveFacts DEF TypeInv, Started
<1>11. Occupied' /\ StacksEntered' /\ CountsAgree'
  BY <1>1, <1>2, <1>3, <1>8, LeaveFacts
  DEF Occupied, StacksEntered, CountsAgree
<1> QED
  BY <1>9, <1>10, <1>11 DEF TypeInv

\* The three ways into the second half of execute meet its conditions.
LEMMA StartTypeInv ==
  ASSUME TypeInv, Boot \/ Execute \/ HaltBase
  PROVE  TypeInv'
<1> DEFINE t0 == terminalCheck
<1>0. \A t \in Terminals : active[t] \in Pids <=> programs[t] >= 1
  BY DEF TypeInv, Started
<1>1. CASE Boot
  <2> DEFINE frame == [stack |-> 0, direct |-> FALSE]
  <2>1. mode = "boot" /\ entry' = entry /\ Load(process_num, programs, frame)
    BY <1>1 DEF Boot
  <2>2. /\ \A t \in Terminals : programs[t] = 0
        /\ t0 = 1
    BY <2>1 DEF TypeInv, Started, Occupied
  <2>3. process_num = 0
    BY <2>2, Facts
  <2>4. frame \in Frame
    BY Facts DEF Frame
  <2>5. \A k \in Slots : \/ pcb[k].frame.stack = 0
                         \/ entry'[pcb[k].frame.stack].pid \in Pids
    BY <2>1 DEF TypeInv, StacksEntered
  <2>6. process_num \in Pids /\ process_num = programs[1] + programs[2] + programs[3]
    BY <2>3, Facts
  <2>7. \A t \in Terminals : programs[t] >= 0 /\ ~(programs[t] >= 1)
    BY <2>2
  <2>8. entry' \in [Pids -> [pid : Pids \cup {NoPid}, waits : BOOLEAN]]
    BY <2>1, Facts
  <2> HIDE DEF frame
  <2>9. frame.stack = 0
    BY DEF frame
  <2> QED
    BY <1>0, <2>1, <2>2, <2>3, <2>4, <2>5, <2>6, <2>7, <2>8, <2>9,
       LoadTypeInv, Facts
<1>2. CASE Execute
  <2> DEFINE frame == [stack |-> esp0, direct |-> TRUE]
  <2>1. /\ Live /\ entry' = Entered(TRUE) /\ process_num < MaxProcesses
        /\ Load(process_num, programs, frame)
    BY <1>2, Facts, ProcessesAssumption DEF Execute, Syscall, Full
  <2>2. /\ entry' \in [Pids -> [pid : Pids \cup {NoPid}, waits : BOOLEAN]]
        /\ entry'[0].pid \in Pids
        /\ entry'[esp0].pid \in Pids
        /\ \A k \in Slots : entry'[pcb[k].frame.stack].pid \in Pids
    BY <2>1, EnteredStacks
  <2>3. /\ \A t \in Terminals : programs[t] >= 0
        /\ programs[1] >= 1
    BY <2>1 DEF TypeInv, Started
  <2>4. frame \in Frame /\ frame.stack = esp0
    BY Facts DEF Frame
  <2>5. process_num \in Pids
    BY <2>1, Facts, ProcessesAssumption
  <2> HIDE DEF frame
  <2> QED
    BY <1>0, <2>1, <2>2, <2>3, <2>4, <2>5, LoadTypeInv, Facts
<1>3. CASE HaltBase
  <2> DEFINE frame == [stack |-> esp0, direct |-> FALSE]
             progs == [programs EXCEPT ![t0] = 0]
  <2>1. /\ Live /\ entry' = Entered(FALSE) /\ programs[t0] = 1
        /\ Load(process_num - 1, progs, frame)
    BY <1>3 DEF HaltBase, Syscall, OnlyProgram
  <2>2. /\ entry' \in [Pids -> [pid : Pids \cup {NoPid}, waits : BOOLEAN]]
        /\ entry'[0].pid \in Pids
        /\ entry'[esp0].pid \in Pids
        /\ \A k \in Slots : entry'[pcb[k].frame.stack].pid \in Pids
    BY <2>1, EnteredStacks
  <2>3. /\ \A t \in Terminals : programs[t] >= 0
        /\ programs[1] >= 1
    BY <2>1 DEF TypeInv, Started
  <2>4. frame \in Frame /\ frame.stack = esp0
    BY Facts DEF Frame
  <2>5. /\ progs \in [Terminals -> Int]
        /\ \A t \in Terminals : progs[t] = IF t = t0 THEN 0 ELSE programs[t]
    BY Facts
  <2> HIDE DEF frame, progs
  <2>9. /\ t0 = 1 \/ t0 = 2 \/ t0 = 3
        /\ process_num = programs[1] + programs[2] + programs[3]
        /\ programs[1] \in Int /\ programs[2] \in Int /\ programs[3] \in Int
    BY Facts
  <2>6. process_num - 1 = progs[1] + progs[2] + progs[3]
    BY <2>1, <2>5, <2>9
  <2>7. process_num - 1 \in Pids
    BY <2>1, <2>3, Facts, ProcessesAssumption
  <2>8. /\ \A t \in Terminals : progs[t] >= 0
        /\ \A t \in Terminals : progs[t] >= 1 => active[t] \in Pids
        /\ \A t \in Terminals \ {t0} : active[t] \in Pids => progs[t] >= 1
        /\ t0 = 1 \/ progs[1] >= 1
    BY <1>0, <2>3, <2>5
  <2> QED
    BY <2>1, <2>2, <2>4, <2>5, <2>6, <2>7, <2>8, LoadTypeInv
<1> QED
  BY <1>1, <1>2, <1>3

\* The calls that touch descriptors, the video page or nothing, and the
\* interrupt that switches terminals, keep it.
LEMMA QuietTypeInv ==
  ASSUME TypeInv, Live,
         entry' = entry \/ \E waits \in BOOLEAN : entry' = Entered(waits),
         Live', eax' \in Int, vidmapped' \in BOOLEAN,
         terminalCheck' \in Terminals,
         pcb' \in [Slots -> PCB],
         \A k \in Slots : pcb'[k].frame = pcb[k].frame,
         UNCHANGED <<counters, active, curr_PCB, cpu>>
  PROVE  TypeInv'
<1>1. /\ process_num' = process_num /\ programs' = programs
      /\ active' = active /\ curr_PCB' = curr_PCB
      /\ page' = page /\ esp0' = esp0 /\ running' = running
  BY DEF counters, cpu
<1>2. /\ entry' \in [Pids -> [pid : Pids \cup {NoPid}, waits : BOOLEAN]]
      /\ esp0 = 0 \/ entry'[0].pid \in Pids
      /\ \A k \in Slots : \/ pcb[k].frame.stack = 0
                          \/ entry'[pcb[k].frame.stack].pid \in Pids
  <2>1. CASE entry' = entry
    BY <2>1, Facts DEF TypeInv, StacksEntered
  <2>2. CASE \E waits \in BOOLEAN : entry' = Entered(waits)
    BY <2>2, EnteredStacks
  <2> QED
    BY <2>1, <2>2
<1>3. mode' \in {"boot", "user", "read", "lost", "fault"}
  OBVIOUS
<1>4. TypeOK'
  BY <1>1, <1>2, <1>3 DEF TypeInv, TypeOK
<1>5. Started' /\ Occupied' /\ StacksEntered' /\ CountsAgree'
  BY <1>1, <1>2
  DEF TypeInv, Started, Occupied, StacksEntered, CountsAgree
<1> QED
  BY <1>4, <1>5 DEF TypeInv

LEMMA StatusValues == \A status \in Statuses : Int8(status) \in Int
  BY ProcessesAssumption DEF Int8

LEMMA TypeInvNext == TypeInv /\ [Next]_vars => TypeInv'
<1> SUFFICES ASSUME TypeInv, [Next]_vars PROVE TypeInv'
  OBVIOUS
<1>1. CASE Boot \/ Execute \/ HaltBase
  BY <1>1, StartTypeInv
<1>2. CASE ExecuteExit \/ ExitFaults
  BY <1>2, ExitTypeInv
<1>3. CASE HaltFaults
  BY <1>3, HaltFaultsTypeInv
<1>4. CASE \E value \in Int : HaltToParent(value)
  BY <1>4, HaltToParentTypeInv
<1>5. CASE SyscallFails \/ ExecuteFull \/ ExitRefused \/ Vidmap
  <2>1. /\ Live /\ Live' /\ entry' = Entered(FALSE)
        /\ terminalCheck' = terminalCheck /\ pcb' = pcb
        /\ UNCHANGED <<counters, active, curr_PCB, cpu>>
    BY <1>5 DEF SyscallFails, ExecuteFull, ExitRefused, Vidmap, Syscall,
                Returns, tables, counters
  <2>4. eax' = -1 \/ eax' = 0
    BY <1>5 DEF SyscallFails, ExecuteFull, ExitRefused, Vidmap, Returns
  <2>2. eax' \in Int
    BY <2>4
  <2>3. vidmapped' \in BOOLEAN
    BY <1>5 DEF SyscallFails, ExecuteFull, ExitRefused, Vidmap, TypeInv, TypeOK
  <2> QED
    BY <2>1, <2>2, <2>3, QuietTypeInv, Facts
<1>6. CASE ReadBegin \/ ReadEnd
  <2>1. /\ Live /\ Live' /\ (entry' = entry \/ entry' = Entered(FALSE))
        /\ terminalCheck' = terminalCheck /\ pcb' = pcb
        /\ UNCHANGED <<counters, active, curr_PCB, cpu>>
    BY <1>6 DEF ReadBegin, ReadEnd, Returns, tables, counters
  <2>4. eax' = eax \/ eax' = 0
    BY <1>6 DEF ReadBegin, ReadEnd, Returns
  <2>2. eax' \in Int
    BY <2>4 DEF TypeInv, TypeOK
  <2>3. vidmapped' \in BOOLEAN
    BY <1>6 DEF ReadBegin, ReadEnd, TypeInv, TypeOK
  <2> QED
    BY <2>1, <2>2, <2>3, QuietTypeInv, Facts
<1>7. CASE \E t \in SwitchTargets : Switch(t)
  <2>1. /\ Live /\ Live' /\ entry' = entry
        /\ terminalCheck' \in Terminals /\ pcb' = pcb /\ eax' = eax
        /\ UNCHANGED <<counters, active, curr_PCB, cpu>>
    BY <1>7, ProcessesAssumption DEF Switch, tables, counters
  <2>2. eax' \in Int
    BY <2>1 DEF TypeInv, TypeOK
  <2>3. vidmapped' \in BOOLEAN
    BY <1>7 DEF Switch, TypeInv, TypeOK
  <2> QED
    BY <2>1, <2>2, <2>3, QuietTypeInv, Facts
<1>8. CASE Open \/ \E fd \in Fds : Close(fd)
  <2>0. curr_PCB \in Slots
    BY <1>8 DEF Open, Close, Syscall, TypeInv, Occupied
  <2>1. PICK fds \in SUBSET Fds :
          pcb' = [pcb EXCEPT ![curr_PCB] = [pcb[curr_PCB] EXCEPT !.fds = fds]]
    <3>1. pcb[curr_PCB].fds \in SUBSET Fds
      BY <2>0, Facts DEF PCB
    <3> QED
      BY <1>8, <3>1 DEF Open, Close, Free
  <2>2. /\ Live /\ Live' /\ entry' = Entered(FALSE)
        /\ terminalCheck' = terminalCheck
        /\ UNCHANGED <<counters, active, curr_PCB, cpu>>
    BY <1>8 DEF Open, Close, Syscall, Returns
  <2>7. eax' \in Fds \/ eax' = 0
    BY <1>8 DEF Open, Close, Returns, Free
  <2>3. eax' \in Int
    BY <2>7 DEF Fds
  <2>4. vidmapped' \in BOOLEAN
    BY <1>8 DEF Open, Close, TypeInv, TypeOK
  <2>5. [pcb[curr_PCB] EXCEPT !.fds = fds] \in PCB
    BY <2>0, Facts DEF PCB
  <2>6. /\ pcb' \in [Slots -> PCB]
        /\ \A k \in Slots : pcb'[k].frame = pcb[k].frame
    BY <2>0, <2>1, <2>5, Facts DEF PCB
  <2> QED
    BY <2>2, <2>3, <2>4, <2>6, QuietTypeInv, Facts
<1>9. CASE UNCHANGED vars
  BY <1>9 DEF vars, TypeInv, TypeOK, CountsAgree, Started, Occupied,
              StacksEntered
<1> QED
  <2>1. 256 \in Int
    OBVIOUS
  <2> QED
    BY <1>1, <1>2, <1>3, <1>4, <1>5, <1>6, <1>7, <1>8, <1>9, <2>1,
       StatusValues
    DEF Next, Halt, Exception

\* Every number the process tables are indexed with is within them, and the
\* number of processes is that of the terminals' programs, in every reachable
\* state: for any table size and any terminals the user switches between.
THEOREM TypeCorrect == Spec => [](TypeOK /\ CountsAgree)
<1>1. TypeInv => TypeOK /\ CountsAgree
  BY DEF TypeInv
<1> QED
  BY <1>1, TypeInvInit, TypeInvNext, PTL DEF Spec

\* However execute, "exit" and halt are charged to terminals, in their separate
\* branches, the number of processes stays the sum of the terminals' counters.
THEOREM CountersAgree == Spec => []CountsAgree
  BY TypeCorrect, PTL

-----------------------------------------------------------------------------
\* Every step is one of five kinds, as far as the tables are concerned.
LEMMA StepKinds ==
  ASSUME TypeInv, Next
  PROVE  \/ \E n \in Pids, progs \in [Terminals -> Int], frame \in Frame :
              /\ Load(n, progs, frame)
              /\ \/ n = process_num /\ progs = programs
                 \/ /\ n = process_num - 1 /\ programs[terminalCheck] = 1
                    /\ progs = [programs EXCEPT ![terminalCheck] = 0]
         \/ ExecuteExit
         \/ \E value \in Int : HaltToParent(value)
         \/ HaltFaults
         \/ /\ UNCHANGED <<process_num, programs, active, page, esp0, running>>
            /\ Live' => curr_PCB' = curr_PCB /\ Live
            /\ mode' # "boot"
            /\ \A k \in Slots : /\ pcb'[k].terminal = pcb[k].terminal
                                /\ pcb'[k].parent = pcb[k].parent
<1>1. CASE Boot
  <2>1. /\ Load(process_num, programs, [stack |-> 0, direct |-> FALSE])
        /\ mode = "boot"
    BY <1>1 DEF Boot
  <2>2. process_num = 0
    BY <2>1, Facts DEF TypeInv, Started
  <2>3. [stack |-> 0, direct |-> FALSE] \in Frame
    BY Facts DEF Frame
  <2> QED
    BY <2>1, <2>2, <2>3, Facts
<1>2. CASE Execute
  <2>1. /\ Load(process_num, programs, [stack |-> esp0, direct |-> TRUE])
        /\ process_num < MaxProcesses
    BY <1>2, Facts, ProcessesAssumption DEF Execute, Full
  <2>2. process_num \in Pids
    BY <2>1, Facts, ProcessesAssumption
  <2>3. [stack |-> esp0, direct |-> TRUE] \in Frame
    BY Facts DEF Frame
  <2> QED
    BY <2>1, <2>2, <2>3, Facts
<1>3. CASE HaltBase
  <2> DEFINE progs == [programs EXCEPT ![terminalCheck] = 0]
  <2>1. /\ Load(process_num - 1, progs, [stack |-> esp0, direct |-> FALSE])
        /\ programs[terminalCheck] = 1 /\ Live
    BY <1>3 DEF HaltBase, OnlyProgram, Syscall
  <2>2. programs[1] >= 1 /\ \A t \in Terminals : programs[t] >= 0
    BY <2>1 DEF TypeInv, Started
  <2>3. process_num - 1 \in Pids
    BY <2>2, Facts, ProcessesAssumption
  <2>4. [stack |-> esp0, direct |-> FALSE] \in Frame
    BY Facts DEF Frame
  <2>5. progs \in [Terminals -> Int]
    BY Facts
  <2> QED
    BY <2>1, <2>3, <2>4, <2>5
<1>4. CASE Open \/ \E fd \in Fds : Close(fd)
  <2>1. /\ UNCHANGED <<process_num, programs, active, page, esp0, running>>
        /\ curr_PCB' = curr_PCB /\ Live /\ mode' # "boot"
    BY <1>4 DEF Open, Close, Syscall, Returns, counters, cpu
  <2>2. curr_PCB \in Slots
    BY <2>1 DEF TypeInv, Occupied
  <2>3. \E fds : pcb' = [pcb EXCEPT ![curr_PCB].fds = fds]
    BY <1>4 DEF Open, Close
  <2>4. \A k \in Slots : /\ pcb'[k].terminal = pcb[k].terminal
                         /\ pcb'[k].parent = pcb[k].parent
    BY <2>2, <2>3, Facts DEF PCB
  <2> QED
    BY <2>1, <2>4
<1>5. CASE \/ SyscallFails \/ ExecuteFull \/ ExitRefused \/ Vidmap
           \/ ReadBegin \/ ReadEnd \/ \E t \in SwitchTargets : Switch(t)
  <2>1. /\ UNCHANGED <<process_num, programs, active, curr_PCB, pcb>>
        /\ UNCHANGED <<page, esp0, running>> /\ Live /\ mode' # "boot"
    BY <1>5 DEF SyscallFails, ExecuteFull, ExitRefused, Vidmap, ReadBegin,
                ReadEnd, Switch, Syscall, Returns, tables, cpu
  <2> QED
    BY <2>1
<1>6. CASE ExitFaults
  BY <1>6 DEF ExitFaults, counters, cpu
<1>7. CASE \E status \in Statuses : Halt(status) \/ Exception
  <2>1. 256 \in Int
    OBVIOUS
  <2> QED
    BY <1>3, <1>7, <2>1, StatusValues DEF Halt, Exception
<1> QED
  BY <1>1, <1>2, <1>3, <1>4, <1>5, <1>6, <1>7 DEF Next, Halt, Exception

\* The counters after the second half of execute.
LEMMA LoadCounts ==
  ASSUME TypeInv, NEW n \in Pids, NEW progs \in [Terminals -> Int],
         NEW frame \in Frame, Load(n, progs, frame),
         \/ n = process_num /\ progs = programs
         \/ /\ n = process_num - 1 /\ programs[terminalCheck] = 1
            /\ progs = [programs EXCEPT ![terminalCheck] = 0]
  PROVE  /\ process_num' = n + 1 /\ process_num' >= process_num
         /\ \A t \in Terminals : programs'[t] >= programs[t]
         /\ \A t \in Terminals \ {terminalCheck} : programs'[t] = programs[t]
<1>1. process_num' = n + 1 /\ process_num' >= process_num
  BY Facts DEF Load
<1>2. programs' = [progs EXCEPT ![terminalCheck] = progs[terminalCheck] + 1]
  BY DEF Load
<1>3. \A t \in Terminals : programs'[t] =
        IF t = terminalCheck THEN progs[t] + 1 ELSE progs[t]
  BY <1>2, Facts
<1>4. \A t \in Terminals \ {terminalCheck} : progs[t] = programs[t]
  BY Facts
<1>5. progs[terminalCheck] + 1 >= programs[terminalCheck]
  BY Facts
<1>6. \A t \in Terminals : programs[t] \in Int
  BY Facts
<1> QED
  BY <1>1, <1>3, <1>4, <1>5, <1>6

\* No terminal that has a program is left without one by any call.
THEOREM TerminalKept == Spec => TerminalKeepsProgram
<1> DEFINE A == \A t \in Terminals : programs[t] >= 1 => programs'[t] >= 1
<1>1. TypeInv /\ [Next]_vars => A
  <2> SUFFICES ASSUME TypeInv, [Next]_vars PROVE A
    OBVIOUS
  <2>1. CASE UNCHANGED vars
    BY <2>1 DEF vars
  <2>2. CASE Next
    <3>1. ASSUME NEW n \in Pids, NEW progs \in [Terminals -> Int],
                 NEW frame \in Frame, Load(n, progs, frame),
                 \/ n = process_num /\ progs = programs
                 \/ /\ n = process_num - 1 /\ programs[terminalCheck] = 1
                    /\ progs = [programs EXCEPT ![terminalCheck] = 0]
          PROVE  A
      <4>1. \A t \in Terminals : programs'[t] >= programs[t]
        BY <3>1, LoadCounts
      <4>2. programs' \in [Terminals -> Int]
        BY TypeInvNext DEF TypeInv, TypeOK
      <4> QED
        BY <4>1, <4>2, Facts
    <3>2. ASSUME ExecuteExit \/ HaltFaults \/ \E v \in Int : HaltToParent(v)
          PROVE  A
      <4>1. Live /\ ~OnlyProgram /\ Leave
        BY <3>2 DEF ExecuteExit, HaltFaults, HaltToParent, Syscall
      <4> QED
        BY <4>1, LeaveFacts
    <3>3. ASSUME programs' = programs PROVE A
      BY <3>3
    <3> HIDE DEF A
    <3> QED
      BY <2>2, <3>1, <3>2, <3>3, StepKinds
  <2> QED
    BY <2>1, <2>2
<1> QED
  BY <1>1, TypeInvInit, TypeInvNext, PTL DEF Spec, TerminalKeepsProgram

\* No call changes the count or the active pid of a terminal that is not
\* displayed, for any table size.
THEOREM HiddenUntouched == Spec => HiddenTerminalUntouched
<1> DEFINE A == \A t \in Terminals \ {terminalCheck} :
                  programs'[t] = programs[t] /\ active'[t] = active[t]
<1>1. TypeInv /\ [Next]_vars => A
  <2> SUFFICES ASSUME TypeInv, [Next]_vars PROVE A
    OBVIOUS
  <2>1. CASE UNCHANGED vars
    BY <2>1 DEF vars
  <2>2. CASE Next
    <3>1. ASSUME NEW n \in Pids, NEW progs \in [Terminals -> Int],
                 NEW frame \in Frame, Load(n, progs, frame),
                 \/ n = process_num /\ progs = programs
                 \/ /\ n = process_num - 1 /\ programs[terminalCheck] = 1
                    /\ progs = [programs EXCEPT ![terminalCheck] = 0]
          PROVE  A
      <4>1. \A t \in Terminals \ {terminalCheck} : programs'[t] = programs[t]
        BY <3>1, LoadCounts
      <4>2. active' = [active EXCEPT ![terminalCheck] = n]
        BY <3>1 DEF Load
      <4> QED
        BY <4>1, <4>2, Facts
    <3>2. ASSUME ExecuteExit \/ HaltFaults \/ \E v \in Int : HaltToParent(v)
          PROVE  A
      <4>1. Live /\ ~OnlyProgram /\ Leave
        BY <3>2 DEF ExecuteExit, HaltFaults, HaltToParent, Syscall
      <4>2. \/ active' = active
            \/ active' = [active EXCEPT ![terminalCheck] = Previous]
        BY <3>2 DEF ExecuteExit, HaltFaults, HaltToParent
      <4>3. \A t \in Terminals \ {terminalCheck} : active'[t] = active[t]
        BY <4>2, Facts
      <4> QED
        BY <4>1, <4>3, LeaveFacts
    <3>3. ASSUME programs' = programs, active' = active PROVE A
      BY <3>3
    <3> HIDE DEF A
    <3> QED
      BY <2>2, <3>1, <3>2, <3>3, StepKinds
  <2> QED
    BY <2>1, <2>2
<1> QED
  BY <1>1, TypeInvInit, TypeInvNext, PTL DEF Spec, HiddenTerminalUntouched

\* No program's system calls are taken on the kernel stack of another one,
\* that of pid 0 excepted, whatever terminals were switched in between.
THEOREM StackOwned == Spec => []OwnOrFirstStack
<1>1. Init => OwnOrFirstStack
  BY DEF Init, OwnOrFirstStack
<1>2. TypeInv /\ OwnOrFirstStack /\ [Next]_vars => OwnOrFirstStack'
  <2> SUFFICES ASSUME TypeInv, OwnOrFirstStack, [Next]_vars
               PROVE  OwnOrFirstStack'
    OBVIOUS
  <2>1. CASE UNCHANGED vars
    BY <2>1 DEF vars, OwnOrFirstStack
  <2>2. ASSUME NEW n, NEW progs, NEW frame, Load(n, progs, frame)
        PROVE  OwnOrFirstStack'
    BY <2>2 DEF Load, OwnOrFirstStack
  <2>3. CASE ExecuteExit
    BY <2>3 DEF ExecuteExit, Syscall, cpu, OwnOrFirstStack
  <2>4. ASSUME NEW value, HaltToParent(value) PROVE OwnOrFirstStack'
    BY <2>4 DEF HaltToParent, HaltStack, OwnOrFirstStack
  <2>5. CASE HaltFaults
    BY <2>5 DEF HaltFaults, OwnOrFirstStack
  <2>6. ASSUME esp0' = esp0, running' = running, Live' => Live
        PROVE  OwnOrFirstStack'
    BY <2>6 DEF OwnOrFirstStack
  <2>7. CASE Next
    BY <2>2, <2>3, <2>4, <2>5, <2>6, <2>7, StepKinds
  <2> QED
    BY <2>1, <2>7
<1> QED
  BY <1>1, <1>2, TypeInvInit, TypeInvNext, PTL DEF Spec

-----------------------------------------------------------------------------
\* FilledPCB alone is not inductive: that the PCB one slot below an active one
\* is filled, and that the slot of the next pid may be written, follow from
\* the filled slots being the first ones, at least process_num of them.
FilledPrefix ==
  /\ \A j, k \in Slots : j <= k /\ Filled(k) => Filled(j)
  /\ process_num \in Slots => Filled(process_num)

FilledInv == FilledPCB /\ FilledPrefix

USE DEF Filled, SlotOf

LEMMA FilledInit == Init => FilledInv
<1> SUFFICES ASSUME Init PROVE FilledInv
  OBVIOUS
<1>1. \A k \in Slots : pcb[k].terminal = 0
  BY DEF Init
<1>2. \A t \in Terminals : active[t] \notin Pids
  BY ProcessesAssumption DEF Init
<1> QED
  BY <1>1, <1>2, ProcessesAssumption DEF Init, FilledInv, FilledPCB, FilledPrefix

LEMMA PidSlots ==
  /\ \A p \in Pids : p + 1 \in Slots
  /\ \A k \in Slots : k - 1 \in Pids
BY ProcessesAssumption

\* Going back to the slot of the displayed terminal's active pid keeps it.
LEMMA BackFilled ==
  ASSUME TypeInv, FilledInv, ParentSlot \in Slots,
         curr_PCB' = ParentSlot, process_num' = process_num - 1,
         active' = [active EXCEPT ![terminalCheck] = Previous],
         \A k \in Slots : /\ pcb'[k].terminal = pcb[k].terminal
                          /\ pcb'[k].parent = pcb[k].parent
  PROVE  FilledInv'
<1> DEFINE k0 == active[terminalCheck]
<1>2. k0 \in Slots /\ k0 \in Pids /\ k0 + 1 \in Slots /\ k0 <= k0 + 1
  <2>1. k0 \in Pids \cup {NoPid} /\ k0 \in Slots
    BY Facts DEF ParentSlot
  <2> QED
    BY <2>1, PidSlots, ProcessesAssumption
<1>3. pcb[k0].terminal # 0
  <2>1. pcb[k0 + 1].terminal # 0
    BY <1>2, Facts DEF FilledInv, FilledPCB
  <2> QED
    BY <1>2, <2>1 DEF FilledInv, FilledPrefix
<1>4. /\ pcb[k0].parent \in Pids
      /\ pcb[pcb[k0].parent + 1].terminal # 0
  BY <1>2, <1>3, Facts DEF FilledInv, FilledPCB
<1>5. \A t \in Terminals :
        active'[t] = IF t = terminalCheck THEN pcb[k0].parent ELSE active[t]
  BY Facts DEF Previous, ParentSlot
<1>6. \A t \in Terminals :
        active'[t] \in Pids => pcb'[active'[t] + 1].terminal # 0
  BY <1>4, <1>5, PidSlots DEF FilledInv, FilledPCB
<1>7. \A k \in Slots :
        pcb'[k].terminal # 0 => pcb'[pcb'[k].parent + 1].terminal # 0
  BY PidSlots, Facts DEF FilledInv, FilledPCB
<1>8. curr_PCB' \in Slots /\ pcb'[curr_PCB'].terminal # 0
  BY <1>2, <1>3 DEF ParentSlot
<1>9. FilledPCB'
  BY <1>6, <1>7, <1>8 DEF FilledPCB
<1>10. \A j, k \in Slots :
         j <= k /\ pcb'[k].terminal # 0 => pcb'[j].terminal # 0
  BY DEF FilledInv, FilledPrefix
<1>11. process_num' \in Slots => pcb'[process_num'].terminal # 0
  <2> SUFFICES ASSUME process_num' \in Slots
               PROVE  pcb[process_num'].terminal # 0
    OBVIOUS
  <2>1. process_num \in Slots /\ process_num' <= process_num
    BY Facts
  <2> QED
    BY <2>1 DEF FilledInv, FilledPrefix
<1> QED
  BY <1>9, <1>10, <1>11 DEF FilledInv, FilledPrefix

\* Filling the slot of the next pid keeps it.
LEMMA LoadFilled ==
  ASSUME TypeInv, FilledInv, TypeInv', NEW n \in Pids, NEW progs, NEW frame,
         Load(n, progs, frame), n = process_num \/ n = process_num - 1
  PROVE  FilledInv'
<1> DEFINE t0 == terminalCheck
           new == [parent |-> IF progs[t0] = 0 THEN 0 ELSE active[t0],
                   terminal |-> t0, frame |-> frame, fds |-> {}]
<1>1. /\ t0 \in Terminals /\ pcb \in [Slots -> PCB]
      /\ n + 1 \in Slots /\ 1 \in Slots /\ 0 \in Pids
      /\ process_num \in 0..MaxProcesses
  BY Facts, PidSlots, ProcessesAssumption
<1>2. /\ pcb' = [pcb EXCEPT ![n + 1] = new]
      /\ process_num' = n + 1 /\ curr_PCB' = n + 1
      /\ active' = [active EXCEPT ![t0] = n]
  BY DEF Load
<1>3. /\ \A k \in Slots \ {n + 1} : pcb'[k] = pcb[k]
      /\ pcb'[n + 1] = new
  BY <1>1, <1>2
<1>4. pcb'[n + 1].terminal # 0
  BY <1>1, <1>3
<1>5. \A k \in Slots : pcb[k].terminal # 0 => pcb'[k].terminal # 0
  BY <1>3, <1>4
<1>6. \A j, k \in Slots :
        j <= k /\ pcb'[k].terminal # 0 => pcb'[j].terminal # 0
  <2> SUFFICES ASSUME NEW j \in Slots, NEW k \in Slots, j <= k,
                      pcb'[k].terminal # 0
               PROVE  pcb'[j].terminal # 0
    OBVIOUS
  <2>1. CASE k # n + 1
    BY <1>3, <1>5, <2>1 DEF FilledInv, FilledPrefix
  <2>2. CASE k = n + 1 /\ j # n + 1
    <3>1. j <= process_num /\ process_num \in Slots
      BY <1>1, <2>2
    <3> QED
      BY <1>5, <3>1 DEF FilledInv, FilledPrefix
  <2>3. CASE j = n + 1
    BY <1>4, <2>3
  <2> QED
    BY <2>1, <2>2, <2>3
<1>7. FilledPrefix'
  BY <1>2, <1>4, <1>6 DEF FilledPrefix
<1>8. pcb'[1].terminal # 0
  <2>1. 1 <= n + 1
    BY <1>1
  <2> QED
    BY <1>1, <1>4, <1>6, <2>1
<1>9. \A t \in Terminals :
        active'[t] \in Pids => pcb'[active'[t] + 1].terminal # 0
  <2>1. \A t \in Terminals : active'[t] = IF t = t0 THEN n ELSE active[t]
    BY <1>2, Facts
  <2> QED
    BY <1>4, <1>5, <2>1, PidSlots DEF FilledInv, FilledPCB
<1>10. pcb'[new.parent + 1].terminal # 0
  <2>1. CASE progs[t0] = 0
    BY <1>8, <2>1
  <2>2. CASE progs[t0] # 0
    <3>1. pcb'[n + 1] \in PCB
      BY <1>1 DEF TypeInv, TypeOK
    <3>2. new.parent \in Pids /\ new.parent = active[t0]
      BY <1>3, <2>2, <3>1 DEF PCB
    <3>3. pcb[active[t0] + 1].terminal # 0
      BY <1>1, <3>2 DEF FilledInv, FilledPCB
    <3> QED
      BY <1>5, <3>2, <3>3, PidSlots
  <2> QED
    BY <2>1, <2>2
<1>11. \A k \in Slots :
         pcb'[k].terminal # 0 => pcb'[pcb'[k].parent + 1].terminal # 0
  <2> SUFFICES ASSUME NEW k \in Slots, pcb'[k].terminal # 0
               PROVE  pcb'[pcb'[k].parent + 1].terminal # 0
    OBVIOUS
  <2>1. CASE k = n + 1
    BY <1>3, <1>10, <2>1
  <2>2. CASE k # n + 1
    BY <1>3, <1>5, <2>2, Facts, PidSlots DEF FilledInv, FilledPCB
  <2> QED
    BY <2>1, <2>2
<1>12. FilledPCB'
  BY <1>1, <1>2, <1>4, <1>9, <1>11 DEF FilledPCB
<1> QED
  BY <1>7, <1>12 DEF FilledInv

LEMMA FilledNext == TypeInv /\ FilledInv /\ [Next]_vars => FilledInv'
<1> SUFFICES ASSUME TypeInv, FilledInv, [Next]_vars PROVE FilledInv'
  OBVIOUS
<1>0. TypeInv'
  BY TypeInvNext
<1>1. CASE UNCHANGED vars
  BY <1>1 DEF vars, FilledInv, FilledPCB, FilledPrefix
<1>2. ASSUME NEW n \in Pids, NEW progs, NEW frame, Load(n, progs, frame),
             n = process_num \/ n = process_num - 1
      PROVE  FilledInv'
  BY <1>0, <1>2, LoadFilled
<1>3. CASE ExecuteExit
  BY <1>3, BackFilled DEF ExecuteExit, Leave
<1>4. ASSUME NEW value, HaltToParent(value) PROVE FilledInv'
  <2>1. \A k \in Slots : /\ pcb'[k].terminal = pcb[k].terminal
                         /\ pcb'[k].parent = pcb[k].parent
    <3>1. pcb' = [pcb EXCEPT ![curr_PCB].fds = {}]
      BY <1>4 DEF HaltToParent
    <3> QED
      BY <3>1, Facts DEF PCB
  <2> QED
    BY <1>4, <2>1, BackFilled DEF HaltToParent, Leave
<1>5. CASE HaltFaults
  <2>1. /\ pcb' = [pcb EXCEPT ![curr_PCB].fds = {}]
        /\ process_num' = process_num - 1
        /\ active' = active /\ mode' = "fault"
    BY <1>5 DEF HaltFaults, Leave
  <2>2. \A k \in Slots : /\ pcb'[k].terminal = pcb[k].terminal
                         /\ pcb'[k].parent = pcb[k].parent
    BY <2>1, Facts DEF PCB
  <2>3. FilledPCB'
    BY <2>1, <2>2, Facts, PidSlots DEF FilledInv, FilledPCB
  <2>4. process_num' \in Slots => pcb'[process_num'].terminal # 0
    <3> SUFFICES ASSUME process_num' \in Slots
                 PROVE  pcb[process_num'].terminal # 0
      BY <2>2
    <3>1. process_num \in Slots /\ process_num' <= process_num
      BY <2>1, Facts
    <3> QED
      BY <3>1 DEF FilledInv, FilledPrefix
  <2>5. FilledPrefix'
    BY <2>2, <2>4 DEF FilledInv, FilledPrefix
  <2> QED
    BY <2>3, <2>5 DEF FilledInv
<1>6. ASSUME UNCHANGED <<process_num, active>>,
             Live' => curr_PCB' = curr_PCB /\ Live,
             \A k \in Slots : /\ pcb'[k].terminal = pcb[k].terminal
                              /\ pcb'[k].parent = pcb[k].parent
      PROVE  FilledInv'
  <2>1. FilledPCB'
    BY <1>6, Facts, PidSlots DEF FilledInv, FilledPCB
  <2>2. FilledPrefix'
    BY <1>6 DEF FilledInv, FilledPrefix
  <2> QED
    BY <2>1, <2>2 DEF FilledInv
<1>7. CASE Next
  BY <1>2, <1>3, <1>4, <1>5, <1>6, <1>7, StepKinds
<1> QED
  BY <1>1, <1>7

\* The kernel works from PCBs some execute has filled, for any table size and
\* any order of execute, "exit", halt and terminal switches.
THEOREM PCBsFilled == Spec => []FilledPCB
<1>1. FilledInv => FilledPCB
  BY DEF FilledInv
<1> QED
  BY <1>1, TypeInvInit, TypeInvNext, FilledInit, FilledNext, PTL DEF Spec

-----------------------------------------------------------------------------
OnlyFirstUsed == programs[2] = 0 /\ programs[3] = 0

\* A program that leaves a terminal and leaves only the first one used was on
\* the first one, and only that one was used before.
LEMMA LeaveFirst ==
  ASSUME TypeInv, Live, ~OnlyProgram, Leave, OnlyFirstUsed'
  PROVE  terminalCheck = 1 /\ OnlyFirstUsed
<1>1. /\ \A t \in Terminals :
           programs'[t] = IF t = terminalCheck THEN programs[t] - 1
                                               ELSE programs[t]
      /\ programs[terminalCheck] # 1
      /\ programs'[2] = 0 /\ programs'[3] = 0
  BY LeaveFacts DEF OnlyProgram, OnlyFirstUsed
<1>2. programs[2] \in Int /\ programs[3] \in Int /\ terminalCheck \in Terminals
  BY Facts
<1> QED
  BY <1>1, <1>2 DEF OnlyFirstUsed

\* Going back gives the terminal a lower active pid, one below the new count.
LEMMA BackOrdered ==
  ASSUME TypeInv, FilledInv, PidsOrdered, OnlyFirstUsed, terminalCheck = 1,
         ParentSlot \in Slots, process_num' = process_num - 1,
         active' = [active EXCEPT ![terminalCheck] = Previous],
         \A k \in Slots : /\ pcb'[k].terminal = pcb[k].terminal
                          /\ pcb'[k].parent = pcb[k].parent
  PROVE  PidsOrdered'
<1>1. /\ active[1] \in Slots /\ active[1] \in Pids /\ active[1] + 1 \in Slots
      /\ active[1] < process_num /\ active'[1] = pcb[active[1]].parent
  <2>1. active[1] \in Slots /\ active[1] \in Pids \cup {NoPid}
    BY Facts DEF ParentSlot
  <2>2. active[1] \in Pids
    BY <2>1, ProcessesAssumption
  <2>3. active'[1] = pcb[active[1]].parent
    BY Facts DEF Previous, ParentSlot
  <2> QED
    BY <2>1, <2>2, <2>3, PidSlots DEF PidsOrdered, OnlyFirstUsed
<1>2. pcb[active[1]].terminal # 0
  <2>1. pcb[active[1] + 1].terminal # 0
    BY <1>1, Facts DEF FilledInv, FilledPCB
  <2> QED
    BY <1>1, <2>1 DEF FilledInv, FilledPrefix
<1>3. pcb[active[1]].parent < active[1] /\ pcb[active[1]].parent \in Pids
  <2>1. \/ pcb[active[1]].parent < active[1] - 1
        \/ active[1] = 1 /\ pcb[active[1]].parent = 0
    BY <1>1, <1>2 DEF PidsOrdered, OnlyFirstUsed
  <2>2. pcb[active[1]].parent \in Pids /\ active[1] \in Pids /\ Pids \subseteq Int
    BY <1>1, Facts
  <2>3. pcb[active[1]].parent \in Int /\ active[1] \in Int
    BY <2>2
  <2>4. pcb[active[1]].parent < active[1]
    BY <2>1, <2>3
  <2> QED
    BY <2>2, <2>4
<1>4. active'[1] < process_num'
  BY <1>1, <1>3, Facts
<1> QED
  BY <1>4 DEF PidsOrdered, OnlyFirstUsed

LEMMA OrderedNext ==
  TypeInv /\ FilledInv /\ PidsOrdered /\ [Next]_vars => PidsOrdered'
<1> SUFFICES ASSUME TypeInv, FilledInv, PidsOrdered, [Next]_vars,
                    OnlyFirstUsed'
             PROVE  PidsOrdered'
  BY DEF PidsOrdered, OnlyFirstUsed
<1>0. TypeInv'
  BY TypeInvNext
<1>1. CASE UNCHANGED vars
  BY <1>1 DEF vars, PidsOrdered
<1>2. ASSUME NEW n \in Pids, NEW progs \in [Terminals -> Int],
             NEW frame \in Frame, Load(n, progs, frame),
             \/ n = process_num /\ progs = programs
             \/ /\ n = process_num - 1 /\ programs[terminalCheck] = 1
                /\ progs = [programs EXCEPT ![terminalCheck] = 0]
      PROVE  PidsOrdered'
  <2>1. /\ active' = [active EXCEPT ![terminalCheck] = n]
        /\ process_num' = n + 1
    BY <1>2 DEF Load
  <2>2. programs'[terminalCheck] >= 1
    <3>1. active'[terminalCheck] \in Pids /\ terminalCheck \in Terminals
      BY <2>1, Facts
    <3> QED
      BY <1>0, <3>1 DEF TypeInv, Started
  <2>3. terminalCheck = 1
    BY <2>2, Facts DEF OnlyFirstUsed
  <2>4. OnlyFirstUsed
    BY <1>2, <2>3, LoadCounts DEF OnlyFirstUsed
  <2> DEFINE new == [parent |-> IF progs[1] = 0 THEN 0 ELSE active[1],
                     terminal |-> 1, frame |-> frame, fds |-> {}]
  <2>5. pcb' = [pcb EXCEPT ![n + 1] = new]
    BY <1>2, <2>3 DEF Load
  <2>6. active'[1] < process_num'
    BY <2>1, <2>3, Facts
  <2>7. progs[1] # 0 => n = process_num
    BY <1>2, <2>3, Facts
  <2>8. new.parent < n \/ (n = 0 /\ new.parent = 0)
    BY <2>4, <2>7, Facts DEF PidsOrdered, OnlyFirstUsed
  <2>9. \A k \in Slots : pcb'[k] = IF k = n + 1 THEN new ELSE pcb[k]
    BY <2>5, Facts
  <2>10. \A k \in Slots : pcb'[k].terminal # 0 =>
            pcb'[k].parent < k - 1 \/ (k = 1 /\ pcb'[k].parent = 0)
    <3>1. ASSUME NEW k \in Slots, k # n + 1, pcb'[k].terminal # 0
          PROVE  pcb'[k].parent < k - 1 \/ (k = 1 /\ pcb'[k].parent = 0)
      BY <3>1, <2>4, <2>9 DEF PidsOrdered, OnlyFirstUsed
    <3>2. n + 1 - 1 = n /\ (n = 0 => n + 1 = 1)
      BY Facts
    <3>3. ASSUME NEW k \in Slots, k = n + 1
          PROVE  pcb'[k].parent < k - 1 \/ (k = 1 /\ pcb'[k].parent = 0)
      BY <3>2, <3>3, <2>8, <2>9
    <3> QED
      BY <3>1, <3>3
  <2> QED
    BY <2>6, <2>10 DEF PidsOrdered
<1>3. CASE ExecuteExit
  <2>1. /\ Live /\ ~OnlyProgram /\ Leave /\ ParentSlot \in Slots /\ pcb' = pcb
        /\ process_num' = process_num - 1
        /\ active' = [active EXCEPT ![terminalCheck] = Previous]
    BY <1>3 DEF ExecuteExit, Syscall, Leave
  <2> QED
    BY <2>1, LeaveFirst, BackOrdered
<1>4. ASSUME NEW value, HaltToParent(value) PROVE PidsOrdered'
  <2>1. \A k \in Slots : /\ pcb'[k].terminal = pcb[k].terminal
                         /\ pcb'[k].parent = pcb[k].parent
    <3>1. pcb' = [pcb EXCEPT ![curr_PCB].fds = {}]
      BY <1>4 DEF HaltToParent
    <3> QED
      BY <3>1, Facts DEF PCB
  <2>2. /\ Live /\ ~OnlyProgram /\ Leave /\ ParentSlot \in Slots
        /\ process_num' = process_num - 1
        /\ active' = [active EXCEPT ![terminalCheck] = Previous]
    BY <1>4 DEF HaltToParent, Syscall, Leave
  <2> QED
    BY <2>1, <2>2, LeaveFirst, BackOrdered
<1>5. CASE HaltFaults
  <2>1. /\ pcb' = [pcb EXCEPT ![curr_PCB].fds = {}]
        /\ process_num' = process_num - 1 /\ active' = active
        /\ Live /\ ~OnlyProgram /\ Leave /\ ParentSlot \notin Slots
    BY <1>5 DEF HaltFaults, Leave, Syscall
  <2>2. \A k \in Slots : /\ pcb'[k].terminal = pcb[k].terminal
                         /\ pcb'[k].parent = pcb[k].parent
    BY <2>1, Facts DEF PCB
  <2>3. terminalCheck = 1 /\ OnlyFirstUsed
    BY <2>1, LeaveFirst
  <2>4. active[1] = 0 \/ active[1] = -1
    BY <2>1, <2>3, Facts, ProcessesAssumption DEF ParentSlot
  <2>5. process_num >= 2
    <3>1. programs[1] >= 1 /\ programs[1] # 1
      BY <2>1, <2>3 DEF TypeInv, Started, OnlyProgram
    <3>2. programs[1] \in Int /\ process_num = programs[1]
      BY <2>3, Facts DEF OnlyFirstUsed
    <3> QED
      BY <3>1, <3>2
  <2>6. active'[1] < process_num'
    BY <2>1, <2>4, <2>5, Facts
  <2> QED
    BY <2>2, <2>3, <2>6 DEF PidsOrdered, OnlyFirstUsed
<1>6. ASSUME UNCHANGED <<process_num, programs, active>>,
             \A k \in Slots : /\ pcb'[k].terminal = pcb[k].terminal
                              /\ pcb'[k].parent = pcb[k].parent
      PROVE  PidsOrdered'
  BY <1>6 DEF PidsOrdered
<1>7. CASE Next
  BY <1>2, <1>3, <1>4, <1>5, <1>6, <1>7, StepKinds
<1> QED
  BY <1>1, <1>7

\* While only the first terminal has been used, parents have lower pids than
\* their children, and the active pid is below the one the next execute hands
\* out: that execute gives away the page, the PCB and the kernel stack neither of
\* the active program nor of an ancestor of it.
THEOREM PidsStayOrdered == Spec => []PidsOrdered
<1>1. Init => PidsOrdered
  BY DEF Init, PidsOrdered
<1> QED
  BY <1>1, TypeInvInit, TypeInvNext, FilledInit, FilledNext, OrderedNext, PTL
  DEF Spec
=============================================================================
