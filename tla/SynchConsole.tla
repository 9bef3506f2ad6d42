---------------------------- MODULE SynchConsole ----------------------------
(***************************************************************************)
(* The console: the keyboard and display devices (ConsoleInput and         *)
(* ConsoleOutput), their synchronised versions (SynchConsoleInput and      *)
(* SynchConsoleOutput), and the system calls that loop over GetChar and    *)
(* PutChar: Read from file 0, ReadString, Write to file 1, PrintString and *)
(* PrintInt.                                                               *)
(*                                                                         *)
(* Device interrupts come when the simulator says so; a process may lose   *)
(* the processor at the end of a P() or V(), which act as in module        *)
(* Semaphores.  The typed characters are numbered in order.  A character   *)
(* is "c", a newline "nl", or "ff": the byte 255, which is EOF once it is  *)
(* in the char ConsoleInput::incoming.                                     *)
(***************************************************************************)
EXTENDS Integers, Sequences, FiniteSets

CONSTANTS Proc,
          Key,        \* the kinds of characters that are typed
          MaxKeys,    \* bound on the characters typed
          MaxText     \* bound on the length of a text or a Read

ASSUME SynchConsoleAssumption ==
    /\ IsFiniteSet(Proc)
    /\ Key \subseteq {"c", "nl", "ff"}
    /\ MaxKeys \in Nat /\ MaxText \in Nat \ {0}

VARIABLES typed,      \* the kinds of the characters typed so far
          atEnd,      \* the input ends after them
          taken,      \* how many ConsoleInput::CallBack has read
          incoming,   \* ConsoleInput::incoming, by number; EOF
          inPending,  \* an interrupt ConsoleReadInt is scheduled
          inLock,     \* the console-in lock's value
          inWait,     \* the value of SynchConsoleInput::waitFor
          gotKey,       \* the last character that GetChar gave to a process
          putBusy,    \* ConsoleOutput::putBusy
          outPending, \* an interrupt ConsoleWriteInt is scheduled
          outLock,    \* the console-out lock's value
          outWait,    \* the value of SynchConsoleOutput::waitFor
          at,         \* where a process is
          left        \* characters its system call still has to move

inVars == <<typed, atEnd, taken, incoming, inPending, inLock, inWait, gotKey>>
outVars == <<putBusy, outPending, outLock, outWait>>
consoleVars == <<inVars, outVars, at, left>>

EOF == 0

Line == -1       \* left: until a newline (ReadString)

Place == {"idle", "GetLock", "GetWait", "Get",
       "PutLock", "Put", "PutWait", "PutRelease"}

ConsoleInit ==
    /\ typed = << >> /\ atEnd = FALSE /\ taken = 0
    /\ incoming = EOF /\ inPending = TRUE /\ inLock = 1 /\ inWait = 0
    /\ gotKey = [p \in Proc |-> 0]
    /\ putBusy = FALSE /\ outPending = FALSE /\ outLock = 1 /\ outWait = 0
    /\ at = [p \in Proc |-> "idle"]
    /\ left = [p \in Proc |-> 0]

GoTo(p, to) == at' = [at EXCEPT ![p] = to]
-----------------------------------------------------------------------------
(* The person at the keyboard, or the input file.                          *)
Type ==
    /\ ~atEnd /\ Len(typed) < MaxKeys
    /\ \E k \in Key : typed' = Append(typed, k)
    /\ UNCHANGED <<atEnd, taken, incoming, inPending, inLock, inWait, gotKey,
                   outVars, at, left>>

EndInput ==
    /\ ~atEnd
    /\ atEnd' = TRUE
    /\ UNCHANGED <<typed, taken, incoming, inPending, inLock, inWait, gotKey,
                   outVars, at, left>>

(* Definitions named Wrong... are plausible mistakes in the definition that *)
(* follows them; they are used only to show that the properties below      *)
(* notice them.                                                            *)

(* ConsoleInput::CallBack finds a character (when there is none and the    *)
(* input has not ended it schedules itself again, and nothing changes),    *)
(* and SynchConsoleInput::CallBack does the V().                           *)
ReadKey ==
    /\ inPending /\ taken < Len(typed)
    /\ taken' = taken + 1
    /\ incoming' = IF typed[taken + 1] = "ff" THEN EOF ELSE taken + 1
    /\ inPending' = FALSE
    /\ inWait' = inWait + 1
    /\ UNCHANGED <<typed, atEnd, inLock, gotKey, outVars, at, left>>

(* ConsoleInput::CallBack at the end of the input: no more interrupts.     *)
ReadEnd ==
    /\ inPending /\ taken = Len(typed) /\ atEnd
    /\ inPending' = FALSE
    /\ inWait' = inWait + 1
    /\ UNCHANGED <<typed, atEnd, taken, incoming, inLock, gotKey, outVars, at, left>>

(* SynchConsoleOutput::CallBack that does not wake the writer.             *)
WrongDisplayDone ==
    /\ outPending
    /\ putBusy' = FALSE /\ outPending' = FALSE
    /\ UNCHANGED <<inVars, outLock, outWait, at, left>>

(* ConsoleOutput::CallBack and SynchConsoleOutput::CallBack.               *)
DisplayDone ==
    /\ outPending
    /\ putBusy' = FALSE /\ outPending' = FALSE
    /\ outWait' = outWait + 1
    /\ UNCHANGED <<inVars, outLock, at, left>>
-----------------------------------------------------------------------------
(* The system calls.  Read of n characters from file 0 and ReadString;     *)
(* PrintString, PrintInt and Write of a text of n characters to file 1.    *)
(* The calls that move no character return at once.                        *)
SystemCall(p) ==
    /\ at[p] = "idle"
    /\ \/ /\ \E n \in {Line} \cup 1 .. MaxText : left' = [left EXCEPT ![p] = n]
          /\ GoTo(p, "GetLock")
       \/ /\ \E n \in 1 .. MaxText : left' = [left EXCEPT ![p] = n]
          /\ GoTo(p, "PutLock")
    /\ UNCHANGED <<inVars, outVars>>

(* SynchConsoleInput::GetChar: lock->Acquire() returns.                    *)
GetLock(p) ==
    /\ at[p] = "GetLock" /\ inLock > 0
    /\ inLock' = inLock - 1
    /\ GoTo(p, "GetWait")
    /\ UNCHANGED <<typed, atEnd, taken, incoming, inPending, inWait, gotKey,
                   outVars, left>>

(* waitFor->P() returns.                                                   *)
GetWait(p) ==
    /\ at[p] = "GetWait" /\ inWait > 0
    /\ inWait' = inWait - 1
    /\ GoTo(p, "Get")
    /\ UNCHANGED <<typed, atEnd, taken, incoming, inPending, inLock, gotKey,
                   outVars, left>>

(* GetChar that does not schedule the next poll.                           *)
WrongTakeNoPoll == UNCHANGED inPending /\ incoming' = EOF

(* ConsoleInput::GetChar.                                                  *)
TakeIncoming == inPending' = (inPending \/ incoming # EOF) /\ incoming' = EOF

(* The loops: Read stops at a newline or after its count, ReadString at a  *)
(* newline.  A NUL, an ordinary character or EOF does not stop them.       *)
LastGet(p) == (incoming # EOF /\ typed[incoming] = "nl") \/ left[p] = 1

(* A read that keeps the newline back.                                     *)
WrongGives(p) ==
    gotKey' = [gotKey EXCEPT ![p] =
                IF incoming = EOF \/ typed[incoming] = "nl" THEN @ ELSE incoming]

Gives(p) == gotKey' = [gotKey EXCEPT ![p] = IF incoming = EOF THEN @ ELSE incoming]

(* ConsoleInput::GetChar and lock->Release(), and the end of the loop body *)
(* of the system call.                                                     *)
Get(p) ==
    /\ at[p] = "Get"
    /\ TakeIncoming
    /\ Gives(p)
    /\ inLock' = inLock + 1
    /\ left' = [left EXCEPT ![p] = IF LastGet(p) THEN 0
                                   ELSE IF @ = Line THEN @ ELSE @ - 1]
    /\ GoTo(p, IF LastGet(p) THEN "idle" ELSE "GetLock")
    /\ UNCHANGED <<typed, atEnd, taken, inWait, outVars>>

(* SynchConsoleOutput::PutChar: lock->Acquire() that does not wait.        *)
WrongPutLock(p) ==
    /\ at[p] = "PutLock"
    /\ GoTo(p, "Put")
    /\ UNCHANGED <<inVars, putBusy, outPending, outLock, outWait, left>>

(* SynchConsoleOutput::PutChar: lock->Acquire() returns.                   *)
PutLock(p) ==
    /\ at[p] = "PutLock" /\ outLock > 0
    /\ outLock' = outLock - 1
    /\ GoTo(p, "Put")
    /\ UNCHANGED <<inVars, putBusy, outPending, outWait, left>>

(* ConsoleOutput::PutChar, up to the P() on waitFor.                       *)
PutChar(p) ==
    /\ at[p] = "Put"
    /\ putBusy' = TRUE /\ outPending' = TRUE
    /\ left' = [left EXCEPT ![p] = @ - 1]
    /\ GoTo(p, "PutWait")
    /\ UNCHANGED <<inVars, outLock, outWait>>

(* waitFor->P() returns.                                                   *)
PutWait(p) ==
    /\ at[p] = "PutWait" /\ outWait > 0
    /\ outWait' = outWait - 1
    /\ GoTo(p, "PutRelease")
    /\ UNCHANGED <<inVars, putBusy, outPending, outLock, left>>

(* lock->Release(), and the next character of the text if there is one.    *)
PutRelease(p) ==
    /\ at[p] = "PutRelease"
    /\ outLock' = outLock + 1
    /\ GoTo(p, IF left[p] = 0 THEN "idle" ELSE "PutLock")
    /\ UNCHANGED <<inVars, putBusy, outPending, outWait, left>>

ConsoleStep(p) ==
    \/ GetLock(p) \/ GetWait(p) \/ Get(p)
    \/ PutLock(p) \/ PutChar(p) \/ PutWait(p) \/ PutRelease(p)

Interrupt == ReadKey \/ ReadEnd \/ DisplayDone

ConsoleNext ==
    \/ Type \/ EndInput
    \/ Interrupt
    \/ \E p \in Proc : SystemCall(p) \/ ConsoleStep(p)

ConsoleSpec == ConsoleInit /\ [][ConsoleNext]_consoleVars

(* Scheduled interrupts come, and a process that can run does              *)
(* (ReadyThreadRuns of module Threads).                                    *)
ConsoleFairSpec ==
    /\ ConsoleSpec
    /\ WF_consoleVars(ReadKey) /\ WF_consoleVars(ReadEnd) /\ WF_consoleVars(DisplayDone)
    /\ \A p \in Proc : WF_consoleVars(ConsoleStep(p))
-----------------------------------------------------------------------------
(* What a process at w may still have to move.                             *)
LeftAt(w) ==
    CASE w = "idle" -> {0}
      [] w \in {"PutWait", "PutRelease"} -> 0 .. MaxText
      [] w \in {"PutLock", "Put"} -> 1 .. MaxText
      [] OTHER -> {Line} \cup 1 .. MaxText

(* Types.                                                                  *)
ConsoleTypeOK ==
    /\ typed \in Seq(Key) /\ Len(typed) <= MaxKeys
    /\ atEnd \in BOOLEAN /\ taken \in 0 .. Len(typed)
    /\ incoming \in 0 .. Len(typed) /\ inPending \in BOOLEAN
    /\ inLock \in 0 .. 1 /\ inWait \in 0 .. 1
    /\ gotKey \in [Proc -> 0 .. MaxKeys]
    /\ putBusy \in BOOLEAN /\ outPending \in BOOLEAN
    /\ outLock \in 0 .. 1 /\ outWait \in 0 .. 1
    /\ at \in [Proc -> Place] /\ left \in [Proc -> {Line} \cup 0 .. MaxText]
    /\ \A p \in Proc : left[p] \in LeftAt(at[p])

At(S) == {p \in Proc : at[p] \in S}

Ones(b) == IF b THEN 1 ELSE 0

(* The keyboard hands over one character at a time: at any time there is   *)
(* at most one of a scheduled poll, a unit of waitFor and a process between *)
(* P() and GetChar, and a buffered character has its unit or process.  So  *)
(* ASSERT(incoming == EOF) of ConsoleInput::CallBack holds and GetChar     *)
(* never runs without a character or the end of the input.                 *)
OneKeyAtATime ==
    /\ Ones(inPending) + inWait + Cardinality(At({"Get"})) <= 1
    /\ inPending => incoming = EOF
    /\ incoming # EOF => inWait + Cardinality(At({"Get"})) = 1

(* One process at a time uses the display, and only when it is idle:       *)
(* ASSERT(putBusy == FALSE) of ConsoleOutput::PutChar holds, also when the *)
(* writer of the last character has not run since its interrupt.           *)
OneCharAtATime ==
    /\ outLock + Cardinality(At({"Put", "PutWait", "PutRelease"})) = 1
    /\ At({"Put"}) # {} => ~putBusy /\ ~outPending /\ outWait = 0
    /\ Cardinality(At({"PutWait"})) = Ones(putBusy) + outWait

(* The two devices are used as they must be.                               *)
OneAtATime == ConsoleTypeOK /\ OneKeyAtATime /\ OneCharAtATime

(* Processes that read the console get every character once, in the order  *)
(* in which they were typed, whoever reads.                                *)
Given == taken - Ones(incoming # EOF)
KeyChannel == INSTANCE Channel WITH
            Thread <- Proc, item <- gotKey,
            list <- [i \in 1 .. Len(typed) - Given |-> Given + i],
            sent <- Len(typed)
ReadsInOrder == KeyChannel!Spec

Reading == At({"GetLock", "GetWait", "Get"}) # {}
Available == taken < Len(typed) \/ incoming # EOF

(* A GetChar that found no character but EOF, at the end of the input or   *)
(* because the character was the byte 255, did not schedule a poll.        *)
Ends == atEnd \/ \E i \in 1 .. taken : typed[i] = "ff"

(* A text is printed to its end, unless new calls keep the lock busy.  And *)
(* SynchConsoleInput::GetChar waits "for EOF or a char to be available":   *)
(* while there is one, a reader does not wait for ever.  The code keeps    *)
(* that only until the first EOF: the GetChar that returns it is the last  *)
(* one to return.                                                          *)
CallsGoOn ==
    /\ \/ []<><<\E p \in Proc : SystemCall(p)>>_consoleVars
       \/ \A p \in Proc : at[p] = "PutLock" ~> at[p] = "idle"
    /\ Reading /\ Available ~> ~Reading \/ ~Available \/ Ends
=============================================================================
