------------------------------ MODULE Interrupt -----------------------------
(***************************************************************************)
(* The simulated hardware clock and interrupts (machine/interrupt.cc), the *)
(* timer device and the alarm's time slices, and the machine status that   *)
(* user code, system calls, time slices and idling save and restore.       *)
(*                                                                         *)
(* The clock is relative: an entry of the pending list holds the ticks     *)
(* until it is due.  What the handlers do for their drivers is in the      *)
(* modules of the drivers; here a handler wakes any sleeping threads.  The *)
(* scheduler's order is in module Threads; here any ready thread is next.  *)
(***************************************************************************)
EXTENDS Integers, Sequences, FiniteSets

CONSTANTS Thread,
          Device,       \* the devices besides the timer
          Polling,      \* those that always schedule themselves again: the
                        \* input of the network
          Keyboard,     \* the input of the console, which polls until there is
                        \* something to read
          Delay,        \* Delay[d]: the ticks that d may ask for
          UserTick, SystemTick

Timer == "timer"
AllDevices == Device \cup {Timer}

ASSUME InterruptAssumption ==
    /\ IsFiniteSet(Thread) /\ Thread # {}
    /\ IsFiniteSet(Device) /\ Timer \notin Device /\ Polling \subseteq Device
    /\ Keyboard \subseteq Device \ Polling
    /\ \A d \in AllDevices : Delay[d] \subseteq Nat \ {0} /\ Delay[d] # {}
    /\ UserTick \in Nat \ {0} /\ SystemTick \in Nat \ {0} /\ UserTick <= SystemTick

VARIABLES pending,        \* entries [dev, in]: in ticks from now
          level,          \* interrupts "on" or "off"
          inHandler, yieldOnReturn, status,     \* of class Interrupt
          phase,          \* "run": a thread runs; "fire", "idlefire": the
                          \* loop of CheckIfDue, called by OneTick or Idle;
                          \* "idle": Sleep has found no ready thread
          current,        \* the thread that runs
          mode,           \* what a thread executes: "user" or "system" code
          asleep,         \* the threads asleep in P()
          inYield,        \* the threads in the Yield() of a time slice
          incoming        \* the keyboards that hold a character

vars == <<pending, level, inHandler, yieldOnReturn, status, phase, current,
          mode, asleep, inYield, incoming>>
threadVars == <<current, mode, asleep, inYield>>

Entry(d, n) == [dev |-> d, in |-> n]
Entries == {Entry(d, n) : d \in AllDevices, n \in UNION {Delay[d] : d \in AllDevices}}

InOrder(s) == \A i, j \in 1 .. Len(s) : i < j => s[i].in <= s[j].in
Once(s) == \A i, j \in 1 .. Len(s) : s[i].dev = s[j].dev => i = j
Holds(s, d) == \E i \in 1 .. Len(s) : s[i].dev = d

Inputs == Polling \cup Keyboard

(* Kernel::Initialize has made the devices; the timer and the inputs have  *)
(* scheduled their first interrupt.                                        *)
Init ==
    /\ pending \in {s \in [1 .. Cardinality(Inputs) + 1 -> Entries] :
                       /\ InOrder(s) /\ Once(s)
                       /\ \A i \in DOMAIN s : /\ s[i].dev \in Inputs \cup {Timer}
                                              /\ s[i].in \in Delay[s[i].dev]}
    /\ level = "on"
    /\ inHandler = FALSE /\ yieldOnReturn = FALSE
    /\ status = "system" /\ phase = "run"
    /\ current \in Thread
    /\ mode = [t \in Thread |-> "system"]
    /\ asleep = {} /\ inYield = {} /\ incoming = {}

(* Definitions named Wrong... are plausible mistakes in the definition that *)
(* follows them; they are used only to show that the properties below      *)
(* notice them.                                                            *)

(* A list that is not kept sorted.                                         *)
WrongInsert(s, e) == Append(s, e)

(* SortedList::Insert with PendingCompare: before the first later entry.   *)
Insert(s, e) ==
    LET k == Cardinality({i \in 1 .. Len(s) : s[i].in <= e.in})
    IN  SubSeq(s, 1, k) \o <<e>> \o SubSeq(s, k + 1, Len(s))

(* Interrupt::Schedule.                                                    *)
Schedule(s, d, n) == Insert(s, Entry(d, n))

(* The clock advances by n ticks.                                          *)
Advance(n) == [i \in 1 .. Len(pending) |-> [pending[i] EXCEPT !.in = @ - n]]

Due(s) == s # << >> /\ Head(s).in <= 0

Ready == Thread \ (asleep \cup {current})
-----------------------------------------------------------------------------
(* The end of a OneTick that does not restore the status.                  *)
WrongTicked ==
    /\ level' = "on"
    /\ inYield' = inYield \ {current}
    /\ UNCHANGED <<status, current, mode, asleep>>

(* OneTick returns; when it was called at the end of the Yield() of a time *)
(* slice, that OneTick (and any around it) also returns, and restores the  *)
(* status that it had found.                                               *)
Ticked ==
    /\ level' = "on"
    /\ status' = IF current \in inYield THEN mode[current] ELSE status
    /\ inYield' = inYield \ {current}
    /\ UNCHANGED <<current, mode, asleep>>

(* Interrupt::OneTick, up to the loop of CheckIfDue when an interrupt is   *)
(* due.                                                                    *)
OneTick ==
    LET s == Advance(IF status = "system" THEN SystemTick ELSE UserTick)
    IN  /\ pending' = s
        /\ \/ /\ Due(s)
              /\ level' = "off" /\ inHandler' = TRUE /\ phase' = "fire"
              /\ UNCHANGED <<status, threadVars>>
           \/ ~Due(s) /\ Ticked /\ UNCHANGED <<inHandler, phase>>
        /\ UNCHANGED <<yieldOnReturn, incoming>>

(* SetLevel(IntOff), at the start of P(), V(), Fork(), ...                 *)
Disable ==
    /\ phase = "run" /\ level = "on" /\ mode[current] = "system"
    /\ level' = "off"
    /\ UNCHANGED <<pending, inHandler, yieldOnReturn, status, phase, threadVars,
                   incoming>>

(* SetLevel(IntOn) or SetLevel(oldLevel), at their end.                    *)
Enable == phase = "run" /\ level = "off" /\ OneTick

(* Machine::Run: a user instruction and OneTick.                           *)
Instruction ==
    phase = "run" /\ level = "on" /\ mode[current] = "user" /\ OneTick

(* Machine::RaiseException: a system call begins.                          *)
RaiseException ==
    /\ phase = "run" /\ level = "on" /\ mode[current] = "user"
    /\ mode' = [mode EXCEPT ![current] = "system"]
    /\ status' = "system"
    /\ UNCHANGED <<pending, level, inHandler, yieldOnReturn, phase, current,
                   asleep, inYield, incoming>>

(* RaiseException returns to Machine::Run, or Machine::Run begins: the     *)
(* status is user mode, and the OneTick of the instruction follows.        *)
ReturnToUser ==
    /\ phase = "run" /\ level = "on" /\ mode[current] = "system"
    /\ mode' = [mode EXCEPT ![current] = "user"]
    /\ status' = "user"
    /\ LET s == Advance(UserTick)
       IN  /\ pending' = s
           /\ level' = IF Due(s) THEN "off" ELSE "on"
           /\ inHandler' = Due(s)
           /\ phase' = IF Due(s) THEN "fire" ELSE "run"
    /\ UNCHANGED <<yieldOnReturn, current, asleep, inYield, incoming>>

(* A driver starts an operation of a device that is not busy, or takes the *)
(* character of a keyboard (ConsoleInput::GetChar).                        *)
Request(d) ==
    /\ phase = "run" /\ mode[current] = "system"
    /\ d \in Device \ Polling
    /\ IF d \in Keyboard THEN d \in incoming ELSE ~Holds(pending, d)
    /\ incoming' = incoming \ {d}
    /\ \E n \in Delay[d] : pending' = Schedule(pending, d, n)
    /\ UNCHANGED <<level, inHandler, yieldOnReturn, status, phase, threadVars>>

(* Alarm::CallBack that never asks for a time slice.                       *)
WrongAlarmNever == UNCHANGED yieldOnReturn

(* Alarm::CallBack.                                                        *)
Alarm == yieldOnReturn' = (yieldOnReturn \/ status # "idle")

(* Every device sets its next interrupt.                                   *)
WrongRearmsAll(d) == TRUE

(* Timer::SetInterrupt, NetworkInput::CallBack, and ConsoleInput::CallBack *)
(* with nothing to be read.                                                *)
Rearms(d) == d \in Inputs \cup {Timer}

(* Any other interrupt: an operation is over, or a keyboard has read a     *)
(* character or the end of its file.                                       *)
Ends(d) == d \notin Polling \cup {Timer}

(* One turn of the loop of CheckIfDue.                                     *)
Fire ==
    /\ phase \in {"fire", "idlefire"} /\ Due(pending)
    /\ LET d == Head(pending).dev
       IN  /\ \/ /\ Rearms(d)
                 /\ \E n \in Delay[d] : pending' = Schedule(Tail(pending), d, n)
                 /\ asleep' \in IF d \in Polling THEN SUBSET asleep ELSE {asleep}
                 /\ UNCHANGED incoming
              \/ /\ Ends(d)
                 /\ pending' = Tail(pending)
                 /\ asleep' \in SUBSET asleep
                 /\ incoming' \in {incoming, incoming \cup (Keyboard \cap {d})}
           /\ IF d = Timer THEN Alarm ELSE UNCHANGED yieldOnReturn
    /\ UNCHANGED <<level, inHandler, status, phase, current, mode, inYield>>

(* CheckIfDue returns to OneTick, and there is no time slice.              *)
FireEnds ==
    /\ phase = "fire" /\ ~Due(pending) /\ ~yieldOnReturn
    /\ inHandler' = FALSE /\ phase' = "run"
    /\ Ticked
    /\ UNCHANGED <<pending, yieldOnReturn, incoming>>

(* CheckIfDue returns to OneTick, which yields: Thread::Yield turns        *)
(* interrupts off, runs another thread if one is ready, and when this      *)
(* thread has the processor again it has to turn them on.                  *)
YieldNow ==
    /\ phase = "fire" /\ ~Due(pending) /\ yieldOnReturn
    /\ inHandler' = FALSE /\ phase' = "run"
    /\ yieldOnReturn' = FALSE
    /\ status' = "system"
    /\ inYield' = inYield \cup {current}
    /\ IF Ready = {} THEN UNCHANGED current ELSE current' \in Ready
    /\ UNCHANGED <<pending, level, mode, asleep, incoming>>

(* Semaphore::P puts the thread to sleep, with interrupts off.             *)
Sleep ==
    /\ phase = "run" /\ level = "off" /\ mode[current] = "system"
    /\ current \notin inYield
    /\ asleep' = asleep \cup {current}
    /\ \/ Ready # {} /\ current' \in Ready /\ UNCHANGED phase
       \/ Ready = {} /\ phase' = "idle" /\ UNCHANGED current
    /\ UNCHANGED <<pending, level, inHandler, yieldOnReturn, status, mode, inYield,
                   incoming>>

(* Interrupt::Idle, called by Sleep while no thread is ready: the clock    *)
(* jumps to the next interrupt.                                            *)
Idle ==
    /\ phase = "idle" /\ asleep = Thread
    /\ status' = "idle" /\ phase' = "idlefire" /\ inHandler' = TRUE
    /\ pending' = IF Head(pending).in > 0 THEN Advance(Head(pending).in) ELSE pending
    /\ UNCHANGED <<level, yieldOnReturn, threadVars, incoming>>

(* Idle returns to the loop of Sleep.                                      *)
IdleEnds ==
    /\ phase = "idlefire" /\ ~Due(pending)
    /\ inHandler' = FALSE /\ phase' = "idle"
    /\ status' = "system"
    /\ UNCHANGED <<pending, level, yieldOnReturn, threadVars, incoming>>

(* Sleep finds a ready thread after idling.                                *)
Dispatch ==
    /\ phase = "idle" /\ asleep # Thread
    /\ current' \in Thread \ asleep
    /\ phase' = "run"
    /\ UNCHANGED <<pending, level, inHandler, yieldOnReturn, status, mode,
                   asleep, inYield, incoming>>

Next ==
    \/ Disable \/ Enable \/ Instruction \/ RaiseException \/ ReturnToUser
    \/ \E d \in Device : Request(d)
    \/ Fire \/ FireEnds \/ YieldNow
    \/ Sleep \/ Idle \/ IdleEnds \/ Dispatch

Spec == Init /\ [][Next]_vars

(* The simulator always executes something.                                *)
FairSpec == Spec /\ WF_vars(Next)
-----------------------------------------------------------------------------
(* Types; an entry is at most its device's delay ahead.                    *)
TypeOK ==
    /\ \A i \in 1 .. Len(pending) :
          /\ pending[i].dev \in AllDevices
          /\ \E n \in Delay[pending[i].dev] : pending[i].in \in -SystemTick .. n
    /\ level \in {"on", "off"} /\ inHandler \in BOOLEAN
    /\ yieldOnReturn \in BOOLEAN
    /\ status \in {"system", "user", "idle"}
    /\ phase \in {"run", "fire", "idlefire", "idle"}
    /\ current \in Thread
    /\ mode \in [Thread -> {"user", "system"}]
    /\ asleep \subseteq Thread /\ inYield \subseteq Thread
    /\ incoming \subseteq Keyboard

(* No interrupt is late or forgotten: the list is sorted, a device is in   *)
(* it once, and whenever a thread runs everything in it is in the future.  *)
(* So CheckIfDue may stop at the first entry that is not due.  The timer   *)
(* and the network's input always have an entry, so an idle machine goes   *)
(* on.  The console's input has none from a character to the GetChar that  *)
(* takes it, or after the end of its file; while it has one, no character  *)
(* waits, as ConsoleInput::CallBack asserts.                               *)
NothingOverdue ==
    /\ TypeOK
    /\ InOrder(pending) /\ Once(pending)
    /\ phase \in {"run", "idle"} => \A i \in 1 .. Len(pending) : pending[i].in > 0
    /\ \A d \in Polling \cup {Timer} : Holds(pending, d)
    /\ \A d \in Keyboard : Holds(pending, d) => d \notin incoming

(* The status, which all threads share, is right for the code that runs:   *)
(* user mode exactly in user code, idle only in Idle, although a thread    *)
(* that loses the processor in either mode resumes after any other.  A     *)
(* time slice is over for the thread that the timer interrupted, and for   *)
(* no other: the flag is never left over for the next OneTick.             *)
StatusMatchesCode ==
    /\ phase = "run" => status = IF current \in inYield THEN "system" ELSE mode[current]
    /\ status = "idle" <=> phase = "idlefire"
    /\ inHandler <=> phase \in {"fire", "idlefire"}
    /\ inHandler \/ phase = "idle" => level = "off"
    /\ yieldOnReturn => phase = "fire"

(* A thread does not keep the processor while another is ready, and every  *)
(* operation of a disk or a display is answered by its interrupt.          *)
InterruptsCome ==
    /\ \A t \in Thread : current = t /\ Ready # {} ~> current # t \/ Ready = {}
    /\ \A d \in Device \ Inputs : Holds(pending, d) ~> ~Holds(pending, d)
=============================================================================
