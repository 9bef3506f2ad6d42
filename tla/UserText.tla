------------------------------ MODULE UserText ------------------------------
(***************************************************************************)
(* The texts of the system calls (userprog/exception.cc): User2System and  *)
(* System2User, which copy a text from and to the memory of a program, and *)
(* the conversion of an int to decimal characters by PrintInt.  All        *)
(* addresses are valid ones.  A character of memory is a number, 0 is NUL; *)
(* a digit character is its value.                                         *)
(***************************************************************************)
EXTENDS Integers, Sequences, FiniteSetsExt
LOCAL Seqs == INSTANCE SequencesExt

CONSTANTS Char,        \* the characters, with 0
          MemorySize,
          IntMax,      \* the ints are -IntMax - 1 .. IntMax
          Number,      \* the ints that are printed
          MaxCalls     \* bound on the calls

VARIABLES memory,      \* the memory of the program
          kernelBuf,   \* what the last User2System returned
          text,        \* the text that it was asked for
          wrote,       \* the last System2User: where, the text, the memory before
          printed,     \* the last PrintInt: the int and its characters
          calls        \* the number of calls so far

vars == <<memory, kernelBuf, text, wrote, printed, calls>>

Address == 0 .. MemorySize - 1

Init ==
    /\ memory \in [Address -> Char]
    /\ kernelBuf = << >> /\ text = << >>
    /\ wrote = [at |-> 0, len |-> 0, text |-> << >>, before |-> memory]
    /\ printed = [number |-> 0, as |-> <<0>>]
    /\ calls = 0

Called == calls < MaxCalls /\ calls' = calls + 1

(* The text of at most n characters that begins at address a of m.         *)
TextAt(m, a, n) == [i \in 1 .. Min({n} \cup {k \in 0 .. n - 1 : m[a + k] = 0}) |-> m[a + i - 1]]

(* User2System: a buffer of limit + 1 zeros, filled up to the first NUL.   *)
User2System(virtAddr, limit) ==
    /\ Called /\ virtAddr + limit <= MemorySize
    /\ kernelBuf' = [i \in 1 .. limit + 1 |->
                        IF i <= limit /\ \A j \in 0 .. i - 2 : memory[virtAddr + j] # 0
                        THEN memory[virtAddr + i - 1] ELSE 0]
    /\ text' = TextAt(memory, virtAddr, limit)
    /\ UNCHANGED <<memory, wrote, printed>>

(* Definitions named Wrong... are plausible mistakes in the definition that *)
(* follows them; they are used only to show that the property notices them. *)

(* A loop that ends in front of the NUL.                                   *)
WrongCopied(buffer, len) == Min({len} \cup {k \in 0 .. len - 1 : buffer[k + 1] = 0})

(* The number of characters that System2User copies, which it returns: its *)
(* loop ends behind the first NUL.                                         *)
Copied(buffer, len) == Min({len} \cup {k \in 1 .. len : buffer[k] = 0})

(* System2User; t is the text in the buffer.                               *)
System2User(virtAddr, len, buffer, t) ==
    /\ virtAddr + len <= MemorySize /\ len <= Len(buffer)
    /\ memory' = [a \in Address |-> IF a - virtAddr + 1 \in 1 .. Copied(buffer, len)
                                    THEN buffer[a - virtAddr + 1] ELSE memory[a]]
    /\ wrote' = [at |-> virtAddr, len |-> len, text |-> t, before |-> memory]

(* A text that came from the program goes back to it.                      *)
Return(virtAddr, len) ==
    /\ Called /\ System2User(virtAddr, len, kernelBuf, text)
    /\ UNCHANGED <<kernelBuf, text, printed>>

(* Read of a file, from which the bytes come: they go to the program as a  *)
(* text, so those behind a zero byte do not.                               *)
Read(virtAddr, bytes) ==
    /\ Called
    /\ System2User(virtAddr, Len(bytes), bytes, TextAt(bytes, 1, Len(bytes)))
    /\ UNCHANGED <<kernelBuf, text, printed>>
-----------------------------------------------------------------------------
IntMin == -IntMax - 1
Minus == -1

(* number = -number in an int: IntMin stays as it is.                      *)
Negate(n) == IF n = IntMin THEN n ELSE -n

(* The loop that counts the digits.                                        *)
CountDigits[temp \in IntMin .. IntMax] ==
    IF temp > 0 THEN 1 + CountDigits[temp \div 10] ELSE 0

(* The loop that fills the buffer from its end.                            *)
Digits[number \in 0 .. IntMax, count \in 0 .. 10] ==
    IF count = 0 THEN << >> ELSE Append(Digits[number \div 10, count - 1], number % 10)

(* The characters that PrintInt gives to putChar.                          *)
Characters(number) ==
    LET n == IF number < 0 THEN Negate(number) ELSE number
        digits == IF n > 0 THEN Digits[n, CountDigits[n]] ELSE << >>
    IN  CASE number = 0 -> <<0>>
          [] number < 0 -> <<Minus>> \o digits
          [] OTHER -> digits

PrintInt(number) ==
    /\ Called
    /\ printed' = [number |-> number, as |-> Characters(number)]
    /\ UNCHANGED <<memory, kernelBuf, text, wrote>>

Next ==
    \/ \E a \in Address, n \in 0 .. MemorySize : User2System(a, n) \/ Return(a, n)
    \/ \E a \in Address : \E n \in 1 .. MemorySize - a :
          \E bytes \in [1 .. n -> Char] : Read(a, bytes)
    \/ \E n \in Number : PrintInt(n)

Spec == Init /\ [][Next]_vars
-----------------------------------------------------------------------------
(* The decimal notation of n, without leading zeros.                       *)
Denotes(s, n) ==
    LET digits == IF n < 0 THEN Tail(s) ELSE s
    IN  /\ n < 0 => Head(s) = Minus
        /\ digits # << >> /\ (digits[1] = 0 => n = 0)
        /\ Seqs!FoldLeft(LAMBDA m, d : 10 * m + d, 0, digits) = IF n < 0 THEN -n ELSE n

(* Texts go through the kernel unharmed.  The text that User2System or the *)
(* file gave stands where System2User put it, cut to the length that was   *)
(* asked for, also when the two places overlap; User2System's buffer ends  *)
(* in a NUL; no memory outside that place is written.  What PrintInt       *)
(* prints denotes its argument, but for the smallest int, of which it      *)
(* prints the sign alone.                                                  *)
TextsAreKept ==
    /\ kernelBuf # << >> => Seqs!Last(kernelBuf) = 0
    /\ TextAt(memory, wrote.at, wrote.len) =
          SubSeq(wrote.text, 1, Min({wrote.len, Len(wrote.text)}))
    /\ \A a \in Address \ (wrote.at .. wrote.at + wrote.len - 1) :
          memory[a] = wrote.before[a]
    /\ IF printed.number = IntMin THEN printed.as = <<Minus>>
       ELSE Denotes(printed.as, printed.number)
=============================================================================
