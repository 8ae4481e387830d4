------------------------------- MODULE MemCopy ------------------------------
(***************************************************************************)
(* libtms9900/builtins/memcpy.S and memmove.S: byte copies that move words *)
(* whenever source and destination have the same parity.  memmove is meant *)
(* to choose the direction that is safe for overlapping blocks; which one  *)
(* it takes hangs on what the assembler makes of C R0,R1, see DestFirst in *)
(* Tms9900.                                                                *)
(*                                                                         *)
(* Addresses run over 0..WordMod-1 and address arithmetic wraps.  Memory   *)
(* holds tags, not numbers: the byte at a starts as a, so that what a cell *)
(* holds says where it came from.  A word access ignores the lowest        *)
(* address bit, as the processor does.                                     *)
(***************************************************************************)
EXTENDS Tms9900

VARIABLES
  fn,    \* "memcpy" or "memmove"
  dest,  \* the arguments of the call
  src,
  n,
  R0,    \* scratch and word count
  R1,    \* source pointer
  R2,    \* byte count
  R3,    \* destination pointer
  R4,    \* the result, saved
  mem,
  pc

args == <<fn, dest, src, n>>
vars == <<args, R0, R1, R2, R3, R4, mem, pc>>

Addr == Word

\* Both blocks lie within memory; memcpy's may not overlap (C's precondition).
Init ==
  /\ fn \in {"memcpy", "memmove"}
  /\ dest \in Addr /\ src \in Addr
  /\ n \in 0..(WordMod - 1)
  /\ dest + n <= WordMod /\ src + n <= WordMod
  /\ fn = "memcpy" => dest + n <= src \/ src + n <= dest
  /\ R0 = dest /\ R1 = src /\ R2 = n
  /\ R3 = 0 /\ R4 = 0
  /\ mem = [a \in Addr |-> a]
  /\ pc = "entry"

-----------------------------------------------------------------------------
Odd(x) == x % 2 = 1
Even(x) == 2 * (x \div 2)
Plus(x, k) == (x + k) % WordMod

\* MOVB *s,*t and MOV *s,*t.
MoveByte(s, t) == mem' = [mem EXCEPT ![t] = mem[s]]
MoveWord(s, t) ==
  mem' = [mem EXCEPT ![Even(t)] = mem[Even(s)], ![Even(t) + 1] = mem[Even(s) + 1]]

\* Zero length returns at once.  memmove compares dest with src: JL means
\* forward, equal means nothing to do, else backward from the ends.
Entry ==
  /\ pc = "entry"
  /\ R4' = R0
  /\ LET backward == fn = "memmove" /\ ~JL(R0, R1)
     IN /\ pc' = IF R2 = 0 \/ (fn = "memmove" /\ R0 = R1) THEN "done"
                 ELSE IF backward THEN "backParity" ELSE "parity"
        /\ R3' = IF backward THEN Plus(R0, R2) ELSE R0
        /\ R1' = IF backward THEN Plus(R1, R2) ELSE R1
  /\ UNCHANGED <<args, R0, R2, mem>>

-----------------------------------------------------------------------------
(* Forward: all of memcpy, and memmove's .Lforward                         *)

\* Different parity: bytes only.  Same parity and odd: one byte to align.
Parity ==
  /\ pc = "parity"
  /\ IF Odd(R3) # Odd(R1)
       THEN pc' = "bytes" /\ UNCHANGED <<R1, R2, R3, mem>>
       ELSE IF Odd(R3)
         THEN /\ MoveByte(R1, R3)
              /\ R1' = Plus(R1, 1) /\ R3' = Plus(R3, 1) /\ R2' = R2 - 1
              /\ pc' = IF R2 = 1 THEN "done" ELSE "words"
         ELSE pc' = "words" /\ UNCHANGED <<R1, R2, R3, mem>>
  /\ UNCHANGED <<args, R0, R4>>

Words ==
  /\ pc = "words"
  /\ R0' = R2 \div 2
  /\ pc' = IF R2 \div 2 = 0 THEN "tail" ELSE "wordLoop"
  /\ UNCHANGED <<args, R1, R2, R3, R4, mem>>

\* Mutant: the word count stays.
WordLoopForever ==
  /\ pc = "wordLoop"
  /\ MoveWord(R1, R3)
  /\ UNCHANGED <<args, R0, R1, R2, R3, R4, pc>>

WordLoop ==
  /\ pc = "wordLoop"
  /\ MoveWord(R1, R3)
  /\ R1' = Plus(R1, 2) /\ R3' = Plus(R3, 2) /\ R0' = R0 - 1
  /\ pc' = IF R0 = 1 THEN "tail" ELSE "wordLoop"
  /\ UNCHANGED <<args, R2, R4>>

\* Mutant: the last odd byte is copied as a word.
TailAsWord ==
  /\ pc = "tail"
  /\ IF Odd(R2) THEN MoveWord(R1, R3) ELSE UNCHANGED mem
  /\ R2' = R2 % 2
  /\ pc' = "done"
  /\ UNCHANGED <<args, R0, R1, R3, R4>>

\* Mutant: the last odd byte is forgotten.
TailDropped ==
  /\ pc = "tail"
  /\ R2' = R2 % 2
  /\ pc' = "done"
  /\ UNCHANGED <<args, R0, R1, R3, R4, mem>>

Tail ==
  /\ pc = "tail"
  /\ IF Odd(R2) THEN MoveByte(R1, R3) ELSE UNCHANGED mem
  /\ R2' = R2 % 2
  /\ pc' = "done"
  /\ UNCHANGED <<args, R0, R1, R3, R4>>

Bytes ==
  /\ pc = "bytes"
  /\ MoveByte(R1, R3)
  /\ R1' = Plus(R1, 1) /\ R3' = Plus(R3, 1) /\ R2' = R2 - 1
  /\ pc' = IF R2 = 1 THEN "done" ELSE "bytes"
  /\ UNCHANGED <<args, R0, R4>>

-----------------------------------------------------------------------------
(* Backward: the pointers start one past the end                           *)

\* Mutant: the parity of one pointer stands for both.
BackParityOfOne ==
  /\ pc = "backParity"
  /\ IF Odd(R3)
       THEN pc' = "backBytes"
       ELSE pc' = "backWords"
  /\ UNCHANGED <<args, R0, R1, R2, R3, R4, mem>>

BackParity ==
  /\ pc = "backParity"
  /\ IF Odd(R3) # Odd(R1)
       THEN pc' = "backBytes" /\ UNCHANGED <<R1, R2, R3, mem>>
       ELSE IF Odd(R3)
         THEN /\ MoveByte(Plus(R1, -1), Plus(R3, -1))
              /\ R1' = Plus(R1, -1) /\ R3' = Plus(R3, -1) /\ R2' = R2 - 1
              /\ pc' = IF R2 = 1 THEN "done" ELSE "backWords"
         ELSE pc' = "backWords" /\ UNCHANGED <<R1, R2, R3, mem>>
  /\ UNCHANGED <<args, R0, R4>>

BackWords ==
  /\ pc = "backWords"
  /\ R0' = R2 \div 2
  /\ pc' = IF R2 \div 2 = 0 THEN "backTail" ELSE "backWordLoop"
  /\ UNCHANGED <<args, R1, R2, R3, R4, mem>>

BackWordLoop ==
  /\ pc = "backWordLoop"
  /\ MoveWord(Plus(R1, -2), Plus(R3, -2))
  /\ R1' = Plus(R1, -2) /\ R3' = Plus(R3, -2) /\ R0' = R0 - 1
  /\ pc' = IF R0 = 1 THEN "backTail" ELSE "backWordLoop"
  /\ UNCHANGED <<args, R2, R4>>

BackTail ==
  /\ pc = "backTail"
  /\ IF Odd(R2)
       THEN /\ MoveByte(Plus(R1, -1), Plus(R3, -1))
            /\ R1' = Plus(R1, -1) /\ R3' = Plus(R3, -1)
       ELSE UNCHANGED <<mem, R1, R3>>
  /\ R2' = R2 % 2
  /\ pc' = "done"
  /\ UNCHANGED <<args, R0, R4>>

BackBytes ==
  /\ pc = "backBytes"
  /\ MoveByte(Plus(R1, -1), Plus(R3, -1))
  /\ R1' = Plus(R1, -1) /\ R3' = Plus(R3, -1) /\ R2' = R2 - 1
  /\ pc' = IF R2 = 1 THEN "done" ELSE "backBytes"
  /\ UNCHANGED <<args, R0, R4>>

-----------------------------------------------------------------------------
\* .Ldone: the original destination is returned.
Return ==
  /\ pc = "done"
  /\ R0' = R4
  /\ pc' = "returned"
  /\ UNCHANGED <<args, R1, R2, R3, R4, mem>>

Returned == pc = "returned" /\ UNCHANGED vars

Next ==
  \/ Entry
  \/ Parity \/ Words \/ WordLoop \/ Tail \/ Bytes
  \/ BackParity \/ BackWords \/ BackWordLoop \/ BackTail \/ BackBytes
  \/ Return \/ Returned

Spec == Init /\ [][Next]_vars

FairSpec == Spec /\ WF_vars(Next)

-----------------------------------------------------------------------------
(* Properties                                                              *)

Forward == {"parity", "words", "wordLoop", "tail", "bytes"}
Backward == {"backParity", "backWords", "backWordLoop", "backTail", "backBytes"}

TypeOK ==
  /\ fn \in {"memcpy", "memmove"}
  /\ dest \in Addr /\ src \in Addr /\ n \in Word
  /\ R0 \in Word /\ R1 \in Word /\ R2 \in Word /\ R3 \in Word /\ R4 \in Word
  /\ mem \in [Addr -> Addr]
  /\ pc \in Forward \cup Backward \cup {"entry", "done", "returned"}

\* The blocks do not overlap.
Apart == dest + n <= src \/ src + n <= dest

\* The way a call copies, and whether it is the way on which every byte is read
\* before it is overwritten.
GoesBackward == fn = "memmove" /\ ~JL(dest, src)
SafeDirection == IF GoesBackward THEN src <= dest ELSE dest <= src

\* memcpy, and memmove of blocks that do not overlap whichever way it goes: the
\* destination holds what the source held before the call, and the result is the
\* destination.  So it does for overlapping blocks if memmove goes the safe way.
CopyCorrect ==
  pc = "returned" =>
    /\ Apart \/ SafeDirection => \A i \in 0..(n - 1) : mem[dest + i] = src + i
    /\ R0 = dest

\* memmove.S:7, "Overlap-safe memory copy": the destination holds what the source
\* held, overlap or not.
OverlapSafe ==
  pc = "returned" => \A i \in 0..(n - 1) : mem[dest + i] = src + i

\* No byte outside the destination is ever written, not even for a moment: the
\* word moves never touch a neighbour of an odd end.
WritesStayInside ==
  \A a \in Addr : mem[a] # a => dest <= a /\ a < dest + n

\* Bytes still to copy.
Left ==
  CASE pc \in {"parity", "words", "bytes", "backParity", "backWords", "backBytes"} -> R2
    [] pc \in {"wordLoop", "backWordLoop"} -> (2 * R0) + (R2 % 2)
    [] pc \in {"tail", "backTail"} -> R2 % 2
    [] OTHER -> 0

\* Memory m once the bytes of the destination from index lo to hi-1 have been
\* copied and nothing else has changed.  Going the wrong way, a byte is copied
\* from where an earlier one may have been put, and that byte stays as it is.
Copied(m, lo, hi) ==
  \A a \in Addr :
    m[a] = IF dest + lo <= a /\ a < dest + hi
             THEN IF SafeDirection THEN src + (a - dest) ELSE m[src + (a - dest)]
             ELSE a

\* Going forward, the block's first n - Left bytes are copied.
ForwardInv ==
  pc \in Forward =>
    /\ Left \in 0..n
    /\ Left > 0 => R3 = dest + (n - Left) /\ R1 = src + (n - Left)
    /\ ~GoesBackward
    /\ Copied(mem, 0, n - Left)
    /\ pc \in {"parity", "bytes", "words"} => R2 > 0
    /\ pc \in {"words", "wordLoop"} => ~Odd(R1) /\ ~Odd(R3)
    /\ pc = "wordLoop" => R0 > 0

\* A pointer that may be one past the last address.
Wrap(x) == IF x = WordMod THEN 0 ELSE x

\* Going backward, its last n - Left bytes are.
BackwardInv ==
  pc \in Backward =>
    /\ Left \in 0..n
    /\ R3 = Wrap(dest + Left) /\ R1 = Wrap(src + Left)
    /\ GoesBackward
    /\ Copied(mem, Left, n)
    /\ pc \in {"backParity", "backBytes", "backWords"} => R2 > 0
    /\ pc \in {"backWords", "backWordLoop"} => ~Odd(R1) /\ ~Odd(R3)
    /\ pc = "backWordLoop" => R0 > 0

\* The inductive invariant behind the theorems of MemCopyProofs.
IInv ==
  /\ TypeOK
  /\ dest + n <= WordMod /\ src + n <= WordMod
  /\ fn = "memcpy" => Apart
  /\ pc = "entry" => R0 = dest /\ R1 = src /\ R2 = n /\ Copied(mem, 0, 0)
  /\ pc # "entry" => R4 = dest
  /\ ForwardInv
  /\ BackwardInv
  /\ pc \in {"done", "returned"} => Copied(mem, 0, n)
  /\ pc = "returned" => R0 = dest

\* Every call returns.
Terminates == <>(pc = "returned")

=============================================================================
