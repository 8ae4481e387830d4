---------------------------- MODULE MemCopyProofs ---------------------------
(***************************************************************************)
(* What memcpy and memmove do for every memory size and every pair of      *)
(* blocks, whichever way the assembler's C compares.  ForwardInv and       *)
(* BackwardInv describe memory completely between any two instructions     *)
(* that matter; the lemmas on Copied show that one byte or one aligned     *)
(* word more keeps the description: going the safe way the bytes still to  *)
(* be read have not been overwritten, going the other way the bytes they   *)
(* were copied from are not written again.                                 *)
(***************************************************************************)
EXTENDS MemCopy, TLAPS

USE Tms9900Assumption

-----------------------------------------------------------------------------
(* Address arithmetic                                                      *)

\* The size of the address space is an even number above one.
LEMMA WordModType == WordMod \in Nat /\ WordMod > 1 /\ WordMod % 2 = 0
  BY DEF WordMod

\* Moving a pointer up within memory.
LEMMA PlusUp ==
  ASSUME NEW x \in Word, NEW k \in Nat, x + k <= WordMod
  PROVE  Plus(x, k) \in Word /\ Plus(x, k) = Wrap(x + k)
  BY WordModType DEF Plus, Wrap, Word

\* Moving a pointer down, from one past the end if need be.
LEMMA PlusDown ==
  ASSUME NEW x \in 0..WordMod, NEW k \in 1..x
  PROVE  Plus(Wrap(x), -k) = x - k /\ x - k \in Word
  <1>1. CASE x = WordMod
    <2>1. (0 - k) % WordMod = WordMod - k
      BY <1>1, WordModType
    <2> QED
      BY <1>1, <2>1, WordModType DEF Plus, Wrap, Word
  <1>2. CASE x # WordMod
    BY <1>2, WordModType DEF Plus, Wrap, Word
  <1> QED
    BY <1>1, <1>2

\* An even address below the end has a neighbour, and is its own word address.
LEMMA EvenAddress ==
  ASSUME NEW x \in Word, ~Odd(x)
  PROVE  Even(x) = x /\ x + 1 \in Word
  BY DEF Odd, Even, Word, WordMod

\* A byte count is two for each word plus the odd one.
LEMMA Halves ==
  ASSUME NEW x \in Word
  PROVE  x \div 2 \in Word /\ x \div 2 \in Nat /\ x = (2 * (x \div 2)) + (x % 2)
  BY WordModType DEF Word

-----------------------------------------------------------------------------
(* One more byte, one more word                                            *)

\* A memory as Copied describes it.
IsCopied(m, lo, hi) == m \in [Addr -> Addr] /\ Copied(m, lo, hi)

\* Both blocks lie within memory.
LEMMA Blocks ==
  ASSUME IInv
  PROVE  /\ dest \in Nat /\ src \in Nat /\ n \in Nat
         /\ dest + n <= WordMod /\ src + n <= WordMod
  BY WordModType DEF IInv, TypeOK, Addr, Word

\* Copying the byte at index k extends the copied prefix by one.
LEMMA ForwardByte ==
  ASSUME IInv, NEW k \in Nat, k < n, ~GoesBackward, IsCopied(mem, 0, k)
  PROVE  IsCopied([mem EXCEPT ![dest + k] = mem[src + k]], 0, k + 1)
  <1> DEFINE new == [mem EXCEPT ![dest + k] = mem[src + k]]
  <1> SUFFICES IsCopied(new, 0, k + 1)
    OBVIOUS
  <1>1. /\ dest \in Nat /\ src \in Nat /\ n \in Nat
        /\ dest + n <= WordMod /\ src + n <= WordMod
        /\ dest + k \in Addr /\ src + k \in Addr
    BY Blocks, WordModType DEF Addr, Word
  <1>2. new \in [Addr -> Addr]
    BY <1>1 DEF IsCopied
  <1>3. \A a \in Addr : new[a] = IF a = dest + k THEN mem[src + k] ELSE mem[a]
    BY DEF IsCopied
  <1> HIDE DEF new
  <1>4. CASE SafeDirection
    <2>1. mem[src + k] = src + k
      BY <1>1, <1>4 DEF IsCopied, Copied, SafeDirection, Addr, Word
    <2>2. \A a \in Addr : new[a] = IF dest + 0 <= a /\ a < dest + (k + 1)
                                     THEN src + (a - dest) ELSE a
      BY <1>1, <1>3, <1>4, <2>1 DEF IsCopied, Copied, Addr, Word
    <2> QED
      BY <1>2, <1>4, <2>2 DEF IsCopied, Copied
  <1>5. CASE ~SafeDirection
    <2>1. src < dest
      BY <1>1, <1>5 DEF SafeDirection
    <2>2. \A a \in Addr : new[a] = IF dest + 0 <= a /\ a < dest + (k + 1)
                                     THEN new[src + (a - dest)] ELSE a
      <3> SUFFICES ASSUME NEW a \in Addr
                   PROVE  new[a] = IF dest + 0 <= a /\ a < dest + (k + 1)
                                     THEN new[src + (a - dest)] ELSE a
        OBVIOUS
      <3>1. CASE dest <= a /\ a <= dest + k
        <4>1. src + (a - dest) \in Addr /\ src + (a - dest) # dest + k
          BY <1>1, <2>1, <3>1, WordModType DEF Addr, Word
        <4>2. new[src + (a - dest)] = mem[src + (a - dest)]
          BY <1>3, <4>1
        <4>3. a # dest + k => mem[a] = mem[src + (a - dest)]
          BY <1>1, <1>5, <3>1 DEF IsCopied, Copied, Addr, Word
        <4>4. a = dest + k => src + (a - dest) = src + k
          BY <1>1
        <4> QED
          BY <1>1, <1>3, <3>1, <4>2, <4>3, <4>4 DEF Addr, Word
      <3>2. CASE ~(dest <= a /\ a <= dest + k)
        BY <1>1, <1>3, <1>5, <3>2 DEF IsCopied, Copied, Addr, Word
      <3> QED
        BY <3>1, <3>2
    <2> QED
      BY <1>2, <1>5, <2>2 DEF IsCopied, Copied
  <1> QED
    BY <1>4, <1>5

\* Copying the word at index k, on even pointers, extends the prefix by two: two
\* blocks that are not in the same place are at least a word apart.
LEMMA ForwardWord ==
  ASSUME IInv, NEW k \in Nat, k + 1 < n, ~GoesBackward, IsCopied(mem, 0, k),
         ~Odd(dest + k), ~Odd(src + k)
  PROVE  IsCopied([mem EXCEPT ![dest + k] = mem[src + k],
                              ![dest + k + 1] = mem[src + k + 1]], 0, k + 2)
  <1> DEFINE new == [mem EXCEPT ![dest + k] = mem[src + k],
                             ![dest + k + 1] = mem[src + k + 1]]
  <1> SUFFICES IsCopied(new, 0, k + 2)
    OBVIOUS
  <1>1. /\ dest \in Nat /\ src \in Nat /\ n \in Nat
        /\ dest + n <= WordMod /\ src + n <= WordMod
        /\ dest + k \in Addr /\ src + k \in Addr
        /\ dest + k + 1 \in Addr /\ src + k + 1 \in Addr
    BY Blocks, WordModType DEF Addr, Word
  <1>2. new \in [Addr -> Addr]
    BY <1>1 DEF IsCopied
  <1>3. \A a \in Addr : new[a] = IF a = dest + k THEN mem[src + k]
                                 ELSE IF a = dest + k + 1 THEN mem[src + k + 1]
                                 ELSE mem[a]
    BY <1>1 DEF IsCopied
  <1> HIDE DEF new
  <1>4. CASE SafeDirection
    <2>1. mem[src + k] = src + k /\ mem[src + k + 1] = src + k + 1
      BY <1>1, <1>4 DEF IsCopied, Copied, SafeDirection, Addr, Word
    <2>2. \A a \in Addr : new[a] = IF dest + 0 <= a /\ a < dest + (k + 2)
                                     THEN src + (a - dest) ELSE a
      BY <1>1, <1>3, <1>4, <2>1 DEF IsCopied, Copied, Addr, Word
    <2> QED
      BY <1>2, <1>4, <2>2 DEF IsCopied, Copied
  <1>5. CASE ~SafeDirection
    <2>1. src < dest
      BY <1>1, <1>5 DEF SafeDirection
    <2>2. src + 1 < dest
      BY <1>1, <2>1 DEF Odd
    <2>3. \A a \in Addr : new[a] = IF dest + 0 <= a /\ a < dest + (k + 2)
                                     THEN new[src + (a - dest)] ELSE a
      <3> SUFFICES ASSUME NEW a \in Addr
                   PROVE  new[a] = IF dest + 0 <= a /\ a < dest + (k + 2)
                                     THEN new[src + (a - dest)] ELSE a
        OBVIOUS
      <3>1. CASE dest <= a /\ a < dest + (k + 2)
        <4>1. /\ src + (a - dest) \in Addr
              /\ src + (a - dest) # dest + k /\ src + (a - dest) # dest + k + 1
          BY <1>1, <2>2, <3>1, WordModType DEF Addr, Word
        <4>2. new[src + (a - dest)] = mem[src + (a - dest)]
          BY <1>3, <4>1
        <4>3. a < dest + k => mem[a] = mem[src + (a - dest)]
          BY <1>1, <1>5, <3>1 DEF IsCopied, Copied, Addr, Word
        <4>4. /\ a = dest + k => src + (a - dest) = src + k
              /\ a = dest + k + 1 => src + (a - dest) = src + k + 1
              /\ a < dest + k \/ a = dest + k \/ a = dest + k + 1
          BY <1>1, <3>1 DEF Addr, Word
        <4> QED
          BY <1>1, <1>3, <3>1, <4>2, <4>3, <4>4 DEF Addr, Word
      <3>2. CASE ~(dest <= a /\ a < dest + (k + 2))
        BY <1>1, <1>3, <1>5, <3>2 DEF IsCopied, Copied, Addr, Word
      <3> QED
        BY <3>1, <3>2
    <2> QED
      BY <1>2, <1>5, <2>3 DEF IsCopied, Copied
  <1> QED
    BY <1>4, <1>5

\* Copying the byte below index k extends the copied suffix by one.
LEMMA BackwardByte ==
  ASSUME IInv, NEW k \in 1..n, GoesBackward, IsCopied(mem, k, n)
  PROVE  IsCopied([mem EXCEPT ![dest + (k - 1)] = mem[src + (k - 1)]], k - 1, n)
  <1> DEFINE new == [mem EXCEPT ![dest + (k - 1)] = mem[src + (k - 1)]]
  <1> SUFFICES IsCopied(new, k - 1, n)
    OBVIOUS
  <1>1. /\ dest \in Nat /\ src \in Nat /\ n \in Nat
        /\ dest + n <= WordMod /\ src + n <= WordMod
        /\ dest + (k - 1) \in Addr /\ src + (k - 1) \in Addr
    BY Blocks, WordModType DEF Addr, Word
  <1>2. new \in [Addr -> Addr]
    BY <1>1 DEF IsCopied
  <1>3. \A a \in Addr : new[a] = IF a = dest + (k - 1) THEN mem[src + (k - 1)] ELSE mem[a]
    BY DEF IsCopied
  <1> HIDE DEF new
  <1>4. CASE SafeDirection
    <2>1. mem[src + (k - 1)] = src + (k - 1)
      BY <1>1, <1>4 DEF IsCopied, Copied, SafeDirection, Addr, Word
    <2>2. \A a \in Addr : new[a] = IF dest + (k - 1) <= a /\ a < dest + n
                                     THEN src + (a - dest) ELSE a
      BY <1>1, <1>3, <1>4, <2>1 DEF IsCopied, Copied, Addr, Word
    <2> QED
      BY <1>2, <1>4, <2>2 DEF IsCopied, Copied
  <1>5. CASE ~SafeDirection
    <2>1. dest < src
      BY <1>1, <1>5 DEF SafeDirection
    <2>2. \A a \in Addr : new[a] = IF dest + (k - 1) <= a /\ a < dest + n
                                     THEN new[src + (a - dest)] ELSE a
      <3> SUFFICES ASSUME NEW a \in Addr
                   PROVE  new[a] = IF dest + (k - 1) <= a /\ a < dest + n
                                     THEN new[src + (a - dest)] ELSE a
        OBVIOUS
      <3>1. CASE dest + (k - 1) <= a /\ a < dest + n
        <4>1. src + (a - dest) \in Addr /\ src + (a - dest) # dest + (k - 1)
          BY <1>1, <2>1, <3>1, WordModType DEF Addr, Word
        <4>2. new[src + (a - dest)] = mem[src + (a - dest)]
          BY <1>3, <4>1
        <4>3. a # dest + (k - 1) => mem[a] = mem[src + (a - dest)]
          BY <1>1, <1>5, <3>1 DEF IsCopied, Copied, Addr, Word
        <4>4. a = dest + (k - 1) => src + (a - dest) = src + (k - 1)
          BY <1>1
        <4> QED
          BY <1>1, <1>3, <3>1, <4>2, <4>3, <4>4 DEF Addr, Word
      <3>2. CASE ~(dest + (k - 1) <= a /\ a < dest + n)
        BY <1>1, <1>3, <1>5, <3>2 DEF IsCopied, Copied, Addr, Word
      <3> QED
        BY <3>1, <3>2
    <2> QED
      BY <1>2, <1>5, <2>2 DEF IsCopied, Copied
  <1> QED
    BY <1>4, <1>5

\* Copying the word below index k, on even pointers, extends the suffix by two.
LEMMA BackwardWord ==
  ASSUME IInv, NEW k \in 2..n, GoesBackward, IsCopied(mem, k, n),
         ~Odd(dest + (k - 2)), ~Odd(src + (k - 2))
  PROVE  IsCopied([mem EXCEPT ![dest + (k - 2)] = mem[src + (k - 2)],
                              ![dest + (k - 2) + 1] = mem[src + (k - 2) + 1]], k - 2, n)
  <1> DEFINE new == [mem EXCEPT ![dest + (k - 2)] = mem[src + (k - 2)],
                             ![dest + (k - 2) + 1] = mem[src + (k - 2) + 1]]
  <1> SUFFICES IsCopied(new, k - 2, n)
    OBVIOUS
  <1>1. /\ dest \in Nat /\ src \in Nat /\ n \in Nat
        /\ dest + n <= WordMod /\ src + n <= WordMod
        /\ dest + (k - 2) \in Addr /\ src + (k - 2) \in Addr
        /\ dest + (k - 2) + 1 \in Addr /\ src + (k - 2) + 1 \in Addr
    BY Blocks, WordModType DEF Addr, Word
  <1>2. new \in [Addr -> Addr]
    BY <1>1 DEF IsCopied
  <1>3. \A a \in Addr : new[a] = IF a = dest + (k - 2) THEN mem[src + (k - 2)]
                                 ELSE IF a = dest + (k - 2) + 1 THEN mem[src + (k - 2) + 1]
                                 ELSE mem[a]
    BY <1>1 DEF IsCopied
  <1> HIDE DEF new
  <1>4. CASE SafeDirection
    <2>1. mem[src + (k - 2)] = src + (k - 2) /\ mem[src + (k - 2) + 1] = src + (k - 2) + 1
      BY <1>1, <1>4 DEF IsCopied, Copied, SafeDirection, Addr, Word
    <2>2. \A a \in Addr : new[a] = IF dest + (k - 2) <= a /\ a < dest + n
                                     THEN src + (a - dest) ELSE a
      BY <1>1, <1>3, <1>4, <2>1 DEF IsCopied, Copied, Addr, Word
    <2> QED
      BY <1>2, <1>4, <2>2 DEF IsCopied, Copied
  <1>5. CASE ~SafeDirection
    <2>1. dest < src
      BY <1>1, <1>5 DEF SafeDirection
    <2>2. dest + 1 < src
      BY <1>1, <2>1 DEF Odd
    <2>3. \A a \in Addr : new[a] = IF dest + (k - 2) <= a /\ a < dest + n
                                     THEN new[src + (a - dest)] ELSE a
      <3> SUFFICES ASSUME NEW a \in Addr
                   PROVE  new[a] = IF dest + (k - 2) <= a /\ a < dest + n
                                     THEN new[src + (a - dest)] ELSE a
        OBVIOUS
      <3>1. CASE dest + (k - 2) <= a /\ a < dest + n
        <4>1. /\ src + (a - dest) \in Addr
              /\ src + (a - dest) # dest + (k - 2) /\ src + (a - dest) # dest + (k - 2) + 1
          BY <1>1, <2>2, <3>1, WordModType DEF Addr, Word
        <4>2. new[src + (a - dest)] = mem[src + (a - dest)]
          BY <1>3, <4>1
        <4>3. dest + k <= a => mem[a] = mem[src + (a - dest)]
          BY <1>1, <1>5, <3>1 DEF IsCopied, Copied, Addr, Word
        <4>4. /\ a = dest + (k - 2) => src + (a - dest) = src + (k - 2)
              /\ a = dest + (k - 2) + 1 => src + (a - dest) = src + (k - 2) + 1
              /\ dest + k <= a \/ a = dest + (k - 2) \/ a = dest + (k - 2) + 1
          BY <1>1, <3>1 DEF Addr, Word
        <4> QED
          BY <1>1, <1>3, <3>1, <4>2, <4>3, <4>4 DEF Addr, Word
      <3>2. CASE ~(dest + (k - 2) <= a /\ a < dest + n)
        BY <1>1, <1>3, <1>5, <3>2 DEF IsCopied, Copied, Addr, Word
      <3> QED
        BY <3>1, <3>2
    <2> QED
      BY <1>2, <1>5, <2>3 DEF IsCopied, Copied
  <1> QED
    BY <1>4, <1>5

-----------------------------------------------------------------------------
(* One lemma per action                                                    *)

\* Every call starts in a state that satisfies the invariant.
LEMMA InitIInv == Init => IInv
  <1> SUFFICES ASSUME Init PROVE IInv
    OBVIOUS
  <1>1. TypeOK
    BY WordModType DEF Init, TypeOK, Addr, Word, Forward, Backward
  <1>2. Copied(mem, 0, 0)
    BY WordModType DEF Init, Copied, Addr, Word
  <1> QED
    BY <1>1, <1>2 DEF Init, IInv, ForwardInv, BackwardInv, Forward, Backward, Apart

\* The entry code chooses a direction, the safe one or not.
LEMMA EntryStep ==
  ASSUME IInv, Entry
  PROVE  IInv'
  <1>0. /\ dest \in Word /\ src \in Word /\ n \in Word
        /\ R0 = dest /\ R1 = src /\ R2 = n
        /\ R4' = dest /\ mem' = mem /\ UNCHANGED <<args, R0, R2>>
        /\ dest + n <= WordMod /\ src + n <= WordMod
        /\ \A a \in Addr : mem[a] = a
    <2>1. Copied(mem, 0, 0) /\ dest \in Word
      BY DEF IInv, TypeOK, Entry, Addr
    <2>2. \A a \in Addr : mem[a] = a
      BY <2>1 DEF Copied, Addr, Word
    <2> QED
      BY <2>2 DEF IInv, TypeOK, Entry, Addr
  <1>1. \A i \in Word : Copied(mem, i, i)'
    BY <1>0 DEF Copied, Addr, Word, args
  <1>2. /\ (GoesBackward)' = GoesBackward /\ (Apart)' = Apart
        /\ GoesBackward = (fn = "memmove" /\ ~JL(R0, R1))
    BY <1>0 DEF args, GoesBackward, Apart, JL, LogicallyGreater
  <1>3. CASE n = 0 \/ (fn = "memmove" /\ dest = src)
    <2>1. pc' = "done" /\ R1' \in Word /\ R3' \in Word
      BY <1>0, <1>3, PlusUp DEF Entry, Word
    <2>2. Copied(mem, 0, n)'
      <3>1. CASE n = 0
        BY <1>0, <1>1, <3>1 DEF Word, args
      <3>2. CASE dest = src
        BY <1>0, <3>2 DEF Copied, Addr, Word, args, SafeDirection
      <3> QED
        BY <1>3, <3>1, <3>2
    <2> QED
      BY <1>0, <1>2, <2>1, <2>2
      DEF IInv, TypeOK, args, ForwardInv, BackwardInv, Forward, Backward, Addr
  <1>4. CASE n # 0 /\ ~(fn = "memmove" /\ dest = src) /\ GoesBackward
    <2>1. /\ pc' = "backParity" /\ R3' = Plus(dest, n) /\ R1' = Plus(src, n)
      BY <1>0, <1>2, <1>4 DEF Entry
    <2>2. R3' = Wrap(dest + n) /\ R1' = Wrap(src + n) /\ R3' \in Word /\ R1' \in Word
      BY <1>0, <2>1, PlusUp DEF Word
    <2>3. Copied(mem, n, n)'
      BY <1>0, <1>1 DEF args
    <2>4. Left' = n
      BY <1>0, <2>1 DEF Left
    <2> QED
      BY <1>0, <1>2, <1>4, <2>1, <2>2, <2>3, <2>4
      DEF IInv, TypeOK, args, ForwardInv, BackwardInv, Forward, Backward, Addr, Word, Wrap
  <1>5. CASE n # 0 /\ ~(fn = "memmove" /\ dest = src) /\ ~GoesBackward
    <2>1. /\ pc' = "parity" /\ R3' = dest /\ R1' = src
      BY <1>0, <1>2, <1>5 DEF Entry
    <2>2. Copied(mem, 0, 0)'
      BY <1>1, WordModType DEF Word
    <2>3. Left' = n
      BY <1>0, <2>1 DEF Left
    <2> QED
      BY <1>0, <1>2, <1>5, <2>1, <2>2, <2>3
      DEF IInv, TypeOK, args, ForwardInv, BackwardInv, Forward, Backward, Addr, Word
  <1> QED
    BY <1>3, <1>4, <1>5

\* What a step of the forward copy has to establish.
LEMMA ForwardClose ==
  ASSUME IInv, pc \in Forward, UNCHANGED <<args, R4>>,
         NEW left \in 0..n, IsCopied(mem', 0, n - left),
         R0' \in Word, R1' \in Word, R2' \in Word, R3' \in Word,
         \/ pc' = "done" /\ left = 0
         \/ /\ pc' \in Forward
            /\ Left' = left
            /\ left > 0 => R3' = dest + (n - left) /\ R1' = src + (n - left)
            /\ pc' \in {"parity", "bytes", "words"} => R2' > 0
            /\ pc' \in {"words", "wordLoop"} => ~Odd(R1') /\ ~Odd(R3')
            /\ pc' = "wordLoop" => R0' > 0
  PROVE  IInv'
  <1>1. \A lo, hi : Copied(mem, lo, hi)' <=> Copied(mem', lo, hi)
    BY DEF args, Copied, SafeDirection, GoesBackward
  <1>2. mem' \in [Addr -> Addr] /\ Copied(mem', 0, n - left)
    BY DEF IsCopied
  <1>3. pc # "entry" /\ pc' \notin Backward /\ pc' \notin {"entry", "returned"}
    BY DEF Forward, Backward
  <1>4. ~GoesBackward /\ GoesBackward' = GoesBackward /\ Apart' = Apart
    BY DEF IInv, ForwardInv, GoesBackward, Apart, args
  <1>5. TypeOK'
    BY <1>2 DEF IInv, TypeOK, args
  <1>6. ForwardInv'
    BY <1>1, <1>2, <1>3, <1>4 DEF ForwardInv, args, Forward, Odd
  <1>7. BackwardInv'
    BY <1>3 DEF BackwardInv
  <1>8. pc' = "done" => Copied(mem, 0, n)'
    BY <1>1, <1>2 DEF Forward, args, IInv, TypeOK, Word
  <1> QED
    BY <1>3, <1>4, <1>5, <1>6, <1>7, <1>8 DEF IInv, args

\* The leading odd byte of a forward copy.
LEMMA ParityStep ==
  ASSUME IInv, Parity
  PROVE  IInv'
  <1>0. /\ pc = "parity" /\ pc \in Forward /\ UNCHANGED <<args, R0, R4>>
        /\ Left = R2 /\ R2 \in 1..n /\ R2 \in Word
        /\ R3 = dest + (n - R2) /\ R1 = src + (n - R2)
        /\ dest \in Nat /\ src \in Nat /\ n \in Nat
        /\ dest + n <= WordMod /\ src + n <= WordMod
        /\ ~GoesBackward
        /\ IsCopied(mem, 0, n - R2)
        /\ R0 \in Word /\ R1 \in Word /\ R3 \in Word
    BY DEF IInv, TypeOK, ForwardInv, Parity, Forward, Left, Addr, Word, IsCopied
  <1>1. CASE Odd(R3) # Odd(R1)
    <2>1. pc' = "bytes" /\ UNCHANGED <<R1, R2, R3, mem>>
      BY <1>1 DEF Parity
    <2>2. Left' = R2 /\ pc' \in Forward
      BY <2>1 DEF Left, Forward
    <2> QED
      BY <1>0, <2>1, <2>2, ForwardClose
  <1>2. CASE Odd(R3) = Odd(R1) /\ Odd(R3)
    <2>1. /\ mem' = [mem EXCEPT ![R3] = mem[R1]]
          /\ R1' = Plus(R1, 1) /\ R3' = Plus(R3, 1) /\ R2' = R2 - 1
          /\ pc' = IF R2 = 1 THEN "done" ELSE "words"
      BY <1>2 DEF Parity, MoveByte
    <2>2. IsCopied(mem', 0, n - (R2 - 1))
      <3>1. n - (R2 - 1) = (n - R2) + 1 /\ n - R2 \in Nat /\ n - R2 < n
        BY <1>0
      <3>2. IsCopied([mem EXCEPT ![dest + (n - R2)] = mem[src + (n - R2)]], 0, (n - R2) + 1)
        BY <1>0, <3>1, ForwardByte
      <3> QED
        BY <1>0, <2>1, <3>1, <3>2
    <2>3. R1' = Wrap(R1 + 1) /\ R3' = Wrap(R3 + 1) /\ R1' \in Word /\ R3' \in Word
      <3>1. R1 + 1 <= WordMod /\ R3 + 1 <= WordMod
        BY <1>0, WordModType
      <3> QED
        BY <1>0, <2>1, <3>1, PlusUp
    <2>4. R2' \in Word /\ R2 - 1 \in 0..n
      BY <1>0, <2>1, WordModType DEF Word
    <2>5. CASE R2 = 1
      <3>1. pc' = "done" /\ R0' \in Word /\ R2 - 1 = 0
        BY <1>0, <2>1, <2>5
      <3>2. pc \in Forward /\ UNCHANGED <<args, R4>>
        BY <1>0
      <3> QED
        BY <2>2, <2>3, <2>4, <3>1, <3>2, ForwardClose
    <2>6. CASE R2 # 1
      <3>1. Left' = R2 - 1 /\ pc' = "words" /\ pc' \in Forward /\ R2' > 0
        BY <1>0, <2>1, <2>6 DEF Left, Forward
      <3>2. R1' = src + (n - (R2 - 1)) /\ R3' = dest + (n - (R2 - 1))
        BY <1>0, <2>3, <2>6 DEF Wrap
      <3>3. ~Odd(R1') /\ ~Odd(R3')
        BY <1>0, <1>2, <3>2 DEF Odd
      <3>4. pc \in Forward /\ UNCHANGED <<args, R4>> /\ R0' \in Word
        BY <1>0
      <3> QED
        BY <2>2, <2>3, <2>4, <3>1, <3>2, <3>3, <3>4, ForwardClose
    <2> QED
      BY <2>5, <2>6
  <1>3. CASE Odd(R3) = Odd(R1) /\ ~Odd(R3)
    <2>1. pc' = "words" /\ UNCHANGED <<R1, R2, R3, mem>>
      BY <1>3 DEF Parity
    <2>2. Left' = R2 /\ pc' \in Forward
      BY <2>1 DEF Left, Forward
    <2> QED
      BY <1>0, <1>3, <2>1, <2>2, ForwardClose
  <1> QED
    BY <1>1, <1>2, <1>3

\* What ForwardInv says, in one place.
LEMMA ForwardFacts ==
  ASSUME IInv, pc \in Forward
  PROVE  /\ Left \in 0..n
         /\ Left > 0 => R3 = dest + (n - Left) /\ R1 = src + (n - Left)
         /\ dest \in Nat /\ src \in Nat /\ n \in Nat
         /\ dest + n <= WordMod /\ src + n <= WordMod
         /\ ~GoesBackward
         /\ IsCopied(mem, 0, n - Left)
         /\ R0 \in Word /\ R1 \in Word /\ R2 \in Word /\ R3 \in Word
  <1>1. TypeOK
    BY DEF IInv
  <1>2. /\ Left \in 0..n
        /\ Left > 0 => R3 = dest + (n - Left) /\ R1 = src + (n - Left)
        /\ ~GoesBackward
        /\ Copied(mem, 0, n - Left)
    BY DEF IInv, ForwardInv
  <1> QED
    BY <1>1, <1>2, Blocks DEF TypeOK, IsCopied

\* A step of the forward byte loop.
LEMMA BytesStep ==
  ASSUME IInv, Bytes
  PROVE  IInv'
  <1>0. /\ pc = "bytes" /\ pc \in Forward /\ UNCHANGED <<args, R0, R4>>
        /\ Left = R2 /\ R2 > 0
    BY DEF IInv, ForwardInv, Bytes, Forward, Left
  <1>1. /\ mem' = [mem EXCEPT ![R3] = mem[R1]]
        /\ R1' = Plus(R1, 1) /\ R3' = Plus(R3, 1) /\ R2' = R2 - 1
        /\ pc' = IF R2 = 1 THEN "done" ELSE "bytes"
    BY DEF Bytes, MoveByte
  <1>2. /\ n - (R2 - 1) = (n - R2) + 1 /\ n - R2 \in Nat /\ n - R2 < n
        /\ R1 + 1 <= WordMod /\ R3 + 1 <= WordMod
        /\ R2' \in Word /\ R2 - 1 \in 0..n
    BY <1>0, <1>1, ForwardFacts, WordModType DEF Word
  <1>3. IsCopied(mem', 0, n - (R2 - 1))
    <2>1. IsCopied([mem EXCEPT ![dest + (n - R2)] = mem[src + (n - R2)]], 0, (n - R2) + 1)
      BY <1>0, <1>2, ForwardByte, ForwardFacts
    <2> QED
      BY <1>0, <1>1, <1>2, <2>1, ForwardFacts
  <1>4. R1' = Wrap(R1 + 1) /\ R3' = Wrap(R3 + 1) /\ R1' \in Word /\ R3' \in Word
    BY <1>0, <1>1, <1>2, PlusUp, ForwardFacts
  <1>5. CASE R2 = 1
    <2>1. pc' = "done" /\ R0' \in Word /\ R2 - 1 = 0
      BY <1>0, <1>1, <1>5, ForwardFacts
    <2> QED
      BY <1>0, <1>2, <1>3, <1>4, <2>1, ForwardClose
  <1>6. CASE R2 # 1
    <2>1. Left' = R2 - 1 /\ pc' = "bytes" /\ pc' \in Forward /\ R2' > 0
      BY <1>0, <1>1, <1>6, ForwardFacts DEF Left, Forward, Word
    <2>2. R1' = src + (n - (R2 - 1)) /\ R3' = dest + (n - (R2 - 1))
      BY <1>0, <1>4, <1>6, ForwardFacts DEF Wrap
    <2> QED
      BY <1>0, <1>1, <1>2, <1>3, <1>4, <2>1, <2>2, ForwardFacts, ForwardClose
  <1> QED
    BY <1>5, <1>6

\* Counting the words of a forward copy.
LEMMA WordsStep ==
  ASSUME IInv, Words
  PROVE  IInv'
  <1>0. /\ pc = "words" /\ pc \in Forward /\ UNCHANGED <<args, R1, R2, R3, R4, mem>>
        /\ Left = R2 /\ R2 > 0 /\ ~Odd(R1) /\ ~Odd(R3)
        /\ R0' = R2 \div 2 /\ pc' = IF R2 \div 2 = 0 THEN "tail" ELSE "wordLoop"
    BY DEF IInv, ForwardInv, Words, Forward, Left
  <1>1. R0' \in Word /\ R0' \in Nat /\ R2 = (2 * R0') + (R2 % 2)
    BY <1>0, ForwardFacts, Halves
  <1>2. CASE R0' = 0
    <2>1. Left' = R2 /\ pc' = "tail" /\ pc' \in Forward
      BY <1>0, <1>1, <1>2, ForwardFacts DEF Left, Forward, Word
    <2> QED
      BY <1>0, <1>1, <2>1, ForwardFacts, ForwardClose
  <1>3. CASE R0' # 0
    <2>1. Left' = R2 /\ pc' = "wordLoop" /\ pc' \in Forward /\ R0' > 0
      BY <1>0, <1>1, <1>3 DEF Left, Forward
    <2> QED
      BY <1>0, <1>1, <2>1, ForwardFacts, ForwardClose
  <1> QED
    BY <1>2, <1>3

\* A step of the forward word loop.
LEMMA WordLoopStep ==
  ASSUME IInv, WordLoop
  PROVE  IInv'
  <1>0. /\ pc = "wordLoop" /\ pc \in Forward /\ UNCHANGED <<args, R2, R4>>
        /\ Left = (2 * R0) + (R2 % 2) /\ R0 > 0 /\ ~Odd(R1) /\ ~Odd(R3)
        /\ R1' = Plus(R1, 2) /\ R3' = Plus(R3, 2) /\ R0' = R0 - 1
        /\ pc' = IF R0 = 1 THEN "tail" ELSE "wordLoop"
    BY DEF IInv, ForwardInv, WordLoop, Forward, Left
  <1>1. /\ Left \in Nat /\ Left > 1 /\ n - Left \in Nat /\ (n - Left) + 1 < n
        /\ R3 = dest + (n - Left) /\ R1 = src + (n - Left)
        /\ R1 + 2 <= WordMod /\ R3 + 2 <= WordMod
        /\ R0' \in Word /\ Left - 2 \in 0..n /\ n - (Left - 2) = (n - Left) + 2
    BY <1>0, ForwardFacts, WordModType DEF Word
  <1>2. mem' = [mem EXCEPT ![R3] = mem[R1], ![R3 + 1] = mem[R1 + 1]]
    BY <1>0, ForwardFacts, EvenAddress DEF WordLoop, MoveWord
  <1>3. IsCopied(mem', 0, n - (Left - 2))
    <2>1. IsCopied([mem EXCEPT ![dest + (n - Left)] = mem[src + (n - Left)],
                      ![dest + (n - Left) + 1] = mem[src + (n - Left) + 1]], 0, (n - Left) + 2)
      BY <1>0, <1>1, ForwardWord, ForwardFacts
    <2> QED
      BY <1>1, <1>2, <2>1
  <1>4. R1' = Wrap(R1 + 2) /\ R3' = Wrap(R3 + 2) /\ R1' \in Word /\ R3' \in Word
    BY <1>0, <1>1, PlusUp, ForwardFacts
  <1>5. Left' = Left - 2 /\ pc' \in Forward /\ (pc' = "wordLoop" => R0' > 0)
        /\ pc' \notin {"parity", "bytes", "words"}
    BY <1>0, <1>1, ForwardFacts DEF Left, Forward, Word
  <1>6. Left - 2 > 0 => R1' = src + (n - (Left - 2)) /\ R3' = dest + (n - (Left - 2))
    BY <1>0, <1>1, <1>4, ForwardFacts DEF Wrap
  <1>7. ~Odd(R1') /\ ~Odd(R3')
    <2>1. R1 \in Nat /\ R3 \in Nat
      BY <1>0, ForwardFacts DEF Word
    <2> QED
      BY <1>0, <1>4, <2>1, WordModType DEF Odd, Wrap
  <1> HIDE DEF Left
  <1> QED
    BY <1>0, <1>1, <1>3, <1>4, <1>5, <1>6, <1>7, ForwardFacts, ForwardClose

\* The trailing odd byte of a forward copy.
LEMMA TailStep ==
  ASSUME IInv, Tail
  PROVE  IInv'
  <1>0. /\ pc = "tail" /\ pc \in Forward /\ UNCHANGED <<args, R0, R1, R3, R4>>
        /\ Left = R2 % 2 /\ pc' = "done" /\ R2' = R2 % 2
        /\ IF Odd(R2) THEN mem' = [mem EXCEPT ![R3] = mem[R1]] ELSE mem' = mem
    BY DEF Tail, Forward, Left, MoveByte
  <1>1. R2' \in Word /\ n \in Nat
    BY <1>0, ForwardFacts, WordModType DEF Word
  <1>2. IsCopied(mem', 0, n - 0)
    <2>1. CASE Odd(R2)
      <3>1. n - 0 = (n - 1) + 1 /\ n - 1 \in Nat /\ n - 1 < n /\ Left = 1
        BY <1>0, <2>1, ForwardFacts DEF Odd
      <3>2. IsCopied([mem EXCEPT ![dest + (n - 1)] = mem[src + (n - 1)]], 0, (n - 1) + 1)
        BY <1>0, <3>1, ForwardByte, ForwardFacts
      <3>3. R3 = dest + (n - 1) /\ R1 = src + (n - 1) /\ mem' = [mem EXCEPT ![R3] = mem[R1]]
        BY <1>0, <2>1, <3>1, ForwardFacts
      <3> QED
        BY <3>1, <3>2, <3>3
    <2>2. CASE ~Odd(R2)
      <3>1. Left = 0
        BY <1>0, <2>2, ForwardFacts DEF Odd, Word
      <3> QED
        BY <1>0, <2>2, <3>1, ForwardFacts
    <2> QED
      BY <2>1, <2>2
  <1> QED
    BY <1>0, <1>1, <1>2, ForwardFacts, ForwardClose

-----------------------------------------------------------------------------
(* The same, backward                                                      *)

\* What the invariant says of the registers while copying backward.
LEMMA BackwardFacts ==
  ASSUME IInv, pc \in Backward
  PROVE  /\ Left \in 0..n
         /\ R3 = Wrap(dest + Left) /\ R1 = Wrap(src + Left)
         /\ dest \in Nat /\ src \in Nat /\ n \in Nat
         /\ dest + n <= WordMod /\ src + n <= WordMod
         /\ GoesBackward
         /\ IsCopied(mem, Left, n)
         /\ R0 \in Word /\ R1 \in Word /\ R2 \in Word /\ R3 \in Word
  <1>1. TypeOK
    BY DEF IInv
  <1>2. /\ Left \in 0..n
        /\ R3 = Wrap(dest + Left) /\ R1 = Wrap(src + Left)
        /\ GoesBackward
        /\ Copied(mem, Left, n)
    BY DEF IInv, BackwardInv
  <1> QED
    BY <1>1, <1>2, Blocks DEF TypeOK, IsCopied

\* The pointers after going down by k bytes.
LEMMA BackwardPointers ==
  ASSUME IInv, pc \in Backward, NEW k \in 1..Left
  PROVE  /\ Left - k \in 0..n
         /\ Plus(R1, -k) = src + (Left - k) /\ Plus(R1, -k) \in Word
         /\ Plus(R3, -k) = dest + (Left - k) /\ Plus(R3, -k) \in Word
         /\ Plus(R1, -k) = Wrap(src + (Left - k))
         /\ Plus(R3, -k) = Wrap(dest + (Left - k))
  <1>1. /\ src + Left \in 0..WordMod /\ k \in 1..(src + Left)
        /\ dest + Left \in 0..WordMod /\ k \in 1..(dest + Left)
        /\ Left - k \in 0..n
    BY BackwardFacts, WordModType
  <1>2. /\ Plus(Wrap(src + Left), -k) = (src + Left) - k /\ (src + Left) - k \in Word
        /\ Plus(Wrap(dest + Left), -k) = (dest + Left) - k /\ (dest + Left) - k \in Word
    BY <1>1, PlusDown
  <1>3. (src + Left) - k = src + (Left - k) /\ (dest + Left) - k = dest + (Left - k)
    BY <1>1, BackwardFacts
  <1> QED
    BY <1>1, <1>2, <1>3, BackwardFacts, WordModType DEF Wrap, Word

\* A backward step re-establishes the invariant once its parts are known.
LEMMA BackwardClose ==
  ASSUME IInv, pc \in Backward, UNCHANGED <<args, R4>>,
         NEW left \in 0..n, IsCopied(mem', left, n),
         R0' \in Word, R1' \in Word, R2' \in Word, R3' \in Word,
         \/ pc' = "done" /\ left = 0
         \/ /\ pc' \in Backward
            /\ Left' = left
            /\ R3' = Wrap(dest + left) /\ R1' = Wrap(src + left)
            /\ pc' \in {"backParity", "backBytes", "backWords"} => R2' > 0
            /\ pc' \in {"backWords", "backWordLoop"} => ~Odd(R1') /\ ~Odd(R3')
            /\ pc' = "backWordLoop" => R0' > 0
  PROVE  IInv'
  <1>1. \A lo, hi : Copied(mem, lo, hi)' <=> Copied(mem', lo, hi)
    BY DEF args, Copied, SafeDirection, GoesBackward
  <1>2. mem' \in [Addr -> Addr] /\ Copied(mem', left, n)
    BY DEF IsCopied
  <1>3. pc # "entry" /\ pc' \notin Forward /\ pc' \notin {"entry", "returned"}
    BY DEF Forward, Backward
  <1>4. GoesBackward /\ GoesBackward' = GoesBackward /\ Apart' = Apart
    BY BackwardFacts DEF GoesBackward, Apart, args
  <1>5. TypeOK'
    BY <1>2 DEF IInv, TypeOK, args
  <1>6. BackwardInv'
    BY <1>1, <1>2, <1>3, <1>4 DEF BackwardInv, args, Backward, Odd, Wrap
  <1>7. ForwardInv'
    BY <1>3 DEF ForwardInv
  <1>8. pc' = "done" => Copied(mem, 0, n)'
    BY <1>1, <1>2 DEF Backward, args, IInv, TypeOK, Word
  <1> QED
    BY <1>3, <1>4, <1>5, <1>6, <1>7, <1>8 DEF IInv, args

\* One byte down, from any place of the backward copy.
LEMMA BackwardByteMove ==
  ASSUME IInv, pc \in Backward, Left > 0, MoveByte(Plus(R1, -1), Plus(R3, -1))
  PROVE  IsCopied(mem', Left - 1, n)
  <1>1. Left \in 1..n /\ 1 \in 1..Left
    BY BackwardFacts
  <1>2. IsCopied([mem EXCEPT ![dest + (Left - 1)] = mem[src + (Left - 1)]], Left - 1, n)
    BY <1>1, BackwardFacts, BackwardByte
  <1> QED
    BY <1>1, <1>2, BackwardPointers DEF MoveByte

\* The trailing odd byte of a backward copy.
LEMMA BackParityStep ==
  ASSUME IInv, BackParity
  PROVE  IInv'
  <1>0. /\ pc = "backParity" /\ pc \in Backward /\ UNCHANGED <<args, R0, R4>>
        /\ Left = R2 /\ R2 > 0
    BY DEF IInv, BackwardInv, BackParity, Backward, Left
  <1>1. CASE Odd(R3) # Odd(R1)
    <2>1. pc' = "backBytes" /\ UNCHANGED <<R1, R2, R3, mem>>
      BY <1>1 DEF BackParity
    <2>2. Left' = R2 /\ pc' \in Backward
      BY <2>1 DEF Left, Backward
    <2> QED
      BY <1>0, <2>1, <2>2, BackwardFacts, BackwardClose
  <1>2. CASE Odd(R3) = Odd(R1) /\ Odd(R3)
    <2>1. /\ MoveByte(Plus(R1, -1), Plus(R3, -1))
          /\ R1' = Plus(R1, -1) /\ R3' = Plus(R3, -1) /\ R2' = R2 - 1
          /\ pc' = IF R2 = 1 THEN "done" ELSE "backWords"
      BY <1>2 DEF BackParity
    <2>2. IsCopied(mem', R2 - 1, n)
      BY <1>0, <2>1, BackwardByteMove
    <2>3. /\ R1' = Wrap(src + (R2 - 1)) /\ R1' \in Word /\ R1' = src + (R2 - 1)
          /\ R3' = Wrap(dest + (R2 - 1)) /\ R3' \in Word /\ R3' = dest + (R2 - 1)
          /\ R2 - 1 \in 0..n
      <3>1. 1 \in 1..Left
        BY <1>0, BackwardFacts
      <3> QED
        BY <1>0, <2>1, <3>1, BackwardPointers
    <2>4. R2' \in Word
      BY <1>0, <2>1, BackwardFacts, WordModType DEF Word
    <2>5. CASE R2 = 1
      BY <1>0, <2>1, <2>2, <2>3, <2>4, <2>5, BackwardFacts, BackwardClose
    <2>6. CASE R2 # 1
      <3>1. Left' = R2 - 1 /\ pc' = "backWords" /\ pc' \in Backward /\ R2' > 0
        BY <1>0, <2>1, <2>6, BackwardFacts DEF Left, Backward, Word
      <3>2. R1 = Wrap(R1' + 1) /\ R3 = Wrap(R3' + 1)
        BY <1>0, <2>3, BackwardFacts
      <3>3. ~Odd(R1') /\ ~Odd(R3')
        BY <1>2, <2>3, <3>2, WordModType DEF Odd, Wrap, Word
      <3> QED
        BY <1>0, <2>1, <2>2, <2>3, <2>4, <3>1, <3>3, BackwardFacts, BackwardClose
    <2> QED
      BY <2>5, <2>6
  <1>3. CASE Odd(R3) = Odd(R1) /\ ~Odd(R3)
    <2>1. pc' = "backWords" /\ UNCHANGED <<R1, R2, R3, mem>>
      BY <1>3 DEF BackParity
    <2>2. Left' = R2 /\ pc' \in Backward
      BY <2>1 DEF Left, Backward
    <2> QED
      BY <1>0, <1>3, <2>1, <2>2, BackwardFacts, BackwardClose
  <1> QED
    BY <1>1, <1>2, <1>3

\* A step of the backward byte loop.
LEMMA BackBytesStep ==
  ASSUME IInv, BackBytes
  PROVE  IInv'
  <1>0. /\ pc = "backBytes" /\ pc \in Backward /\ UNCHANGED <<args, R0, R4>>
        /\ Left = R2 /\ R2 > 0
        /\ MoveByte(Plus(R1, -1), Plus(R3, -1))
        /\ R1' = Plus(R1, -1) /\ R3' = Plus(R3, -1) /\ R2' = R2 - 1
        /\ pc' = IF R2 = 1 THEN "done" ELSE "backBytes"
    BY DEF IInv, BackwardInv, BackBytes, Backward, Left
  <1>1. IsCopied(mem', R2 - 1, n)
    BY <1>0, BackwardByteMove
  <1>2. /\ R1' = Wrap(src + (R2 - 1)) /\ R1' \in Word
        /\ R3' = Wrap(dest + (R2 - 1)) /\ R3' \in Word
        /\ R2 - 1 \in 0..n
    <2>1. 1 \in 1..Left
      BY <1>0, BackwardFacts
    <2> QED
      BY <1>0, <2>1, BackwardPointers
  <1>3. R2' \in Word
    BY <1>0, BackwardFacts, WordModType DEF Word
  <1>4. CASE R2 = 1
    BY <1>0, <1>1, <1>2, <1>3, <1>4, BackwardFacts, BackwardClose
  <1>5. CASE R2 # 1
    <2>1. Left' = R2 - 1 /\ pc' = "backBytes" /\ pc' \in Backward /\ R2' > 0
      BY <1>0, <1>5, BackwardFacts DEF Left, Backward, Word
    <2> QED
      BY <1>0, <1>1, <1>2, <1>3, <2>1, BackwardFacts, BackwardClose
  <1> QED
    BY <1>4, <1>5

\* Counting the words of a backward copy.
LEMMA BackWordsStep ==
  ASSUME IInv, BackWords
  PROVE  IInv'
  <1>0. /\ pc = "backWords" /\ pc \in Backward /\ UNCHANGED <<args, R1, R2, R3, R4, mem>>
        /\ Left = R2 /\ R2 > 0 /\ ~Odd(R1) /\ ~Odd(R3)
        /\ R0' = R2 \div 2
        /\ pc' = IF R2 \div 2 = 0 THEN "backTail" ELSE "backWordLoop"
    BY DEF IInv, BackwardInv, BackWords, Backward, Left
  <1>1. R0' \in Word /\ R0' \in Nat /\ R2 = (2 * R0') + (R2 % 2)
    BY <1>0, BackwardFacts, Halves
  <1>2. CASE R0' = 0
    <2>1. Left' = R2 /\ pc' = "backTail" /\ pc' \in Backward
      BY <1>0, <1>1, <1>2, BackwardFacts DEF Left, Backward, Word
    <2> QED
      BY <1>0, <1>1, <2>1, BackwardFacts, BackwardClose
  <1>3. CASE R0' # 0
    <2>1. Left' = R2 /\ pc' = "backWordLoop" /\ pc' \in Backward /\ R0' > 0
      BY <1>0, <1>1, <1>3 DEF Left, Backward
    <2> QED
      BY <1>0, <1>1, <2>1, BackwardFacts, BackwardClose
  <1> QED
    BY <1>2, <1>3

\* A step of the backward word loop.
LEMMA BackWordLoopStep ==
  ASSUME IInv, BackWordLoop
  PROVE  IInv'
  <1>0. /\ pc = "backWordLoop" /\ pc \in Backward /\ UNCHANGED <<args, R2, R4>>
        /\ Left = (2 * R0) + (R2 % 2) /\ R0 > 0 /\ ~Odd(R1) /\ ~Odd(R3)
        /\ MoveWord(Plus(R1, -2), Plus(R3, -2))
        /\ R1' = Plus(R1, -2) /\ R3' = Plus(R3, -2) /\ R0' = R0 - 1
        /\ pc' = IF R0 = 1 THEN "backTail" ELSE "backWordLoop"
    BY DEF IInv, BackwardInv, BackWordLoop, Backward, Left
  <1>1. Left \in 2..n /\ 2 \in 1..Left /\ R0' \in Word
    BY <1>0, BackwardFacts, WordModType DEF Word
  <1>2. /\ R1' = Wrap(src + (Left - 2)) /\ R1' \in Word /\ R1' = src + (Left - 2)
        /\ R3' = Wrap(dest + (Left - 2)) /\ R3' \in Word /\ R3' = dest + (Left - 2)
        /\ Left - 2 \in 0..n
    BY <1>0, <1>1, BackwardPointers
  <1>3. ~Odd(R1') /\ ~Odd(R3')
    <2>1. R1 = Wrap(R1' + 2) /\ R3 = Wrap(R3' + 2)
      BY <1>0, <1>1, <1>2, BackwardFacts
    <2> QED
      BY <1>0, <1>2, <2>1, WordModType DEF Odd, Wrap, Word
  <1>4. IsCopied(mem', Left - 2, n)
    <2>1. mem' = [mem EXCEPT ![R3'] = mem[R1'], ![R3' + 1] = mem[R1' + 1]]
      <3>1. Even(R1') = R1' /\ Even(R3') = R3'
        BY <1>2, <1>3, EvenAddress
      <3> QED
        BY <1>0, <3>1 DEF MoveWord
    <2>2. IsCopied([mem EXCEPT ![dest + (Left - 2)] = mem[src + (Left - 2)],
                      ![dest + (Left - 2) + 1] = mem[src + (Left - 2) + 1]], Left - 2, n)
      BY <1>0, <1>1, <1>2, <1>3, BackwardFacts, BackwardWord
    <2> QED
      BY <1>2, <2>1, <2>2
  <1>5. Left' = Left - 2 /\ pc' \in Backward /\ (pc' = "backWordLoop" => R0' > 0)
        /\ pc' \in {"backTail", "backWordLoop"}
    BY <1>0, <1>1, BackwardFacts DEF Left, Backward, Word
  <1> QED
    BY <1>0, <1>1, <1>2, <1>3, <1>4, <1>5, BackwardFacts, BackwardClose

\* The leading odd byte of a backward copy.
LEMMA BackTailStep ==
  ASSUME IInv, BackTail
  PROVE  IInv'
  <1>0. /\ pc = "backTail" /\ pc \in Backward /\ UNCHANGED <<args, R0, R4>>
        /\ Left = R2 % 2 /\ pc' = "done" /\ R2' = R2 % 2
    BY DEF BackTail, Backward, Left
  <1>1. R2' \in Word /\ 0 \in 0..n
    BY <1>0, BackwardFacts, WordModType DEF Word
  <1>2. CASE Odd(R2)
    <2>1. Left = 1 /\ 1 \in 1..Left
      BY <1>0, <1>2, BackwardFacts DEF Odd
    <2>2. IsCopied(mem', 0, n)
      BY <1>0, <1>2, <2>1, BackwardByteMove DEF BackTail
    <2>3. R1' \in Word /\ R3' \in Word
      BY <1>0, <1>2, <2>1, BackwardPointers DEF BackTail
    <2> QED
      BY <1>0, <1>1, <2>2, <2>3, BackwardFacts, BackwardClose
  <1>3. CASE ~Odd(R2)
    <2>1. Left = 0
      BY <1>0, <1>3, BackwardFacts DEF Odd, Word
    <2>2. IsCopied(mem', 0, n) /\ R1' = R1 /\ R3' = R3
      BY <1>0, <1>3, <2>1, BackwardFacts DEF BackTail
    <2> QED
      BY <1>0, <1>1, <2>2, BackwardFacts, BackwardClose
  <1> QED
    BY <1>2, <1>3

\* Returning hands back the destination saved at entry.
LEMMA ReturnStep ==
  ASSUME IInv, Return
  PROVE  IInv'
  <1>1. TypeOK'
    BY DEF Return, IInv, TypeOK, args, Forward, Backward
  <1>2. (Copied(mem, 0, n)' <=> Copied(mem, 0, n)) /\ Apart' = Apart
    BY DEF Return, args, Copied, SafeDirection, GoesBackward, Apart
  <1> QED
    BY <1>1, <1>2 DEF Return, IInv, args, ForwardInv, BackwardInv, Forward, Backward

-----------------------------------------------------------------------------
(* The theorems                                                            *)

\* Every step of memcpy and memmove preserves the invariant.
LEMMA NextIInv == IInv /\ [Next]_vars => IInv'
  <1> SUFFICES ASSUME IInv, [Next]_vars PROVE IInv'
    OBVIOUS
  <1>1. CASE Entry
    BY <1>1, EntryStep
  <1>2. CASE Parity \/ Words \/ WordLoop \/ Tail \/ Bytes
    BY <1>2, ParityStep, WordsStep, WordLoopStep, TailStep, BytesStep
  <1>3. CASE BackParity \/ BackWords \/ BackWordLoop \/ BackTail \/ BackBytes
    BY <1>3, BackParityStep, BackWordsStep, BackWordLoopStep, BackTailStep,
       BackBytesStep
  <1>4. CASE Return
    BY <1>4, ReturnStep
  <1>5. CASE UNCHANGED vars
    <2>1. /\ TypeOK' /\ Left' = Left /\ Apart' = Apart /\ GoesBackward' = GoesBackward
          /\ \A lo, hi : Copied(mem, lo, hi)' <=> Copied(mem, lo, hi)
      BY <1>5 DEF vars, args, IInv, TypeOK, Left, Copied, SafeDirection, GoesBackward, Apart
    <2> QED
      BY <1>5, <2>1 DEF vars, args, IInv, ForwardInv, BackwardInv, Odd, Wrap
  <1> QED
    BY <1>1, <1>2, <1>3, <1>4, <1>5 DEF Next, Returned

\* The invariant of the copy loops, whichever way the assembler compares.
THEOREM Invariance == Spec => []IInv
  BY InitIInv, NextIInv, PTL DEF Spec

\* Type correctness: no pointer or counter leaves its word.
THEOREM TypeCorrect == Spec => []TypeOK
  <1>1. IInv => TypeOK
    BY DEF IInv
  <1> QED
    BY <1>1, Invariance, PTL

\* Outside the part of the destination that is copied, memory is as it was.
LEMMA CopiedOutside ==
  ASSUME IInv, NEW lo \in 0..n, NEW hi \in 0..n, Copied(mem, lo, hi),
         NEW a \in Addr, ~(dest <= a /\ a < dest + n)
  PROVE  mem[a] = a
  BY WordModType DEF IInv, TypeOK, Copied, Addr, Word

\* memcpy and memmove return the destination.  It holds the source's old contents,
\* for every length and alignment, if the blocks do not overlap or memmove goes
\* the safe way.
THEOREM CopyIsCorrect == Spec => []CopyCorrect
  <1>1. IInv => CopyCorrect
    <2> SUFFICES ASSUME IInv, pc = "returned" PROVE
                 /\ Apart \/ SafeDirection => \A i \in 0..(n - 1) : mem[dest + i] = src + i
                 /\ R0 = dest
      BY DEF CopyCorrect
    <2>1. /\ Copied(mem, 0, n) /\ R0 = dest /\ dest \in Nat /\ n \in Nat /\ src \in Nat
          /\ 0 \in 0..n /\ n \in 0..n
          /\ \A i \in 0..(n - 1) : dest + i \in Addr /\ src + i \in Addr
      BY WordModType DEF IInv, TypeOK, Addr, Word
    <2>2. ASSUME Apart \/ SafeDirection, NEW i \in 0..(n - 1)
          PROVE  mem[dest + i] = src + i
      <3>1. mem[dest + i] = IF SafeDirection THEN src + i ELSE mem[src + i]
        <4>1. dest + 0 <= dest + i /\ dest + i < dest + n /\ src + ((dest + i) - dest) = src + i
          BY <2>1
        <4> QED
          BY <2>1, <4>1 DEF Copied
      <3>2. Apart => mem[src + i] = src + i
        <4>1. Apart => ~(dest <= src + i /\ src + i < dest + n)
          BY <2>1 DEF Apart
        <4> QED
          BY <2>1, <4>1, CopiedOutside
      <3> QED
        BY <2>2, <3>1, <3>2
    <2> QED
      BY <2>1, <2>2
  <1> QED
    BY <1>1, Invariance, PTL

\* With the comparison memmove.S is written for, memmove always goes the safe way
\* and is overlap-safe: the direction is all that is wrong with it under the other.
THEOREM SafeIfSourceFirst == ASSUME DestFirst = FALSE PROVE Spec => []OverlapSafe
  <1>1. IInv /\ CopyCorrect => OverlapSafe
    <2> SUFFICES ASSUME IInv, CopyCorrect PROVE OverlapSafe
      OBVIOUS
    <2>1. Apart \/ SafeDirection
      BY DEF IInv, TypeOK, SafeDirection, GoesBackward, JL, LogicallyGreater, Addr, Word
    <2> QED
      BY <2>1 DEF CopyCorrect, OverlapSafe
  <1> QED
    BY <1>1, Invariance, CopyIsCorrect, PTL

\* At no time is a byte outside the destination changed, whichever way memmove goes.
THEOREM NoStrayWrite == Spec => []WritesStayInside
  <1>1. IInv => WritesStayInside
    <2> SUFFICES ASSUME IInv, NEW a \in Addr, mem[a] # a
                 PROVE  dest <= a /\ a < dest + n
      BY DEF WritesStayInside
    <2>1. \E lo, hi \in 0..n : Copied(mem, lo, hi)
      <3>1. pc \in Forward => Left \in 0..n /\ Copied(mem, 0, n - Left)
        BY DEF IInv, ForwardInv
      <3>2. pc \in Backward => Left \in 0..n /\ Copied(mem, Left, n)
        BY DEF IInv, BackwardInv
      <3>3. pc \notin Forward \cup Backward => Copied(mem, 0, 0) \/ Copied(mem, 0, n)
        BY DEF IInv, TypeOK
      <3> HIDE DEF Left, Copied
      <3>4. n \in Nat /\ 0 \in 0..n /\ n \in 0..n
        BY WordModType DEF IInv, TypeOK, Word
      <3>5. Left \in 0..n => n - Left \in 0..n
        BY <3>4
      <3> QED
        BY <3>1, <3>2, <3>3, <3>4, <3>5
    <2> QED
      BY <2>1, CopiedOutside
  <1> QED
    BY <1>1, Invariance, PTL
=============================================================================
