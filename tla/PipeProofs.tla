----------------------------- MODULE PipeProofs -----------------------------
(***************************************************************************)
(* pipe.c for any ring size, any width of its counters that the ring size  *)
(* divides, and any readers, writers and requests: whoever sleeps has a    *)
(* cause, the page is freed unused, and the ring is a queue of bytes.      *)
(***************************************************************************)
EXTENDS Pipe, TLAPS

\* An end that somebody holds is open, and only holders are inside a call.
EndsOpen ==
  /\ holders \cap Readers # {} => readopen
  /\ holders \cap Writers # {} => writeopen
  /\ freed => ~readopen /\ ~writeopen
  /\ \A p \in Procs : pc[p] # "user" => p \in holders

\* A process about to sleep still has the cause that it found.
DozersHaveCause ==
  /\ \A w \in Writers : pc[w] = "dozing" => Avail = PipeSize /\ readopen /\ todo[w] # <<>>
  /\ \A r \in Readers : pc[r] = "dozing" => Avail = 0 /\ writeopen

IInv == SleepersHaveCause /\ DozersHaveCause /\ EndsOpen /\ Avail <= PipeSize

-----------------------------------------------------------------------------
(* Arithmetic of counters that wrap *)

LEMMA ModRange ==
  ASSUME NEW a \in Int, NEW m \in Nat \ {0}
  PROVE  a % m \in 0..(m - 1)
OBVIOUS

LEMMA ModSmall ==
  ASSUME NEW m \in Nat \ {0}, NEW r \in 0..(m - 1)
  PROVE  r % m = r
OBVIOUS

LEMMA ModUnique ==
  ASSUME NEW q \in Int, NEW m \in Nat \ {0}, NEW r \in 0..(m - 1)
  PROVE  (q * m + r) % m = r
OBVIOUS

LEMMA ModQuotient ==
  ASSUME NEW a \in Int, NEW m \in Nat \ {0}
  PROVE  \E q \in Int, r \in 0..(m - 1) : a = q * m + r /\ a % m = r
<1>1. a % m \in 0..(m - 1)
  BY ModRange
<1>2. a \div m \in Int
  OBVIOUS
<1>3. PICK r \in 0..(m - 1) : a % m = r
  BY <1>1
<1>4. PICK q \in Int : a \div m = q
  BY <1>2
<1>5. a % m = a - m * (a \div m)
  OBVIOUS
<1>6. r = a - m * q
  BY <1>3, <1>4, <1>5
<1>7. a = q * m + r
  BY <1>6
<1> QED BY <1>3, <1>7

(* Numbers that differ by a multiple of m have the same remainder. *)
LEMMA ModShift ==
  ASSUME NEW a \in Int, NEW k \in Int, NEW m \in Nat \ {0}
  PROVE  (a + k * m) % m = a % m
<1>1. PICK q \in Int, r \in 0..(m - 1) : a = q * m + r /\ a % m = r
  BY ModQuotient
<1>2. a + k * m = (q + k) * m + r /\ q + k \in Int
  BY <1>1
<1>3. ((q + k) * m + r) % m = r
  BY <1>2, ModUnique
<1> QED BY <1>1, <1>2, <1>3

(* Numbers with the same remainder that are less than m apart are equal. *)
LEMMA ModInjective ==
  ASSUME NEW a \in Int, NEW b \in Int, NEW m \in Nat \ {0},
         a % m = b % m, a - b < m, b - a < m
  PROVE  a = b
<1>1. PICK q \in Int, r \in 0..(m - 1) : a = q * m + r /\ a % m = r
  BY ModQuotient, ZenonT(30)
<1>2. PICK t \in Int, u \in 0..(m - 1) : b = t * m + u /\ b % m = u
  BY ModQuotient, ZenonT(30)
<1>3. r = u
  BY <1>1, <1>2
<1>4. PICK d \in Int : d = q - t
  OBVIOUS
<1>5. a - b = d * m
  BY <1>1, <1>2, <1>3, <1>4
<1>6. d * m < m /\ -m < d * m
  BY <1>5
<1>7. d = 0
  BY <1>6
<1> QED BY <1>5, <1>7

(* Reducing a summand first does not change the remainder of a sum. *)
LEMMA ModPlus ==
  ASSUME NEW a \in Int, NEW b \in Int, NEW m \in Nat \ {0}
  PROVE  ((a % m) + b) % m = (a + b) % m
<1>1. PICK q \in Int, r \in 0..(m - 1) : a = q * m + r /\ a % m = r
  BY ModQuotient
<1>2. a + b = (r + b) + q * m /\ r + b \in Int
  BY <1>1
<1>3. ((r + b) + q * m) % m = (r + b) % m
  BY <1>2, ModShift, ZenonT(30)
<1> QED BY <1>1, <1>2, <1>3

LEMMA MinPair ==
  ASSUME NEW a \in Int, NEW b \in Int
  PROVE  Min({a, b}) = IF a <= b THEN a ELSE b
<1> DEFINE m == IF a <= b THEN a ELSE b
<1>1. m \in {a, b} /\ \A y \in {a, b} : m <= y
  OBVIOUS
<1>2. \A x \in {a, b} : (\A y \in {a, b} : x <= y) => x = m
  OBVIOUS
<1> HIDE DEF m
<1>3. (CHOOSE x \in {a, b} : \A y \in {a, b} : x <= y) = m
  BY <1>1, <1>2
<1>4. Min({a, b}) = m
  BY <1>3 DEF Min
<1> QED BY <1>4 DEF m

(* Reducing a subtrahend first does not change the remainder of a difference. *)
LEMMA ModMinus ==
  ASSUME NEW a \in Int, NEW b \in Int, NEW m \in Nat \ {0}
  PROVE  (a - (b % m)) % m = (a - b) % m
<1>1. PICK q \in Int, r \in 0..(m - 1) : b = q * m + r /\ b % m = r
  BY ModQuotient, ZenonT(30)
<1>2. a - r = (a - b) + q * m /\ a - b \in Int
  BY <1>1
<1>3. ((a - b) + q * m) % m = (a - b) % m
  BY <1>2, ModShift, ZenonT(30)
<1> QED BY <1>1, <1>2, <1>3

LEMMA WordZero ==
  ASSUME NEW m \in Nat \ {0}, NEW a \in 0..(m - 1), NEW b \in 0..(m - 1)
  PROVE  (a - b) % m = 0 <=> a = b
<1>1. 0 % m = 0
  BY ModSmall
<1>2. ASSUME (a - b) % m = 0
      PROVE  a = b
  <2>1. PICK d \in Int : d = a - b
    OBVIOUS
  <2>2. d % m = 0 % m /\ d - 0 < m /\ 0 - d < m
    BY <1>1, <1>2, <2>1
  <2>3. d = 0
    BY <2>2, ModInjective
  <2> QED BY <2>1, <2>3
<1>3. ASSUME a = b
      PROVE  (a - b) % m = 0
  <2>1. a - b = 0
    BY <1>3
  <2> QED BY <2>1, <1>1
<1> QED BY <1>2, <1>3

-----------------------------------------------------------------------------
(* The ring *)

LEMMA ConstantTypes ==
  PipeSize \in Nat \ {0} /\ Word \in Nat \ {0} /\ Word % PipeSize = 0 /\ PipeSize < Word
<1>1. PipeSize \in Nat \ {0} /\ Word \in Nat /\ Word % PipeSize = 0 /\ Word > PipeSize
  BY PipeAssumption
<1> QED BY <1>1

(* nwrite - nread as an unsigned word counts the bytes in the ring: stores *)
(* add to it and reads take from it, wherever the counters wrap.           *)
Gap(a, b) == (a - b) % Word
Step(a, k) == (a + k) % Word

LEMMA WordMore ==
  ASSUME NEW a \in Int, NEW b \in Int, NEW k \in Nat, Gap(a, b) + k < Word
  PROVE  Gap(Step(a, k), b) = Gap(a, b) + k
<1>1. PICK d \in Int, s \in Int, n \in Int : d = a - b /\ s = a + k /\ n = -b
  OBVIOUS
<1>2. PICK c \in 0..(Word - 1) : c = d % Word
  BY ConstantTypes, ModRange, ZenonT(30)
<1>3. PICK e \in 0..(Word - 1) : e = s % Word
  BY ConstantTypes, ModRange, ZenonT(30)
<1>4. (e + n) % Word = (s + n) % Word
  BY <1>3, ConstantTypes, ModPlus, ZenonT(30)
<1>5. (c + k) % Word = (d + k) % Word
  <2>1. k \in Int
    OBVIOUS
  <2> QED BY <1>2, <2>1, ConstantTypes, ModPlus, ZenonT(30)
<1>6. s + n = d + k /\ e + n = e - b
  BY <1>1, ConstantTypes
<1>7. (c + k) % Word = c + k
  <2>1. c + k \in 0..(Word - 1)
    BY <1>1, <1>2, ConstantTypes DEF Gap
  <2> QED BY <2>1, ConstantTypes, ModSmall
<1>8. (e - b) % Word = c + k
  BY <1>4, <1>5, <1>6, <1>7
<1> QED BY <1>1, <1>2, <1>3, <1>8 DEF Gap, Step

LEMMA WordLess ==
  ASSUME NEW a \in Int, NEW b \in Int, NEW k \in Nat, k <= Gap(a, b)
  PROVE  Gap(a, Step(b, k)) = Gap(a, b) - k
<1>1. PICK d \in Int, s \in Int, n \in Int : d = a - b /\ s = b + k /\ n = -k
  OBVIOUS
<1>2. PICK c \in 0..(Word - 1) : c = d % Word
  BY ConstantTypes, ModRange, ZenonT(30)
<1>3. PICK e \in 0..(Word - 1) : e = s % Word
  BY ConstantTypes, ModRange, ZenonT(30)
<1>4. (a - e) % Word = (a - s) % Word
  BY <1>3, ConstantTypes, ModMinus, ZenonT(30)
<1>5. (c + n) % Word = (d + n) % Word
  BY <1>2, ConstantTypes, ModPlus, ZenonT(30)
<1>6. a - s = d + n /\ c + n = c - k
  BY <1>1, ConstantTypes
<1>7. (c - k) % Word = c - k
  <2>1. c - k \in 0..(Word - 1)
    BY <1>1, <1>2, ConstantTypes DEF Gap
  <2> QED BY <2>1, ConstantTypes, ModSmall
<1>8. (a - e) % Word = c - k
  BY <1>4, <1>5, <1>6, <1>7
<1> QED BY <1>1, <1>2, <1>3, <1>8 DEF Gap, Step

LEMMA AvailType ==
  ASSUME PipeTypeOK
  PROVE  Avail \in Nat /\ Avail < Word /\ (Avail = 0 <=> nread = nwrite)
<1>1. nread \in 0..(Word - 1) /\ nwrite \in 0..(Word - 1)
  BY DEF PipeTypeOK
<1>2. nwrite - nread \in Int
  BY <1>1, ConstantTypes
<1>3. Avail \in 0..(Word - 1)
  BY <1>2, ConstantTypes, ModRange, ZenonT(30) DEF Avail
<1>4. Avail = 0 <=> nwrite = nread
  BY <1>1, ConstantTypes, WordZero DEF Avail
<1> QED BY <1>3, <1>4, ConstantTypes

(* A counter that has wrapped points to the slot of the unwrapped one. *)
LEMMA WordSlot ==
  ASSUME NEW a \in Int, NEW j \in Int
  PROVE  ((a % Word) + j) % PipeSize = (a + j) % PipeSize
<1>1. PICK q \in Int, r \in 0..(Word - 1) : a = q * Word + r /\ a % Word = r
  BY ConstantTypes, ModQuotient
<1>2. PICK c \in Int, z \in 0..(PipeSize - 1) : Word = c * PipeSize + z /\ Word % PipeSize = z
  BY ConstantTypes, ModQuotient
<1>3. Word = c * PipeSize
  BY <1>2, ConstantTypes
<1>4. PICK t \in Int, u \in Int : t = q * c /\ u = r + j
  BY ConstantTypes
<1>5. a + j = u + t * PipeSize
  BY <1>1, <1>3, <1>4, ConstantTypes
<1>6. (u + t * PipeSize) % PipeSize = u % PipeSize
  BY ConstantTypes, ModShift, ZenonT(30)
<1> QED BY <1>1, <1>4, <1>5, <1>6

(* The slot after the last byte of the queue is the one nwrite points to. *)
LEMMA WriteSlot ==
  ASSUME PipeTypeOK, NEW i \in Int
  PROVE  (nread + (Avail + i) - 1) % PipeSize = (nwrite + i - 1) % PipeSize
<1>1. nread \in Int /\ nwrite \in Int /\ Avail \in Int
  BY AvailType, ConstantTypes DEF PipeTypeOK
<1>2. nwrite - nread \in Int /\ nread + i - 1 \in Int
  BY <1>1
<1>3. (((nwrite - nread) % Word) + (nread + i - 1)) % PipeSize
        = ((nwrite - nread) + (nread + i - 1)) % PipeSize
  BY <1>2, WordSlot
<1>4. (Avail + (nread + i - 1)) % PipeSize = ((nwrite - nread) + (nread + i - 1)) % PipeSize
  BY <1>3 DEF Avail
<1>5. Avail + (nread + i - 1) = nread + (Avail + i) - 1
      /\ (nwrite - nread) + (nread + i - 1) = nwrite + i - 1
  BY <1>1
<1> QED BY <1>4, <1>5

LEMMA SlotRange ==
  ASSUME NEW n \in Int, NEW i \in Int
  PROVE  (n + i - 1) % PipeSize \in 0..(PipeSize - 1)
<1>1. n + i - 1 \in Int
  OBVIOUS
<1> QED BY <1>1, ConstantTypes, ModRange

(* Slots less than PipeSize apart are different slots. *)
LEMMA SlotInjective ==
  ASSUME NEW n \in Int, NEW i \in Int, NEW j \in Int,
         i - j < PipeSize, j - i < PipeSize,
         (n + i - 1) % PipeSize = (n + j - 1) % PipeSize
  PROVE  i = j
<1>1. PICK a \in Int : a = n + i - 1
  OBVIOUS
<1>2. PICK b \in Int : b = n + j - 1
  OBVIOUS
<1>3. a - b < PipeSize /\ b - a < PipeSize
  BY <1>1, <1>2, ConstantTypes
<1>4. a % PipeSize = b % PipeSize
  BY <1>1, <1>2
<1>5. a = b
  BY <1>3, <1>4, ConstantTypes, ModInjective, ZenonT(30)
<1> QED BY <1>1, <1>2, <1>5

(* Storing k bytes that fit fills the k slots from nwrite with them and    *)
(* leaves the bytes in the queue alone.                                    *)
LEMMA StoredBytes ==
  ASSUME PipeTypeOK, NEW s \in Seq(Byte), NEW k \in 0..Len(s), Avail + k <= PipeSize
  PROVE  /\ Stored(s, k) \in [0..(PipeSize - 1) -> Byte]
         /\ \A i \in 1..k : Stored(s, k)[(nwrite + i - 1) % PipeSize] = s[i]
         /\ \A i \in 1..Avail :
              Stored(s, k)[(nread + i - 1) % PipeSize] = data[(nread + i - 1) % PipeSize]
<1>1. nread \in Int /\ nwrite \in Int /\ Avail \in Nat
  BY AvailType, ConstantTypes DEF PipeTypeOK
<1>2. data \in [0..(PipeSize - 1) -> Byte] /\ DOMAIN data = 0..(PipeSize - 1)
  BY DEF PipeTypeOK
<1>3. k \in Nat /\ k <= Len(s) /\ 1..k \subseteq 1..Len(s) /\ k <= PipeSize
  BY <1>1, ConstantTypes
<1>4. Stored(s, k) \in [0..(PipeSize - 1) -> Byte]
  <2>1. \A i \in 1..k : s[i] \in Byte
    BY <1>3
  <2>2. ASSUME NEW j \in 0..(PipeSize - 1), \E i \in 1..k : (nwrite + i - 1) % PipeSize = j
        PROVE  s[CHOOSE i \in 1..k : (nwrite + i - 1) % PipeSize = j] \in Byte
    <3>1. (CHOOSE i \in 1..k : (nwrite + i - 1) % PipeSize = j) \in 1..k
      BY <2>2, ZenonT(30)
    <3> QED BY <2>1, <3>1
  <2>3. \A j \in 0..(PipeSize - 1) : data[j] \in Byte
    BY <1>2
  <2> QED BY <1>2, <2>2, <2>3, ZenonT(30) DEF Stored
<1>5. ASSUME NEW i \in 1..k
      PROVE  Stored(s, k)[(nwrite + i - 1) % PipeSize] = s[i]
  <2>1. PICK j \in 0..(PipeSize - 1) : (nwrite + i - 1) % PipeSize = j
    <3>1. i \in Int
      BY <1>1, <1>3
    <3>2. (nwrite + i - 1) % PipeSize \in 0..(PipeSize - 1)
      BY <1>1, <3>1, SlotRange, ZenonT(30)
    <3> QED BY <3>2
  <2>2. ASSUME NEW x \in 1..k, (nwrite + x - 1) % PipeSize = j
        PROVE  x = i
    <3>1. x \in Int /\ i \in Int /\ x - i < PipeSize /\ i - x < PipeSize
      BY <1>3, ConstantTypes
    <3> QED BY <1>1, <2>1, <2>2, <3>1, SlotInjective
  <2>3. (CHOOSE x \in 1..k : (nwrite + x - 1) % PipeSize = j) = i
    BY <2>1, <2>2
  <2>4. Stored(s, k)[j] = s[CHOOSE x \in 1..k : (nwrite + x - 1) % PipeSize = j]
    BY <1>2, <2>1 DEF Stored
  <2> QED BY <2>1, <2>3, <2>4, ZenonT(30)
<1>6. ASSUME NEW i \in 1..Avail
      PROVE  Stored(s, k)[(nread + i - 1) % PipeSize] = data[(nread + i - 1) % PipeSize]
  <2>1. PICK j \in 0..(PipeSize - 1) : (nread + i - 1) % PipeSize = j
    <3>1. i \in Int
      BY <1>1, <1>3
    <3>2. (nread + i - 1) % PipeSize \in 0..(PipeSize - 1)
      BY <1>1, <3>1, SlotRange, ZenonT(30)
    <3> QED BY <3>2
  <2>2. ASSUME NEW x \in 1..k, (nwrite + x - 1) % PipeSize = j
        PROVE  FALSE
    <3>1. x \in Int /\ i \in Int /\ Avail + x \in Int
      BY <1>1, <1>3
    <3>2. (nread + (Avail + x) - 1) % PipeSize = j
      BY <2>2, <3>1, WriteSlot
    <3>3. (Avail + x) - i < PipeSize /\ i - (Avail + x) < PipeSize /\ Avail + x # i
      BY <1>1, <1>3, ConstantTypes
    <3> QED BY <1>1, <2>1, <3>1, <3>2, <3>3, SlotInjective, ZenonT(30)
  <2>3. Stored(s, k)[j] = data[j]
    BY <1>2, <2>1, <2>2 DEF Stored
  <2> QED BY <2>1, <2>3
<1> QED BY <1>4, <1>5, <1>6

-----------------------------------------------------------------------------
(* What the two system calls do to the counters *)

\* pipewrite stores k bytes: all of the request, or all that fit.
WriteEffect(w, k) ==
  LET fail == k # Len(todo[w]) /\ (~readopen \/ killed[w]) IN
  /\ Avail' = Avail + k /\ Avail' <= PipeSize
  /\ k # Len(todo[w]) => Avail' = PipeSize
  /\ data' = Stored(todo[w], k)
  /\ nwrite' \in 0..(Word - 1) /\ nread' = nread
  /\ todo' = [todo EXCEPT ![w] = IF fail THEN <<>> ELSE SubSeq(todo[w], k + 1, Len(todo[w]))]
  /\ pc' = IF fail THEN [pc EXCEPT ![w] = "user"]
           ELSE Wake(Readers, w, IF k = Len(todo[w]) THEN "user" ELSE "dozing")
  /\ stranded' = IF fail THEN stranded \/ k > 0 ELSE FALSE

LEMMA WriteStores ==
  ASSUME PipeTypeOK, Avail <= PipeSize, NEW w \in Writers, pipewrite(w)
  PROVE  \E k \in 0..Len(todo[w]) : WriteEffect(w, k)
<1>1. todo[w] \in Seq(Byte) /\ Len(todo[w]) \in Nat
  BY DEF PipeTypeOK
<1>2. Avail \in Nat /\ nread \in Int /\ nwrite \in Int
  BY AvailType, ConstantTypes DEF PipeTypeOK
<1>3. Space \in Nat /\ Avail + Space = PipeSize
  BY <1>2, ConstantTypes DEF Space
<1> DEFINE k == Min({Len(todo[w]), Space})
<1>4. k = IF Len(todo[w]) <= Space THEN Len(todo[w]) ELSE Space
  BY <1>1, <1>3, MinPair
<1>5. /\ data' = Stored(todo[w], k)
      /\ nwrite' = (nwrite + k) % Word
      /\ nread' = nread
  BY DEF pipewrite
<1>6. /\ todo' = [todo EXCEPT ![w] = IF k # Len(todo[w]) /\ (~readopen \/ killed[w])
                                     THEN <<>> ELSE SubSeq(todo[w], k + 1, Len(todo[w]))]
      /\ pc' = IF k # Len(todo[w]) /\ (~readopen \/ killed[w]) THEN [pc EXCEPT ![w] = "user"]
               ELSE Wake(Readers, w, IF k = Len(todo[w]) THEN "user" ELSE "dozing")
      /\ stranded' = IF k # Len(todo[w]) /\ (~readopen \/ killed[w])
                     THEN stranded \/ k > 0 ELSE FALSE
  BY DEF pipewrite
<1> HIDE DEF k
<1>7. k \in 0..Len(todo[w]) /\ k \in Nat /\ Avail + k <= PipeSize
      /\ (k # Len(todo[w]) => Avail + k = PipeSize)
  BY <1>1, <1>2, <1>3, <1>4, ConstantTypes
<1>8. nwrite' \in 0..(Word - 1) /\ nwrite' \in Int
  <2>1. nwrite + k \in Int
    BY <1>2, <1>7
  <2>2. (nwrite + k) % Word \in 0..(Word - 1)
    BY <2>1, ConstantTypes, ModRange, ZenonT(30)
  <2> QED BY <1>5, <2>2, ConstantTypes
<1>9. Avail' = Avail + k
  <2>1. Avail = Gap(nwrite, nread) /\ Avail' = Gap(nwrite', nread') /\ nwrite' = Step(nwrite, k)
    BY <1>5 DEF Avail, Gap, Step
  <2>2. Gap(nwrite, nread) + k < Word
    BY <1>2, <1>7, <2>1, ConstantTypes
  <2>3. Gap(Step(nwrite, k), nread) = Gap(nwrite, nread) + k
    BY <1>2, <1>7, <2>2, WordMore
  <2> QED BY <1>5, <2>1, <2>3
<1>10. WriteEffect(w, k)
  BY <1>5, <1>6, <1>7, <1>8, <1>9 DEF WriteEffect
<1> QED BY <1>7, <1>10

\* piperead takes the k oldest bytes.
ReadEffect(r, k) ==
  /\ Avail' = Avail - k
  /\ Avail = 0 => ~writeopen
  /\ out' = [i \in 1..k |-> data[(nread + i - 1) % PipeSize]]
  /\ nread' \in 0..(Word - 1) /\ nread' = (nread + k) % Word
  /\ pc' = Wake(Writers, r, "user")
  /\ stranded' = (stranded /\ nread' # nwrite)

\* The pipe is empty and can still be written.
ReadBlocks(r) ==
  /\ Avail = 0 /\ writeopen
  /\ pc' = [pc EXCEPT ![r] = IF killed[r] THEN "user" ELSE "dozing"]
  /\ nread' = nread /\ out' = out /\ stranded' = FALSE

LEMMA ReadTakes ==
  ASSUME PipeTypeOK, NEW r \in Readers, piperead(r)
  PROVE  /\ data' = data /\ nwrite' = nwrite /\ todo' = todo
         /\ ReadBlocks(r) \/ \E k \in 0..Avail : ReadEffect(r, k)
<1>1. data' = data /\ nwrite' = nwrite /\ todo' = todo
  BY DEF piperead
<1>2. Avail \in Nat /\ nread \in Int /\ nwrite \in Int /\ (Avail = 0 <=> nread = nwrite)
  BY AvailType, ConstantTypes DEF PipeTypeOK
<1>3. CASE nread = nwrite /\ writeopen
  <2>1. /\ pc' = [pc EXCEPT ![r] = IF killed[r] THEN "user" ELSE "dozing"]
        /\ nread' = nread /\ out' = out
        /\ stranded' = (stranded /\ nread' # nwrite)
    BY <1>3 DEF piperead
  <2>2. stranded' = FALSE
    BY <1>3, <2>1, ZenonT(30)
  <2>3. ReadBlocks(r)
    BY <1>2, <1>3, <2>1, <2>2 DEF ReadBlocks
  <2> QED BY <1>1, <2>3
<1>4. CASE ~(nread = nwrite /\ writeopen)
  <2>1. PICK n \in ReadSizes :
          /\ out' = [i \in 1..Min({n, Avail}) |-> data[(nread + i - 1) % PipeSize]]
          /\ nread' = (nread + Min({n, Avail})) % Word
          /\ pc' = Wake(Writers, r, "user")
    BY <1>4, ZenonT(30) DEF piperead
  <2>2. stranded' = (stranded /\ nread' # nwrite)
    BY DEF piperead
  <2> DEFINE k == Min({n, Avail})
  <2>3. n \in Nat
    BY PipeAssumption
  <2>4. k = IF n <= Avail THEN n ELSE Avail
    BY <1>2, <2>3, MinPair
  <2>5. /\ out' = [i \in 1..k |-> data[(nread + i - 1) % PipeSize]]
        /\ nread' = (nread + k) % Word
    BY <2>1
  <2> HIDE DEF k
  <2>6. k \in 0..Avail /\ k \in Nat /\ k <= Avail
    BY <1>2, <2>3, <2>4
  <2>7. nread' \in 0..(Word - 1) /\ nread' \in Int
    <3>1. nread + k \in Int
      BY <1>2, <2>6
    <3>2. (nread + k) % Word \in 0..(Word - 1)
      BY <3>1, ConstantTypes, ModRange, ZenonT(30)
    <3> QED BY <2>5, <3>2, ConstantTypes
  <2>8. Avail' = Avail - k
    <3>1. /\ Avail = Gap(nwrite, nread) /\ Avail' = Gap(nwrite', nread')
          /\ nread' = Step(nread, k)
      BY <2>5 DEF Avail, Gap, Step
    <3>2. Gap(nwrite, Step(nread, k)) = Gap(nwrite, nread) - k
      BY <1>2, <2>6, <3>1, WordLess
    <3> QED BY <1>1, <3>1, <3>2
  <2>9. ReadEffect(r, k)
    BY <1>2, <1>4, <2>1, <2>2, <2>5, <2>7, <2>8 DEF ReadEffect
  <2> QED BY <1>1, <2>6, <2>9
<1> QED BY <1>3, <1>4

-----------------------------------------------------------------------------
(* The invariant *)

LEMMA InitInv ==
  ASSUME Init
  PROVE  IInv
<1>1. nwrite - nread = 0 /\ 0 % Word = 0
  BY ConstantTypes, ModSmall DEF Init
<1>2. Avail = 0
  BY <1>1 DEF Avail
<1>3. data \in [0..(PipeSize - 1) -> Byte]
  BY PipeAssumption DEF Init
<1>4. PipeTypeOK
  <2>1. nread \in 0..(Word - 1) /\ nwrite \in 0..(Word - 1)
    BY ConstantTypes DEF Init
  <2>2. todo \in [Writers -> Seq(Byte)] /\ out \in Seq(Byte)
    BY DEF Init
  <2>3. /\ readopen \in BOOLEAN /\ writeopen \in BOOLEAN /\ freed \in BOOLEAN
        /\ stranded \in BOOLEAN /\ holders \in SUBSET Procs
    BY ZenonT(30) DEF Init
  <2>4. /\ pc \in [Procs -> {"user", "ready", "dozing", "asleep"}]
        /\ killed \in [Procs -> BOOLEAN]
    BY DEF Init
  <2> QED BY <1>3, <2>1, <2>2, <2>3, <2>4 DEF PipeTypeOK
<1>5. \A p \in Procs : pc[p] = "user"
  BY DEF Init
<1>6. SleepersHaveCause /\ DozersHaveCause
  BY <1>4, <1>5 DEF SleepersHaveCause, DozersHaveCause, Procs
<1>7. EndsOpen
  BY <1>5 DEF Init, EndsOpen
<1> QED BY <1>2, <1>6, <1>7, ConstantTypes DEF IInv

(* Steps that leave the ring and its ends alone. *)
LEMMA QuietStep ==
  ASSUME IInv, PipeTypeOK', UNCHANGED <<pipe, ends, stranded>>,
         \A w \in Writers : pc'[w] \in {"dozing", "asleep"} =>
           pc[w] \in {"dozing", "asleep"} /\ todo'[w] = todo[w],
         \A r \in Readers : /\ pc'[r] = "asleep" => pc[r] \in {"dozing", "asleep"}
                            /\ pc'[r] = "dozing" => pc[r] = "dozing",
         \A p \in Procs : pc'[p] # "user" => p \in holders
  PROVE  IInv'
<1>1. /\ Avail' = Avail /\ readopen' = readopen /\ writeopen' = writeopen
      /\ freed' = freed /\ holders' = holders /\ stranded' = stranded
  BY DEF pipe, ends, Avail
<1>2. \A w \in Writers : pc[w] \in {"dozing", "asleep"} =>
        Avail = PipeSize /\ readopen /\ todo[w] # <<>>
  BY DEF IInv, SleepersHaveCause, DozersHaveCause
<1>3. \A r \in Readers : /\ pc[r] = "asleep" => (Avail = 0 \/ stranded) /\ writeopen
                         /\ pc[r] = "dozing" => Avail = 0 /\ writeopen
  BY DEF IInv, SleepersHaveCause, DozersHaveCause
<1>4. SleepersHaveCause'
  <2>1. ASSUME NEW w \in Writers, pc'[w] = "asleep"
        PROVE  Avail' = PipeSize /\ readopen' /\ todo'[w] # <<>>
    BY <1>1, <1>2, <2>1
  <2>2. ASSUME NEW r \in Readers, pc'[r] = "asleep"
        PROVE  (Avail' = 0 \/ stranded') /\ writeopen'
    BY <1>1, <1>3, <2>2
  <2> QED BY <2>1, <2>2 DEF SleepersHaveCause
<1>5. DozersHaveCause'
  BY <1>1, <1>2, <1>3 DEF DozersHaveCause
<1>6. EndsOpen'
  BY <1>1 DEF IInv, EndsOpen
<1> QED BY <1>1, <1>4, <1>5, <1>6 DEF IInv

LEMMA CallStep ==
  ASSUME IInv, \/ \E w \in Writers : CallWrite(w)
               \/ \E r \in Readers : CallRead(r)
               \/ \E p \in Procs : sleep(p) \/ kill(p)
               \/ UNCHANGED vars
  PROVE  IInv'
<1>1. PipeTypeOK /\ EndsOpen
  BY DEF IInv, SleepersHaveCause
<1>2. ASSUME NEW w \in Writers, CallWrite(w)
      PROVE  IInv'
  <2>1. PICK m \in Messages : todo' = [todo EXCEPT ![w] = m]
    BY <1>2, ZenonT(30) DEF CallWrite
  <2>2. m \in Seq(Byte) /\ w \in Procs
    BY PipeAssumption DEF Procs
  <2>3. /\ pc' = [pc EXCEPT ![w] = "ready"] /\ w \in holders
        /\ UNCHANGED <<pipe, ends, killed, out, stranded>>
    BY <1>2 DEF CallWrite
  <2>4. PipeTypeOK'
    BY <1>1, <2>1, <2>2, <2>3 DEF PipeTypeOK, pipe, ends
  <2>5. pc'[w] = "ready" /\ \A p \in Procs \ {w} : pc'[p] = pc[p]
    BY <1>1, <2>2, <2>3 DEF PipeTypeOK
  <2>6. \A p \in Writers \ {w} : todo'[p] = todo[p]
    BY <1>1, <2>1 DEF PipeTypeOK
  <2>7. \A p \in Procs : pc'[p] # "user" => p \in holders
    BY <1>1, <2>3, <2>5 DEF EndsOpen
  <2> QED BY <2>3, <2>4, <2>5, <2>6, <2>7, QuietStep DEF Procs
<1>3. ASSUME NEW r \in Readers, CallRead(r)
      PROVE  IInv'
  <2>1. /\ pc' = [pc EXCEPT ![r] = "ready"] /\ r \in holders
        /\ UNCHANGED <<pipe, ends, killed, todo, out, stranded>>
    BY <1>3 DEF CallRead
  <2>2. PipeTypeOK'
    BY <1>1, <2>1 DEF PipeTypeOK, pipe, ends
  <2>3. pc'[r] = "ready" /\ \A p \in Procs \ {r} : pc'[p] = pc[p]
    BY <1>1, <2>1 DEF PipeTypeOK, Procs
  <2>4. \A p \in Procs : pc'[p] # "user" => p \in holders
    BY <1>1, <2>1, <2>3 DEF EndsOpen
  <2> QED BY <2>1, <2>2, <2>3, <2>4, QuietStep DEF Procs
<1>4. ASSUME NEW p \in Procs, sleep(p)
      PROVE  IInv'
  <2>1. /\ pc' = [pc EXCEPT ![p] = "asleep"] /\ pc[p] = "dozing"
        /\ UNCHANGED <<pipe, ends, killed, todo, out, stranded>>
    BY <1>4 DEF sleep
  <2>2. PipeTypeOK'
    BY <1>1, <2>1 DEF PipeTypeOK, pipe, ends
  <2>3. pc'[p] = "asleep" /\ \A q \in Procs \ {p} : pc'[q] = pc[q]
    BY <1>1, <2>1 DEF PipeTypeOK
  <2>4. \A q \in Procs : pc'[q] # "user" => q \in holders
    BY <1>1, <2>1, <2>3 DEF EndsOpen
  <2> QED BY <2>1, <2>2, <2>3, <2>4, QuietStep DEF Procs
<1>5. ASSUME NEW p \in Procs, kill(p)
      PROVE  IInv'
  <2>1. /\ pc' = [pc EXCEPT ![p] = IF @ = "asleep" THEN "ready" ELSE @]
        /\ killed' = [killed EXCEPT ![p] = TRUE]
        /\ UNCHANGED <<pipe, ends, todo, out, stranded>>
    BY <1>5 DEF kill
  <2>2. PipeTypeOK'
    BY <1>1, <2>1 DEF PipeTypeOK, pipe, ends
  <2>3. \A q \in Procs : pc'[q] = pc[q] \/ (pc[q] = "asleep" /\ pc'[q] = "ready")
    BY <1>1, <2>1 DEF PipeTypeOK
  <2>4. \A q \in Procs : pc'[q] # "user" => q \in holders
    BY <1>1, <2>3 DEF EndsOpen
  <2> QED BY <2>1, <2>2, <2>3, <2>4, QuietStep DEF Procs
<1>6. ASSUME UNCHANGED vars
      PROVE  IInv'
  <2>1. UNCHANGED <<pipe, ends, stranded, pc, todo, killed, out>>
    BY <1>6 DEF vars
  <2>2. PipeTypeOK'
    BY <1>1, <2>1 DEF PipeTypeOK, pipe, ends
  <2> QED BY <1>1, <2>1, <2>2, QuietStep DEF EndsOpen
<1> QED BY <1>2, <1>3, <1>4, <1>5, <1>6

\* Wake leaves everybody but p and the sleepers of S where they are.
LEMMA WakeFacts ==
  ASSUME PipeTypeOK, NEW S, NEW p \in Procs,
         NEW next \in {"user", "ready", "dozing", "asleep"}
  PROVE  /\ Wake(S, p, next) \in [Procs -> {"user", "ready", "dozing", "asleep"}]
         /\ Wake(S, p, next)[p] = next
         /\ \A q \in Procs \ {p} :
              Wake(S, p, next)[q] = IF q \in S /\ pc[q] = "asleep" THEN "ready" ELSE pc[q]
BY DEF Wake, PipeTypeOK

LEMMA WriteStep ==
  ASSUME IInv, NEW w \in Writers, pipewrite(w)
  PROVE  IInv'
<1>1. PipeTypeOK /\ EndsOpen /\ w \in Procs /\ w \notin Readers
  BY PipeAssumption DEF IInv, SleepersHaveCause, Procs
<1>2. PICK k \in 0..Len(todo[w]) : WriteEffect(w, k)
  BY <1>1, WriteStores DEF IInv
<1>3. todo[w] \in Seq(Byte) /\ Len(todo[w]) \in Nat /\ k \in Nat /\ k <= Len(todo[w])
  BY <1>1 DEF PipeTypeOK
<1>4. Avail \in Nat /\ Avail' = Avail + k /\ Avail' <= PipeSize
      /\ (k # Len(todo[w]) => Avail' = PipeSize)
  BY <1>1, <1>2, AvailType DEF WriteEffect
<1>5. pc[w] = "ready" /\ Unlocked /\ UNCHANGED <<ends, killed, out>>
  BY DEF pipewrite
<1>6. /\ readopen' = readopen /\ writeopen' = writeopen /\ freed' = freed
      /\ holders' = holders /\ killed' = killed /\ out' = out
  BY <1>5 DEF ends
<1> DEFINE fail == k # Len(todo[w]) /\ (~readopen \/ killed[w])
           rest == SubSeq(todo[w], k + 1, Len(todo[w]))
<1>7. /\ todo' = [todo EXCEPT ![w] = IF fail THEN <<>> ELSE rest]
      /\ pc' = IF fail THEN [pc EXCEPT ![w] = "user"]
               ELSE Wake(Readers, w, IF k = Len(todo[w]) THEN "user" ELSE "dozing")
      /\ stranded' = IF fail THEN stranded \/ k > 0 ELSE FALSE
  BY <1>2 DEF WriteEffect
<1>8. rest \in Seq(Byte) /\ (k # Len(todo[w]) => rest # <<>>)
  <2>1. rest \in Seq(Byte) /\ Len(rest) = Len(todo[w]) - k
    BY <1>3
  <2>2. k # Len(todo[w]) => Len(rest) # 0
    BY <1>3, <2>1
  <2>3. Len(<<>>) = 0
    OBVIOUS
  <2> HIDE DEF rest
  <2> QED BY <2>1, <2>2, <2>3
<1>9. fail => k # Len(todo[w])
  OBVIOUS
<1>10. ~fail /\ k # Len(todo[w]) => readopen
  OBVIOUS
<1> HIDE DEF fail, rest
<1>11. /\ pc' \in [Procs -> {"user", "ready", "dozing", "asleep"}]
       /\ pc'[w] = IF fail \/ k = Len(todo[w]) THEN "user" ELSE "dozing"
       /\ \A q \in Procs \ {w} :
            pc'[q] = IF ~fail /\ q \in Readers /\ pc[q] = "asleep" THEN "ready" ELSE pc[q]
  <2>1. CASE fail
    BY <1>1, <1>7, <2>1 DEF PipeTypeOK
  <2>2. CASE ~fail
    <3> DEFINE next == IF k = Len(todo[w]) THEN "user" ELSE "dozing"
    <3>1. next \in {"user", "ready", "dozing", "asleep"} /\ pc' = Wake(Readers, w, next)
      BY <1>7, <2>2
    <3> HIDE DEF next
    <3>2. /\ pc' \in [Procs -> {"user", "ready", "dozing", "asleep"}]
          /\ pc'[w] = next
          /\ \A q \in Procs \ {w} :
               pc'[q] = IF q \in Readers /\ pc[q] = "asleep" THEN "ready" ELSE pc[q]
      BY <1>1, <3>1, WakeFacts
    <3> QED BY <2>2, <3>2 DEF next
  <2> QED BY <2>1, <2>2
<1>12. PipeTypeOK'
  <2>1. data' \in [0..(PipeSize - 1) -> Byte]
    <3>1. data' = Stored(todo[w], k) /\ Avail + k <= PipeSize
      BY <1>2, <1>4 DEF WriteEffect
    <3> QED BY <1>1, <1>3, <3>1, StoredBytes
  <2>2. nread' \in 0..(Word - 1) /\ nwrite' \in 0..(Word - 1)
    BY <1>1, <1>2 DEF WriteEffect, PipeTypeOK
  <2>3. todo' \in [Writers -> Seq(Byte)]
    BY <1>1, <1>7, <1>8 DEF PipeTypeOK
  <2>4. stranded' \in BOOLEAN
    BY <1>7, ZenonT(30)
  <2> QED BY <1>1, <1>6, <1>11, <2>1, <2>2, <2>3, <2>4 DEF PipeTypeOK
<1>13. \A v \in Writers \ {w} : pc'[v] = pc[v] /\ todo'[v] = todo[v]
  <2>1. \A v \in Writers : v \in Procs /\ v \notin Readers
    BY PipeAssumption DEF Procs
  <2> QED BY <1>1, <1>7, <1>11, <2>1 DEF PipeTypeOK
<1>14. \A v \in Writers : pc[v] = "asleep" => Avail = PipeSize /\ readopen /\ todo[v] # <<>>
  BY DEF IInv, SleepersHaveCause
<1>15. SleepersHaveCause'
  <2>1. ASSUME NEW v \in Writers, pc'[v] = "asleep"
        PROVE  Avail' = PipeSize /\ readopen' /\ todo'[v] # <<>>
    <3>1. v # w
      BY <1>11, <2>1
    <3>2. Avail = PipeSize /\ readopen /\ todo'[v] # <<>>
      BY <1>13, <1>14, <2>1, <3>1
    <3> QED BY <1>3, <1>4, <1>6, <3>2, ConstantTypes
  <2>2. ASSUME NEW r \in Readers, pc'[r] = "asleep"
        PROVE  (Avail' = 0 \/ stranded') /\ writeopen'
    <3>1. r \in Procs \ {w}
      BY <1>1 DEF Procs
    <3>2. fail /\ pc[r] = "asleep"
      BY <1>11, <2>2, <3>1
    <3>3. (Avail = 0 \/ stranded) /\ writeopen
      BY <3>2 DEF IInv, SleepersHaveCause
    <3>4. stranded' = (stranded \/ k > 0)
      BY <1>7, <3>2
    <3>5. CASE k = 0
      <4>1. Avail' = Avail
        BY <1>4, <3>5
      <4> QED BY <1>6, <3>3, <3>4, <4>1, ZenonT(30)
    <3>6. CASE k # 0
      <4>1. k > 0
        BY <1>3, <3>6
      <4> QED BY <1>6, <3>3, <3>4, <4>1, ZenonT(30)
    <3> QED BY <3>5, <3>6
  <2> QED BY <1>12, <2>1, <2>2 DEF SleepersHaveCause
<1>16. DozersHaveCause'
  <2>1. \A p \in Procs \ {w} : pc'[p] # "dozing"
    BY <1>5, <1>11 DEF Unlocked
  <2>2. ASSUME pc'[w] = "dozing"
        PROVE  Avail' = PipeSize /\ readopen' /\ todo'[w] # <<>>
    <3>1. ~fail /\ k # Len(todo[w])
      BY <1>11, <2>2
    <3>2. todo'[w] = rest
      BY <1>1, <1>7, <3>1 DEF PipeTypeOK
    <3> QED BY <1>4, <1>6, <1>8, <1>10, <3>1, <3>2
  <2> QED BY <1>1, <2>1, <2>2 DEF DozersHaveCause, Procs
<1>17. EndsOpen'
  BY <1>1, <1>5, <1>6, <1>11 DEF EndsOpen
<1> QED BY <1>4, <1>15, <1>16, <1>17 DEF IInv

LEMMA ReadStep ==
  ASSUME IInv, NEW r \in Readers, piperead(r)
  PROVE  IInv'
<1>1. PipeTypeOK /\ EndsOpen /\ r \in Procs /\ r \notin Writers
  BY PipeAssumption DEF IInv, SleepersHaveCause, Procs
<1>2. data' = data /\ nwrite' = nwrite /\ todo' = todo
  BY <1>1, ReadTakes
<1>3. pc[r] = "ready" /\ Unlocked /\ UNCHANGED <<ends, killed>>
  BY DEF piperead
<1>4. /\ readopen' = readopen /\ writeopen' = writeopen /\ freed' = freed
      /\ holders' = holders /\ killed' = killed
  BY <1>3 DEF ends
<1>5. r \in holders
  BY <1>1, <1>3 DEF EndsOpen
<1>6. Avail \in Nat /\ Avail <= PipeSize
  BY <1>1, AvailType DEF IInv
<1>7. \A q \in Readers : pc[q] = "asleep" => (Avail = 0 \/ stranded) /\ writeopen
  BY DEF IInv, SleepersHaveCause
<1>8. \A w \in Writers : /\ pc[w] = "asleep" => Avail = PipeSize /\ readopen /\ todo[w] # <<>>
                         /\ w \in Procs \ {r}
  BY <1>1 DEF IInv, SleepersHaveCause, Procs
<1>9. CASE ReadBlocks(r)
  <2>1. /\ Avail = 0 /\ writeopen /\ nread' = nread /\ out' = out /\ stranded' = FALSE
        /\ pc' = [pc EXCEPT ![r] = IF killed[r] THEN "user" ELSE "dozing"]
    BY <1>9 DEF ReadBlocks
  <2>2. Avail' = Avail
    BY <1>2, <2>1 DEF Avail
  <2>3. /\ pc' \in [Procs -> {"user", "ready", "dozing", "asleep"}]
        /\ pc'[r] \in {"user", "dozing"}
        /\ \A q \in Procs \ {r} : pc'[q] = pc[q]
    BY <1>1, <2>1 DEF PipeTypeOK
  <2>4. PipeTypeOK'
    BY <1>1, <1>2, <1>4, <2>1, <2>3, ZenonT(30) DEF PipeTypeOK
  <2>5. SleepersHaveCause'
    BY <1>2, <1>4, <1>8, <2>1, <2>2, <2>3, <2>4 DEF SleepersHaveCause
  <2>6. DozersHaveCause'
    <3>1. \A q \in Procs \ {r} : pc'[q] # "dozing"
      BY <1>3, <2>3 DEF Unlocked
    <3> QED BY <1>4, <1>8, <2>1, <2>2, <3>1 DEF DozersHaveCause, Procs
  <2>7. EndsOpen'
    BY <1>1, <1>4, <1>5, <2>3 DEF EndsOpen
  <2> QED BY <1>6, <2>2, <2>5, <2>6, <2>7 DEF IInv
<1>10. ASSUME NEW k \in 0..Avail, ReadEffect(r, k)
       PROVE  IInv'
  <2>1. /\ Avail' = Avail - k /\ (Avail = 0 => ~writeopen)
        /\ nread' \in 0..(Word - 1)
        /\ pc' = Wake(Writers, r, "user")
        /\ stranded' = (stranded /\ nread' # nwrite)
    BY <1>10 DEF ReadEffect
  <2>2. k \in Nat /\ k <= Avail /\ Avail' \in Nat /\ Avail' <= PipeSize
    BY <1>6, <2>1, ConstantTypes
  <2>3. /\ pc' \in [Procs -> {"user", "ready", "dozing", "asleep"}]
        /\ pc'[r] = "user"
        /\ \A q \in Procs \ {r} :
             pc'[q] = IF q \in Writers /\ pc[q] = "asleep" THEN "ready" ELSE pc[q]
    BY <1>1, <2>1, WakeFacts
  <2>4. PipeTypeOK'
    <3>1. out' \in Seq(Byte)
      <4>1. out' = [i \in 1..k |-> data[(nread + i - 1) % PipeSize]]
        BY <1>10 DEF ReadEffect
      <4>2. ASSUME NEW i \in 1..k
            PROVE  data[(nread + i - 1) % PipeSize] \in Byte
        <5>1. i \in Int /\ nread \in Int
          BY <1>1, <2>2, ConstantTypes DEF PipeTypeOK
        <5>2. (nread + i - 1) % PipeSize \in 0..(PipeSize - 1)
          BY <5>1, SlotRange
        <5> QED BY <1>1, <5>2 DEF PipeTypeOK
      <4> HIDE DEF Avail
      <4> QED BY <2>2, <4>1, <4>2
    <3>2. stranded' \in BOOLEAN
      BY <2>1
    <3> QED BY <1>1, <1>2, <1>4, <2>1, <2>3, <3>1, <3>2 DEF PipeTypeOK
  <2>5. Avail' = 0 <=> nread' = nwrite
    <3>1. (Avail = 0 <=> nread = nwrite)'
      BY <2>4, AvailType, PTL
    <3> QED BY <1>2, <3>1
  <2>6. SleepersHaveCause'
    <3>1. \A w \in Writers : pc'[w] # "asleep"
      BY <1>8, <2>3
    <3>2. ASSUME NEW q \in Readers, pc'[q] = "asleep"
          PROVE  (Avail' = 0 \/ stranded') /\ writeopen'
      <4>1. q \in Procs \ {r} /\ pc[q] = "asleep"
        BY <2>3, <3>2 DEF Procs
      <4>2. (Avail = 0 \/ stranded) /\ writeopen
        BY <1>7, <4>1
      <4> QED BY <1>4, <2>1, <2>5, <4>2, ZenonT(30)
    <3> QED BY <2>4, <3>1, <3>2 DEF SleepersHaveCause
  <2>7. DozersHaveCause'
    <3>1. \A q \in Procs : pc'[q] # "dozing"
      BY <1>3, <2>3 DEF Unlocked
    <3> QED BY <3>1 DEF DozersHaveCause, Procs
  <2>8. EndsOpen'
    BY <1>1, <1>4, <1>5, <2>3 DEF EndsOpen
  <2> QED BY <2>2, <2>6, <2>7, <2>8 DEF IInv
<1> QED BY <1>1, <1>9, <1>10, ReadTakes

LEMMA CloseStep ==
  ASSUME IInv, NEW p \in Procs, fileclose(p)
  PROVE  IInv'
<1> DEFINE side == IF p \in Writers THEN Writers ELSE Readers
           last == holders \cap side = {p}
<1>1. PipeTypeOK /\ EndsOpen
  BY DEF IInv, SleepersHaveCause
<1>2. /\ pc[p] = "user" /\ p \in holders
      /\ last => Unlocked
      /\ holders' = holders \ {p}
      /\ writeopen' = (writeopen /\ ~(last /\ side = Writers))
      /\ readopen' = (readopen /\ ~(last /\ side = Readers))
      /\ freed' = (~writeopen' /\ ~readopen')
      /\ pc' = IF last THEN Wake(Procs \ side, p, "user") ELSE pc
      /\ stranded' = (stranded /\ ~(last /\ side = Writers))
      /\ UNCHANGED <<pipe, killed, todo, out>>
  BY DEF fileclose
<1>3. \/ p \in Writers /\ side = Writers /\ side # Readers /\ Procs \ side = Readers
      \/ p \in Readers /\ side = Readers /\ side # Writers /\ Procs \ side = Writers
  BY PipeAssumption DEF Procs
<1>4. last => \A q \in holders : q # p => q \notin side
  OBVIOUS
<1>5. ~last => (holders \ {p}) \cap side # {}
  BY <1>2, <1>3
<1> HIDE DEF side, last
<1>6. Avail' = Avail /\ nread' = nread /\ nwrite' = nwrite /\ data' = data
      /\ killed' = killed /\ todo' = todo /\ out' = out
  BY <1>2 DEF pipe, Avail
<1>7. /\ pc' \in [Procs -> {"user", "ready", "dozing", "asleep"}]
      /\ pc'[p] = "user"
      /\ \A q \in Procs \ {p} :
           pc'[q] = IF last /\ q \in Procs \ side /\ pc[q] = "asleep" THEN "ready" ELSE pc[q]
  <2>1. CASE last
    BY <1>1, <1>2, <2>1, WakeFacts
  <2>2. CASE ~last
    BY <1>1, <1>2, <2>2 DEF PipeTypeOK
  <2> QED BY <2>1, <2>2
<1>8. PipeTypeOK'
  <2>1. /\ readopen' \in BOOLEAN /\ writeopen' \in BOOLEAN /\ freed' \in BOOLEAN
        /\ stranded' \in BOOLEAN /\ holders' \in SUBSET Procs
    BY <1>1, <1>2 DEF PipeTypeOK
  <2> QED BY <1>1, <1>6, <1>7, <2>1 DEF PipeTypeOK
<1>9. \A q \in Procs : pc'[q] # "user" => pc[q] # "user" /\ q \in holders /\ q # p
  BY <1>1, <1>2, <1>7 DEF EndsOpen
<1>10. \A q \in Procs : pc'[q] \in {"asleep", "dozing"} => pc'[q] = pc[q] /\ ~last
  <2> SUFFICES ASSUME NEW q \in Procs, pc'[q] \in {"asleep", "dozing"}
               PROVE  pc'[q] = pc[q] /\ ~last
    OBVIOUS
  <2>1. q # p /\ q \in holders /\ pc'[q] = pc[q]
    BY <1>7, <1>9
  <2>2. last => q \in Procs \ side
    BY <1>4, <2>1
  <2>3. last => pc[q] # "dozing"
    BY <1>2 DEF Unlocked
  <2> QED BY <1>7, <2>1, <2>2, <2>3
<1>11. ~last => readopen' = readopen /\ writeopen' = writeopen /\ stranded' = stranded
  BY <1>1, <1>2 DEF PipeTypeOK
<1>12. SleepersHaveCause'
  <2>1. ASSUME NEW w \in Writers, pc'[w] = "asleep"
        PROVE  Avail' = PipeSize /\ readopen' /\ todo'[w] # <<>>
    <3>1. pc[w] = "asleep" /\ ~last
      BY <1>10, <2>1 DEF Procs
    <3> QED BY <1>6, <1>11, <3>1 DEF IInv, SleepersHaveCause
  <2>2. ASSUME NEW r \in Readers, pc'[r] = "asleep"
        PROVE  (Avail' = 0 \/ stranded') /\ writeopen'
    <3>1. pc[r] = "asleep" /\ ~last
      BY <1>10, <2>2 DEF Procs
    <3> QED BY <1>6, <1>11, <3>1 DEF IInv, SleepersHaveCause
  <2> QED BY <1>8, <2>1, <2>2 DEF SleepersHaveCause
<1>13. DozersHaveCause'
  <2>1. ASSUME NEW q \in Procs, pc'[q] = "dozing"
        PROVE  pc[q] = "dozing" /\ ~last
    BY <1>10, <2>1
  <2> QED BY <1>6, <1>11, <2>1 DEF IInv, DozersHaveCause, Procs
<1>14. EndsOpen'
  <2>1. CASE last
    <3>1. holders' \cap side = {}
      BY <1>2, <1>4, <2>1
    <3>2. /\ holders' \cap Readers # {} => readopen'
          /\ holders' \cap Writers # {} => writeopen'
      BY <1>1, <1>2, <1>3, <3>1, ZenonT(30) DEF EndsOpen
    <3> QED BY <1>2, <1>9, <3>2, ZenonT(30) DEF EndsOpen
  <2>2. CASE ~last
    <3>1. /\ holders' \cap Readers # {} => readopen'
          /\ holders' \cap Writers # {} => writeopen'
      BY <1>1, <1>2, <1>11, <2>2 DEF EndsOpen
    <3> QED BY <1>2, <1>9, <3>1, ZenonT(30) DEF EndsOpen
  <2> QED BY <2>1, <2>2
<1> QED BY <1>6, <1>12, <1>13, <1>14 DEF IInv

LEMMA StepInv ==
  ASSUME IInv, [Next]_vars
  PROVE  IInv'
<1>1. ASSUME NEW w \in Writers, pipewrite(w)
      PROVE  IInv'
  BY <1>1, WriteStep
<1>2. ASSUME NEW r \in Readers, piperead(r)
      PROVE  IInv'
  BY <1>2, ReadStep
<1>3. ASSUME NEW p \in Procs, fileclose(p)
      PROVE  IInv'
  BY <1>3, CloseStep
<1> QED BY <1>1, <1>2, <1>3, CallStep DEF Next

LEMMA PipeInvariance == Spec => []IInv
<1>1. Init => IInv
  BY InitInv
<1>2. IInv /\ [Next]_vars => IInv'
  BY StepInv
<1> QED BY <1>1, <1>2, PTL DEF Spec

(* No lost wakeup in pipe.c: whoever sleeps in pipewrite or piperead has a   *)
(* cause, but for readers that a killed writer left unwoken (pipe.c:86).     *)
THEOREM PipeSleepersHaveCause == Spec => []SleepersHaveCause
<1>1. IInv => SleepersHaveCause
  BY DEF IInv
<1> QED BY <1>1, PipeInvariance, PTL

(* pipeclose frees the page when no process is, or can again be, in a call.  *)
THEOREM PipeFreedUnused == Spec => []FreedUnused
<1>1. IInv => FreedUnused
  <2> SUFFICES ASSUME IInv, freed
               PROVE  holders = {} /\ \A p \in Procs : pc[p] = "user"
    BY DEF FreedUnused
  <2>1. holders \cap Readers = {} /\ holders \cap Writers = {} /\ holders \subseteq Procs
    BY DEF IInv, EndsOpen, SleepersHaveCause, PipeTypeOK
  <2>2. holders = {}
    BY <2>1 DEF Procs
  <2> QED BY <2>2 DEF IInv, EndsOpen
<1> QED BY <1>1, PipeInvariance, PTL

-----------------------------------------------------------------------------
(* The ring implements the bounded byte queue. *)

\* The bytes in the ring, oldest first: what BP substitutes for its queue.
Queue == [i \in 1..Avail |-> data[(nread + i - 1) % PipeSize]]

LEMMA QueueSeq ==
  ASSUME PipeTypeOK
  PROVE  Queue \in Seq(Byte) /\ Len(Queue) = Avail
<1>1. Avail \in Nat /\ nread \in Int
  BY AvailType, ConstantTypes DEF PipeTypeOK
<1>2. ASSUME NEW i \in 1..Avail
      PROVE  data[(nread + i - 1) % PipeSize] \in Byte
  <2>1. i \in Int
    BY <1>1
  <2>2. (nread + i - 1) % PipeSize \in 0..(PipeSize - 1)
    BY <1>1, <2>1, SlotRange
  <2> QED BY <2>2 DEF PipeTypeOK
<1> QED BY <1>1, <1>2 DEF Queue

(* Sequences of equal length with equal elements are equal. *)
LEMMA SeqEqual ==
  ASSUME NEW S, NEW s \in Seq(S), NEW t \in Seq(S), Len(s) = Len(t),
         \A i \in 1..Len(s) : s[i] = t[i]
  PROVE  s = t
OBVIOUS

(* pipewrite appends the bytes that it stores. *)
LEMMA WriteAppends ==
  ASSUME PipeTypeOK, PipeTypeOK', Avail <= PipeSize,
         NEW w \in Writers, NEW k \in 0..Len(todo[w]), WriteEffect(w, k)
  PROVE  Queue' = Queue \o SubSeq(todo[w], 1, k)
<1>1. todo[w] \in Seq(Byte) /\ Len(todo[w]) \in Nat /\ k \in Nat /\ k <= Len(todo[w])
  BY DEF PipeTypeOK
<1>2. Avail \in Nat /\ Avail' = Avail + k /\ Avail + k <= PipeSize
      /\ data' = Stored(todo[w], k) /\ nread' = nread
  BY AvailType DEF WriteEffect
<1>3. Queue \in Seq(Byte) /\ Len(Queue) = Avail
  BY QueueSeq
<1>4. (Queue \in Seq(Byte) /\ Len(Queue) = Avail)'
  BY QueueSeq, PTL
<1> DEFINE s == SubSeq(todo[w], 1, k)
<1>5. s \in Seq(Byte) /\ Len(s) = k /\ \A i \in 1..k : s[i] = todo[w][i]
  BY <1>1
<1> HIDE DEF s
<1>6. Queue \o s \in Seq(Byte) /\ Len(Queue \o s) = Avail + k
  BY <1>3, <1>5
<1>7. ASSUME NEW i \in 1..(Avail + k)
      PROVE  Queue'[i] = (Queue \o s)[i]
  <2>1. Queue'[i] = data'[(nread + i - 1) % PipeSize]
    BY <1>2 DEF Queue
  <2>2. CASE i \in 1..Avail
    <3>1. data'[(nread + i - 1) % PipeSize] = data[(nread + i - 1) % PipeSize]
      BY <1>1, <1>2, <2>2, StoredBytes
    <3>2. Queue[i] = data[(nread + i - 1) % PipeSize]
      BY <2>2 DEF Queue
    <3>3. (Queue \o s)[i] = Queue[i]
      BY <1>3, <1>5, <2>2
    <3> QED BY <2>1, <3>1, <3>2, <3>3
  <2>3. CASE i \notin 1..Avail
    <3>1. PICK j \in 1..k : i = Avail + j
      <4>1. i - Avail \in 1..k /\ i = Avail + (i - Avail)
        BY <1>1, <1>2, <2>3
      <4> QED BY <4>1
    <3>2. j \in Int
      BY <1>1
    <3>3. (nread + i - 1) % PipeSize = (nwrite + j - 1) % PipeSize
      BY <3>1, <3>2, WriteSlot
    <3>4. data'[(nwrite + j - 1) % PipeSize] = todo[w][j]
      BY <1>1, <1>2, StoredBytes
    <3>5. (Queue \o s)[i] = s[j]
      BY <1>2, <1>3, <1>5, <3>1
    <3> QED BY <1>5, <2>1, <3>3, <3>4, <3>5
  <2> QED BY <2>2, <2>3, ZenonT(30)
<1>8. Queue' \in Seq(Byte) /\ Len(Queue') = Avail + k
  BY <1>2, <1>4
<1>9. Queue' = Queue \o s
  BY <1>6, <1>7, <1>8, SeqEqual
<1> QED BY <1>9 DEF s

(* piperead returns the bytes at the front and leaves the others. *)
LEMMA ReadRemoves ==
  ASSUME PipeTypeOK, PipeTypeOK', NEW r \in Readers, NEW k \in 0..Avail,
         ReadEffect(r, k), data' = data
  PROVE  /\ out' = SubSeq(Queue, 1, k)
         /\ Queue' = SubSeq(Queue, k + 1, Len(Queue))
<1>1. Avail \in Nat /\ k \in Nat /\ k <= Avail /\ Avail' = Avail - k
  BY AvailType DEF ReadEffect
<1>2. Queue \in Seq(Byte) /\ Len(Queue) = Avail
  BY QueueSeq
<1>3. (Queue \in Seq(Byte) /\ Len(Queue) = Avail)'
  BY QueueSeq, PTL
<1>4. /\ out' = [i \in 1..k |-> data[(nread + i - 1) % PipeSize]]
      /\ nread' = (nread + k) % Word
  BY DEF ReadEffect
<1>5. out' = SubSeq(Queue, 1, k)
  <2>1. \A i \in 1..k : i \in 1..Avail
    BY <1>1
  <2>2. \A i \in 1..k : Queue[i] = data[(nread + i - 1) % PipeSize]
    BY <2>1 DEF Queue
  <2>3. /\ SubSeq(Queue, 1, k) \in Seq(Byte) /\ Len(SubSeq(Queue, 1, k)) = k
        /\ \A i \in 1..k : SubSeq(Queue, 1, k)[i] = Queue[i]
    BY <1>1, <1>2
  <2>4. out' \in Seq(Byte) /\ Len(out') = k
    BY <1>1, <1>4 DEF PipeTypeOK
  <2>5. \A i \in 1..k : out'[i] = Queue[i]
    BY <1>4, <2>2
  <2> QED BY <2>3, <2>4, <2>5, SeqEqual
<1>6. Queue' = SubSeq(Queue, k + 1, Len(Queue))
  <2> DEFINE t == SubSeq(Queue, k + 1, Len(Queue))
  <2>1. t \in Seq(Byte) /\ Len(t) = Avail - k /\ \A i \in 1..(Avail - k) : t[i] = Queue[i + k]
    BY <1>1, <1>2
  <2> HIDE DEF t
  <2>2. ASSUME NEW i \in 1..(Avail - k)
        PROVE  Queue'[i] = Queue[i + k]
    <3>1. Queue'[i] = data[(nread' + i - 1) % PipeSize]
      BY <1>1 DEF Queue
    <3>2. i + k \in 1..Avail /\ i \in Int /\ i - 1 \in Int
      BY <1>1
    <3>3. Queue[i + k] = data[(nread + (i + k) - 1) % PipeSize]
      BY <3>2 DEF Queue
    <3>4. nread \in Int /\ nread + k \in Int /\ nread' \in Int
      BY <1>1, ConstantTypes DEF PipeTypeOK
    <3>5. (nread' + (i - 1)) % PipeSize = ((nread + k) + (i - 1)) % PipeSize
      BY <1>4, <3>2, <3>4, WordSlot
    <3>6. nread' + (i - 1) = nread' + i - 1
          /\ (nread + k) + (i - 1) = nread + (i + k) - 1
      BY <1>1, <3>2, <3>4
    <3> QED BY <3>1, <3>3, <3>5, <3>6
  <2>3. Queue' \in Seq(Byte) /\ Len(Queue') = Avail - k
    BY <1>1, <1>3
  <2>4. Queue' = t
    BY <2>1, <2>2, <2>3, SeqEqual
  <2> QED BY <2>4 DEF t
<1> QED BY <1>5, <1>6

\* BP with Queue for the expression that it substitutes.
LEMMA BPActions ==
  ASSUME NEW w \in Writers
  PROVE  /\ BP!Request(w) <=> /\ todo'[w] \in Seq(Byte)
                              /\ todo' = [todo EXCEPT ![w] = todo'[w]]
                              /\ Queue' = Queue /\ out' = out
         /\ BP!Put(w) <=> \E k \in 1..Len(todo[w]) :
              /\ Queue' = Queue \o SubSeq(todo[w], 1, k)
              /\ Len(Queue') <= PipeSize
              /\ \/ todo' = [todo EXCEPT ![w] = SubSeq(@, k + 1, Len(@))]
                 \/ todo' = [todo EXCEPT ![w] = <<>>]
              /\ out' = out
BY DEF BP!Request, BP!Put, Queue

LEMMA BPGet ==
  BP!Get <=> \E k \in 0..Len(Queue) :
    /\ out' = SubSeq(Queue, 1, k)
    /\ Queue' = SubSeq(Queue, k + 1, Len(Queue))
    /\ todo' = todo
BY DEF BP!Get, Queue

LEMMA WriteIsPut ==
  ASSUME IInv, PipeTypeOK', NEW w \in Writers, pipewrite(w)
  PROVE  BP!Request(w) \/ BP!Put(w) \/ UNCHANGED <<Queue, todo, out>>
<1>1. PipeTypeOK /\ Avail <= PipeSize
  BY DEF IInv, SleepersHaveCause
<1>2. PICK k \in 0..Len(todo[w]) : WriteEffect(w, k)
  BY <1>1, WriteStores
<1>3. todo[w] \in Seq(Byte) /\ Len(todo[w]) \in Nat /\ k \in Nat /\ k <= Len(todo[w])
  BY <1>1 DEF PipeTypeOK
<1>4. Queue' = Queue \o SubSeq(todo[w], 1, k)
  BY <1>1, <1>2, WriteAppends
<1>5. out' = out
  BY DEF pipewrite
<1>6. Len(Queue') <= PipeSize
  <2>1. (Len(Queue) = Avail)'
    BY QueueSeq, PTL
  <2>2. Avail' <= PipeSize
    BY <1>2 DEF WriteEffect
  <2> QED BY <2>1, <2>2
<1> DEFINE rest == SubSeq(todo[w], k + 1, Len(todo[w]))
<1>7. todo' = [todo EXCEPT ![w] = <<>>] \/ todo' = [todo EXCEPT ![w] = rest]
  BY <1>2, ZenonT(30) DEF WriteEffect
<1>8. CASE k = 0
  <2>1. Queue' = Queue
    <3>1. Queue \in Seq(Byte) /\ SubSeq(todo[w], 1, 0) = <<>>
      BY <1>1, <1>3, QueueSeq
    <3> QED BY <1>4, <1>8, <3>1
  <2>2. rest = todo[w]
    BY <1>3, <1>8
  <2>3. ASSUME todo' = [todo EXCEPT ![w] = <<>>]
        PROVE  BP!Request(w)
    <3>1. todo'[w] = <<>>
      BY <1>1, <2>3 DEF PipeTypeOK
    <3>2. <<>> \in Seq(Byte)
      OBVIOUS
    <3>3. todo'[w] \in Seq(Byte) /\ todo' = [todo EXCEPT ![w] = todo'[w]]
      BY <2>3, <3>1, <3>2, Zenon
    <3> QED BY <1>5, <2>1, <3>3, BPActions
  <2>4. ASSUME todo' = [todo EXCEPT ![w] = rest]
        PROVE  todo' = todo
    BY <1>1, <2>2, <2>4 DEF PipeTypeOK
  <2> QED BY <1>5, <1>7, <2>1, <2>3, <2>4
<1>9. CASE k # 0
  <2>1. k \in 1..Len(todo[w])
    BY <1>3, <1>9
  <2>2. \/ todo' = [todo EXCEPT ![w] = SubSeq(@, k + 1, Len(@))]
        \/ todo' = [todo EXCEPT ![w] = <<>>]
    BY <1>7
  <2>3. BP!Put(w)
    BY <1>4, <1>5, <1>6, <2>1, <2>2, BPActions, ZenonT(30)
  <2> QED BY <2>3
<1> QED BY <1>8, <1>9

LEMMA ReadIsGet ==
  ASSUME IInv, PipeTypeOK', NEW r \in Readers, piperead(r)
  PROVE  BP!Get \/ UNCHANGED <<Queue, todo, out>>
<1>1. PipeTypeOK
  BY DEF IInv, SleepersHaveCause
<1>2. data' = data /\ nwrite' = nwrite /\ todo' = todo
  BY <1>1, ReadTakes
<1>3. CASE ReadBlocks(r)
  <2>1. nread' = nread /\ out' = out
    BY <1>3 DEF ReadBlocks
  <2>2. Queue' = Queue
    BY <1>2, <2>1 DEF Queue, Avail
  <2> QED BY <1>2, <2>1, <2>2
<1>4. ASSUME NEW k \in 0..Avail, ReadEffect(r, k)
      PROVE  BP!Get
  <2>1. out' = SubSeq(Queue, 1, k) /\ Queue' = SubSeq(Queue, k + 1, Len(Queue))
    BY <1>1, <1>2, <1>4, ReadRemoves
  <2>2. Len(Queue) = Avail
    BY <1>1, QueueSeq
  <2> QED BY <1>2, <2>1, <2>2, BPGet
<1> QED BY <1>1, <1>3, <1>4, ReadTakes

LEMMA StepRefines ==
  ASSUME IInv, IInv', [Next]_vars
  PROVE  [BP!Next]_(BP!bpvars)
<1>1. PipeTypeOK /\ PipeTypeOK'
  BY DEF IInv, SleepersHaveCause
<1>2. UNCHANGED <<Queue, todo, out>> => UNCHANGED BP!bpvars
  BY DEF BP!bpvars, Queue
<1>3. ASSUME UNCHANGED pipe
      PROVE  Queue' = Queue
  BY <1>3 DEF pipe, Queue, Avail
<1>4. ASSUME NEW w \in Writers, CallWrite(w)
      PROVE  BP!Request(w)
  <2>1. PICK m \in Messages : todo' = [todo EXCEPT ![w] = m]
    BY <1>4, ZenonT(30) DEF CallWrite
  <2>2. m \in Seq(Byte)
    BY PipeAssumption
  <2>3. todo'[w] = m
    BY <1>1, <2>1 DEF PipeTypeOK
  <2>4. UNCHANGED <<pipe, out>>
    BY <1>4 DEF CallWrite
  <2> QED BY <1>3, <2>1, <2>2, <2>3, <2>4, BPActions, ZenonT(30)
<1>5. ASSUME NEW w \in Writers, pipewrite(w)
      PROVE  BP!Request(w) \/ BP!Put(w) \/ UNCHANGED BP!bpvars
  BY <1>1, <1>2, <1>5, WriteIsPut
<1>6. ASSUME NEW r \in Readers, CallRead(r)
      PROVE  UNCHANGED BP!bpvars
  <2>1. UNCHANGED <<pipe, todo, out>>
    BY <1>6 DEF CallRead
  <2> QED BY <1>2, <1>3, <2>1
<1>7. ASSUME NEW r \in Readers, piperead(r)
      PROVE  BP!Get \/ UNCHANGED BP!bpvars
  BY <1>1, <1>2, <1>7, ReadIsGet
<1>8. ASSUME NEW p \in Procs, sleep(p) \/ fileclose(p) \/ kill(p)
      PROVE  UNCHANGED BP!bpvars
  <2>1. UNCHANGED <<pipe, todo, out>>
    BY <1>8 DEF sleep, fileclose, kill
  <2> QED BY <1>2, <1>3, <2>1
<1>9. ASSUME UNCHANGED vars
      PROVE  UNCHANGED BP!bpvars
  <2>1. UNCHANGED <<pipe, todo, out>>
    BY <1>9 DEF vars
  <2> QED BY <1>2, <1>3, <2>1
<1> QED BY <1>4, <1>5, <1>6, <1>7, <1>8, <1>9 DEF Next, BP!Next

(* Whatever the ring size and the width of its counters, pipe.c's ring is a  *)
(* first-in first-out queue of at most PIPESIZE bytes: pipewrite appends     *)
(* what it takes from the request, piperead returns the oldest bytes.        *)
THEOREM PipeImplementsBytePipe == Spec => BytePipeSpec
<1>1. Init => BP!Init
  <2> SUFFICES ASSUME Init
               PROVE  BP!Init
    OBVIOUS
  <2>1. nwrite - nread = 0 /\ 0 % Word = 0
    BY ConstantTypes, ModSmall DEF Init
  <2>2. Avail = 0
    BY <2>1 DEF Avail
  <2>3. [i \in 1..Avail |-> data[(nread + i - 1) % PipeSize]] = <<>>
    BY <2>2
  <2> QED BY <2>3 DEF Init, BP!Init
<1>2. IInv /\ IInv' /\ [Next]_vars => [BP!Next]_(BP!bpvars)
  BY StepRefines
<1> QED BY <1>1, <1>2, PipeInvariance, PTL DEF Spec, BytePipeSpec, BP!Spec
=============================================================================
