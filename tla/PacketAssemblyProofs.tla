----------------------- MODULE PacketAssemblyProofs -----------------------
(***************************************************************************)
(* Theorems about the assembly of packets, for every size of the buffers   *)
(* and every width of packet_size in which the size that is doubled last   *)
(* still fits, and about the commands in them, for texts of any length.    *)
(***************************************************************************)
EXTENDS MCPacketAssembly, SequenceLemmas, TLAPS

(* The uint16_t does not wrap.                                             *)
LEMMA NoWrap ==
  ASSUME NEW x \in Nat, x < UintLimit
  PROVE  x % UintLimit = x
  BY LimitAssumption

(* ensure_packet_capacity leaves room for one more byte, and packet_size   *)
(* tells how much.                                                         *)
LEMMA RoomForOne ==
  ASSUME TypeOK, InBounds, packet_index < MAX_PACKET_SIZE, EnsureRoom
  PROVE  /\ packet_size' = capacity'
         /\ capacity' \in 1 .. UintLimit-1
         /\ packet_index < capacity'
<1> USE LimitAssumption DEF TypeOK, InBounds, EnsureRoom
<1>1. CASE packet_index >= packet_size
  <2>1. 2 * packet_size \in Nat /\ 2 * packet_size < UintLimit
    BY <1>1
  <2>2. (2 * packet_size) % UintLimit = 2 * packet_size
    BY <2>1, NoWrap
  <2>3. capacity' = 2 * packet_size /\ packet_size' = 2 * packet_size
    BY <1>1, <2>2
  <2> QED
    BY <2>1, <2>3
<1>2. CASE ~(packet_index >= packet_size)
  BY <1>2
<1> QED
  BY <1>1, <1>2

LEMMA InitInv == Init => Inv
  BY BufferAssumption, LimitAssumption
  DEF Init, Inv, TypeOK, InBounds, PacketIsLine

LEMMA StoreInv ==
  ASSUME Inv, NEW newline \in BOOLEAN, Store(newline)
  PROVE  Inv' /\ packet_index < capacity'
<1> USE DEF Inv
<1>1. /\ packet_size' = capacity'
      /\ capacity' \in 1 .. UintLimit-1
      /\ packet_index < capacity'
  BY RoomForOne DEF Store
<1>2. /\ packet_index' = packet_index + 1
      /\ packet_index' \in 0..MAX_PACKET_SIZE
      /\ since' = since + 1
  BY LimitAssumption DEF Store, TypeOK
<1>3. packet' = packet_index' \/ packet' = 0
  BY DEF Store
<1>4. left' \in 0..SOCKET_BUFFER_SIZE
  BY BufferAssumption DEF Store, TypeOK
<1>5. open' \in BOOLEAN
  BY DEF Store, TypeOK
<1>6. packet_size' \in 0 .. UintLimit-1
  BY <1>1, LimitAssumption
<1>7. TypeOK'
  BY <1>1, <1>2, <1>3, <1>4, <1>5, <1>6, LimitAssumption DEF TypeOK
<1>8. InBounds'
  BY <1>1, <1>2 DEF InBounds, TypeOK
<1>9. PacketIsLine'
  BY <1>2, <1>3 DEF PacketIsLine, TypeOK
<1> QED
  BY <1>1, <1>7, <1>8, <1>9

(* Every other step leaves the memory alone, and stores nothing.           *)
LEMMA OtherInv ==
  ASSUME Inv,
         Receive \/ Leave \/ GiveUp \/ Process \/ Done \/ UNCHANGED vars
  PROVE  Inv' /\ packet_index' <= packet_index
<1>1. capacity' = capacity /\ packet_size' = packet_size
  BY DEF Receive, Leave, GiveUp, Process, Done, vars
<1>2. \/ packet_index' = packet_index /\ since' = since /\ packet' = packet
      \/ packet_index' = 0 /\ since' = 0 /\ packet' = 0
  BY DEF Receive, Leave, GiveUp, Process, Done, vars
<1>3. left' \in 0..SOCKET_BUFFER_SIZE
  <2>1. left' \in 1..SOCKET_BUFFER_SIZE \/ left' = 0 \/ left' = left
    BY DEF Receive, Leave, GiveUp, Process, Done, vars
  <2> QED
    BY <2>1, BufferAssumption DEF Inv, TypeOK
<1>4. open' \in BOOLEAN
  BY DEF Receive, Leave, GiveUp, Process, Done, vars, Inv, TypeOK
<1>5. TypeOK'
  BY <1>1, <1>2, <1>3, <1>4, LimitAssumption DEF Inv, TypeOK
<1>6. InBounds'
  BY <1>1, <1>2 DEF Inv, TypeOK, InBounds
<1>7. PacketIsLine'
  BY <1>2 DEF Inv, TypeOK, PacketIsLine
<1>8. packet_index' <= packet_index
  BY <1>2, LimitAssumption DEF Inv, TypeOK
<1> QED
  BY <1>5, <1>6, <1>7, <1>8 DEF Inv

LEMMA StepInv ==
  ASSUME Inv, [Next]_vars
  PROVE  /\ Inv'
         /\ packet_index' > packet_index => packet_index < capacity'
<1>1. CASE \E newline \in BOOLEAN : Store(newline)
  BY <1>1, StoreInv
<1>2. CASE Receive \/ Leave \/ GiveUp \/ Process \/ Done \/ UNCHANGED vars
  <2>1. Inv' /\ packet_index' <= packet_index
    BY <1>2, OtherInv
  <2>2. packet_index \in Nat /\ packet_index' \in Nat
    BY <2>1, LimitAssumption DEF Inv, TypeOK
  <2> QED
    BY <2>1, <2>2
<1> QED
  BY <1>1, <1>2 DEF Next
-----------------------------------------------------------------------------
(* At every moment packet_size is the size of packet's memory, what is     *)
(* stored is in it, and the packet processed is one line of the stream     *)
(* (aesdsocket_client.c:107-133, 311-339).                                 *)
THEOREM PacketInvariant == Spec => []Inv
<1>1. Inv /\ [Next]_vars => Inv'
  BY StepInv
<1> QED
  BY InitInv, <1>1, PTL DEF Spec

(* No byte is ever stored outside the memory of packet, in the state the   *)
(* call of ensure_packet_capacity leaves it in (aesdsocket_client.c:326).  *)
THEOREM PacketStoresInside == Spec => StoresInside
<1>1. Inv /\ [Next]_vars => [packet_index' > packet_index => packet_index < capacity']_vars
  BY StepInv
<1> QED
  BY <1>1, PacketInvariant, PTL DEF Spec, StoresInside
-----------------------------------------------------------------------------
(* Where long is narrow, (long)UINT32_MAX is -1 ...                        *)
LEMMA NoNumberFits == Narrow!AsLong(UINT32_MAX) = -1
BY WidthAssumption DEF Narrow!AsLong

(* ... so that no string converts to a number from 0 to it.                *)
LEMMA NoNumberConverts ==
  ASSUME NEW str
  PROVE  Narrow!convert_str_to_long(str, 0, -1) = NULL
<1>1. 0 .. -1 = {}
  OBVIOUS
<1> QED
  BY <1>1 DEF Narrow!convert_str_to_long

(* Whatever a packet says, it is not taken for a seek command where long   *)
(* has 32 bits: every command becomes a line of the log                    *)
(* (aesdsocket_client.c:175-182).                                          *)
THEOREM NarrowLongRefuses == MCSpec => []NarrowLongRefusesAll
<1>1. ASSUME NEW str, NEW other PROVE Narrow!convert_x_and_y(str, other) = NULL
  BY NoNumberFits, NoNumberConverts DEF Narrow!convert_x_and_y
<1>2. ASSUME NEW str PROVE Narrow!parse_x_str_and_y_str(str) = NULL
  BY <1>1 DEF Narrow!parse_x_str_and_y_str
<1>3. NarrowLongRefusesAll
  BY <1>2 DEF NarrowLongRefusesAll, Narrow!is_seekto_packet
<1> QED
  BY <1>3, PTL
-----------------------------------------------------------------------------
(* Where a span of characters that are, or are not, in a set ends.         *)
LEMMA LeastOf ==
  ASSUME NEW T \in SUBSET Nat, T # {}, NEW end, end = Wide!Min(T)
  PROVE  end \in T /\ \A k \in T : end <= k
<1> DEFINE Least(m) == m \in T /\ \A k \in T : m <= k
<1>1. \E m : Least(m)
  BY LeastNumber
<1>2. end = CHOOSE m : Least(m)
  BY DEF Wide!Min
<1> QED
  BY <1>1, <1>2

(* strspn(str, i, chars): no character from i to there is outside chars.   *)
LEMMA Span ==
  ASSUME NEW C, NEW str \in Seq(C), NEW i \in Nat \ {0}, NEW chars, NEW end,
         end = Wide!strspn(str, i, chars)
  PROVE  /\ end \in 1 .. Len(str)+1
         /\ \A k \in i .. end-1 : k \in 1..Len(str) /\ str[k] \in chars
         /\ i <= Len(str) + 1 => i <= end
         /\ end <= Len(str) => i <= end /\ str[end] \notin chars
<1> DEFINE n == Len(str)
           T == {k \in i..n : str[k] \notin chars} \cup {n + 1}
<1>1. n \in Nat
  BY LenProperties
<1>2. T \in SUBSET Nat /\ T # {} /\ end = Wide!Min(T)
  BY <1>1 DEF Wide!strspn
<1>3. end \in T /\ \A k \in T : end <= k
  <2> HIDE DEF T
  <2> QED
    BY <1>2, LeastOf
<1>4. end \in 1 .. n+1 /\ (end <= n => i <= end /\ str[end] \notin chars)
  BY <1>1, <1>3
<1>5. i <= n + 1 => i <= end
  BY <1>1, <1>3
<1>6. ASSUME NEW k \in i .. end-1 PROVE k \in 1..n /\ str[k] \in chars
  <2>1. k \in i..n /\ k < end
    BY <1>1, <1>4
  <2>2. k \notin T
    BY <1>3, <2>1
  <2> QED
    BY <2>1, <2>2
<1> QED
  BY <1>4, <1>5, <1>6

(* strcspn(str, i, chars): every one is.                                   *)
LEMMA OtherSpan ==
  ASSUME NEW C, NEW str \in Seq(C), NEW i \in Nat \ {0}, NEW chars, NEW end,
         end = Wide!strcspn(str, i, chars)
  PROVE  /\ end \in 1 .. Len(str)+1
         /\ \A k \in i .. end-1 : k \in 1..Len(str) /\ str[k] \notin chars
         /\ i <= Len(str) + 1 => i <= end
         /\ end <= Len(str) => i <= end /\ str[end] \in chars
<1> DEFINE n == Len(str)
           T == {k \in i..n : str[k] \in chars} \cup {n + 1}
<1>1. n \in Nat
  BY LenProperties
<1>2. T \in SUBSET Nat /\ T # {} /\ end = Wide!Min(T)
  BY <1>1 DEF Wide!strcspn
<1>3. end \in T /\ \A k \in T : end <= k
  <2> HIDE DEF T
  <2> QED
    BY <1>2, LeastOf
<1>4. end \in 1 .. n+1 /\ (end <= n => i <= end /\ str[end] \in chars)
  BY <1>1, <1>3
<1>5. i <= n + 1 => i <= end
  BY <1>1, <1>3
<1>6. ASSUME NEW k \in i .. end-1 PROVE k \in 1..n /\ str[k] \notin chars
  <2>1. k \in i..n /\ k < end
    BY <1>1, <1>4
  <2>2. k \notin T
    BY <1>3, <2>1
  <2> QED
    BY <2>1, <2>2
<1> QED
  BY <1>4, <1>5, <1>6

(* The recursion of strtol, which reads a numeral from left to right: of[n] *)
(* is what its first n digits read.                                        *)
Decimal(of, digit, m) ==
  of = [n \in 0..m |-> IF n = 0 THEN 0 ELSE 10 * of[n-1] + digit[n-1]]

(* That of the grammar, which counts ones, tens, hundreds, ...             *)
Units(unit, m) == unit = [n \in 0..m |-> IF n = 0 THEN 1 ELSE 10 * unit[n-1]]

(* There is such a function, of natural numbers ...                        *)
LEMMA DecimalExists ==
  ASSUME NEW m \in Nat, NEW digit, \A i \in 0..m-1 : digit[i] \in Nat
  PROVE  \E of \in [0..m -> Nat] : Decimal(of, digit, m)
<1> DEFINE next == [i \in 0..m-1 |-> [x \in Nat |-> 10 * x + digit[i]]]
<1>1. \A i \in 0..m-1 : \A x \in Nat : next[i][x] = 10 * x + digit[i]
  OBVIOUS
<1>2. PICK of \in [0..m -> Nat] : Steps(of, 0, next, m)
  <2>1. \A i \in 0..m-1 : \A x \in Nat : next[i][x] \in Nat
    BY <1>1
  <2>2. 0 \in Nat
    OBVIOUS
  <2> HIDE DEF next
  <2> QED
    BY <2>1, <2>2, Recursion
<1> HIDE DEF next
<1>3. ASSUME NEW i \in 0..m, i # 0 PROVE of[i] = 10 * of[i-1] + digit[i-1]
  <2>1. i-1 \in 0..m-1 /\ (i-1)+1 = i
    BY <1>3
  <2>2. of[i-1] \in Nat
    BY <2>1
  <2> QED
    BY <1>1, <1>2, <2>1, <2>2 DEF Steps
<1>4. of[0] = 0 /\ \A i \in 0..m : i # 0 => of[i] = 10 * of[i-1] + digit[i-1]
  BY <1>2, <1>3 DEF Steps
<1> QED
  BY <1>4 DEF Decimal

(* ... and every such function is one.                                     *)
LEMMA DecimalType ==
  ASSUME NEW m \in Nat, NEW digit, \A i \in 0..m-1 : digit[i] \in Nat,
         NEW of, Decimal(of, digit, m)
  PROVE  /\ of \in [0..m -> Nat] /\ of[0] = 0
         /\ \A i \in 0..m-1 : of[i+1] = 10 * of[i] + digit[i]
<1>1. /\ DOMAIN of = 0..m /\ of[0] = 0
      /\ \A i \in 0..m : i # 0 => of[i] = 10 * of[i-1] + digit[i-1]
  BY DEF Decimal
<1>2. \A i \in 0..m-1 : of[i+1] = 10 * of[i] + digit[i]
  <2> TAKE i \in 0..m-1
  <2>1. i+1 \in 0..m /\ i+1 # 0 /\ (i+1)-1 = i
    OBVIOUS
  <2> QED
    BY <1>1, <2>1
<1> DEFINE T == {k \in 0..m : of[k] \in Nat}
<1>3. 0 \in T
  BY <1>1
<1>4. \A i \in 0..m-1 : i \in T => i + 1 \in T
  BY <1>2
<1>5. \A i \in 0..m : of[i] \in Nat
  <2> HIDE DEF T
  <2>1. \A i \in 0..m : i \in T
    BY <1>3, <1>4, InductionUpTo
  <2> QED
    BY <2>1 DEF T
<1>6. of = [i \in 0..m |-> of[i]]
  BY <1>1 DEF Decimal
<1> QED
  BY <1>1, <1>2, <1>5, <1>6

(* So it is with ones, tens, hundreds, ...                                 *)
LEMMA UnitsExist ==
  ASSUME NEW m \in Nat
  PROVE  \E unit \in [0..m -> Nat] : Units(unit, m)
<1> DEFINE next == [i \in 0..m-1 |-> [x \in Nat |-> 10 * x]]
<1>1. \A i \in 0..m-1 : \A x \in Nat : next[i][x] = 10 * x
  OBVIOUS
<1>2. PICK unit \in [0..m -> Nat] : Steps(unit, 1, next, m)
  <2>1. \A i \in 0..m-1 : \A x \in Nat : next[i][x] \in Nat
    BY <1>1
  <2>2. 1 \in Nat
    OBVIOUS
  <2> HIDE DEF next
  <2> QED
    BY <2>1, <2>2, Recursion
<1> HIDE DEF next
<1>3. ASSUME NEW i \in 0..m, i # 0 PROVE unit[i] = 10 * unit[i-1]
  <2>1. i-1 \in 0..m-1 /\ (i-1)+1 = i
    BY <1>3
  <2>2. unit[i-1] \in Nat
    BY <2>1
  <2> QED
    BY <1>1, <1>2, <2>1, <2>2 DEF Steps
<1>4. unit[0] = 1 /\ \A i \in 0..m : i # 0 => unit[i] = 10 * unit[i-1]
  BY <1>2, <1>3 DEF Steps
<1> QED
  BY <1>4 DEF Units

LEMMA UnitsType ==
  ASSUME NEW m \in Nat, NEW unit, Units(unit, m)
  PROVE  /\ unit \in [0..m -> Nat] /\ unit[0] = 1
         /\ \A i \in 0..m-1 : unit[i+1] = 10 * unit[i]
<1>1. /\ DOMAIN unit = 0..m /\ unit[0] = 1
      /\ \A i \in 0..m : i # 0 => unit[i] = 10 * unit[i-1]
  BY DEF Units
<1>2. \A i \in 0..m-1 : unit[i+1] = 10 * unit[i]
  <2> TAKE i \in 0..m-1
  <2>1. i+1 \in 0..m /\ i+1 # 0 /\ (i+1)-1 = i
    OBVIOUS
  <2> QED
    BY <1>1, <2>1
<1> DEFINE T == {k \in 0..m : unit[k] \in Nat}
<1>3. 0 \in T
  BY <1>1
<1>4. \A i \in 0..m-1 : i \in T => i + 1 \in T
  BY <1>2
<1>5. \A i \in 0..m : unit[i] \in Nat
  <2> HIDE DEF T
  <2>1. \A i \in 0..m : i \in T
    BY <1>3, <1>4, InductionUpTo
  <2> QED
    BY <2>1 DEF T
<1>6. unit = [i \in 0..m |-> unit[i]]
  BY <1>1 DEF Units
<1> QED
  BY <1>1, <1>2, <1>5, <1>6

(* One digit more is counted from the right, one less read from the left.  *)
LEMMA OneDigit ==
  ASSUME NEW a \in Nat, NEW d \in Nat, NEW u \in Nat, NEW s \in Nat
  PROVE  (10 * a + d) * u + s = a * (10 * u) + (s + u * d)
OBVIOUS

(* Both recursions come to the same number.                                *)
LEMMA BothWays ==
  ASSUME NEW m \in Nat, NEW digit \in [0..m-1 -> Nat],
         NEW of \in [0..m -> Nat], of[0] = 0,
         \A i \in 0..m-1 : of[i+1] = 10 * of[i] + digit[i],
         NEW unit \in [0..m -> Nat], unit[0] = 1,
         \A i \in 0..m-1 : unit[i+1] = 10 * unit[i],
         NEW sum \in [0..m -> Nat], sum[0] = 0,
         \A i \in 0..m-1 : sum[i+1] = sum[i] + unit[i] * digit[m-1-i]
  PROVE  of[m] = sum[m]
<1> DEFINE T == {j \in 0..m : of[m] = of[m-j] * unit[j] + sum[j]}
<1>1. 0 \in T
  <2>1. m - 0 = m /\ of[m] \in Nat
    OBVIOUS
  <2>2. of[m] * 1 + 0 = of[m]
    BY <2>1
  <2> QED
    BY <2>1, <2>2
<1>2. ASSUME NEW j \in 0..m-1, j \in T PROVE j + 1 \in T
  <2> DEFINE k == m - 1 - j
             a == of[k]
             d == digit[k]
             u == unit[j]
             s == sum[j]
  <2>1. k \in 0..m-1 /\ k + 1 = m - j /\ k = m - (j+1) /\ j + 1 \in 0..m
    OBVIOUS
  <2>2. a \in Nat /\ d \in Nat /\ u \in Nat /\ s \in Nat
    <3>1. k \in 0..m /\ j \in 0..m
      BY <2>1
    <3> HIDE DEF k
    <3> QED
      BY <2>1, <3>1
  <2>3. of[m-j] = 10 * a + d
    <3> HIDE DEF k
    <3> QED
      BY <2>1
  <2>4. unit[j+1] = 10 * u /\ sum[j+1] = s + u * d
    BY <2>1
  <2>5. of[m] = of[m-j] * u + s
    BY <1>2
  <2>6. of[m] = (10 * a + d) * u + s
    BY ONLY <2>3, <2>5
  <2>7. of[m] = a * (10 * u) + (s + u * d)
    <3> HIDE DEF a, d, u, s
    <3> QED
      BY <2>2, <2>6, OneDigit
  <2>8. of[m] = of[m-(j+1)] * unit[j+1] + sum[j+1]
    BY <2>1, <2>4, <2>7
  <2> QED
    BY <2>1, <2>8
<1>3. m \in T
  <2> HIDE DEF T
  <2>1. m \in 0..m
    OBVIOUS
  <2> QED
    BY <1>1, <1>2, <2>1, InductionUpTo
<1>4. of[m-m] * unit[m] = 0
  <2>1. m - m = 0 /\ unit[m] \in Nat
    OBVIOUS
  <2> QED
    BY <2>1
<1>5. sum[m] \in Nat
  OBVIOUS
<1> QED
  BY <1>3, <1>4, <1>5

(* A digit has a value.                                                    *)
LEMMA DigitValue ==
  ASSUME NEW c \in ToSet(Wide!Digits)
  PROVE  Wide!Value(c) \in Nat
<1>1. PICK i \in 1..10 : c = Wide!Digits[i]
  BY DEF ToSet, Wide!Digits
<1>2. i-1 \in 0..9 /\ Wide!Digits[(i-1)+1] = c
  BY <1>1
<1>3. Wide!Value(c) \in 0..9
  BY <1>2 DEF Wide!Value
<1> QED
  BY <1>3

(* Digits, spaces and signs are different characters.                      *)
LEMMA CharactersDiffer ==
  /\ \A c \in ToSet(Wide!Digits) : c \notin Wide!Space \cup Wide!Signs
  /\ \A c \in Wide!Signs : c \notin Wide!Space
  /\ Wide!Minus \in Wide!Signs
<1>1. ASSUME NEW c \in ToSet(Wide!Digits)
      PROVE  c \in {"0", "1", "2", "3", "4", "5", "6", "7", "8", "9"}
  <2>1. PICK i \in 1..10 : c = Wide!Digits[i]
    BY DEF ToSet, Wide!Digits
  <2> QED
    BY <2>1 DEF Wide!Digits
<1>2. \A c \in {"0", "1", "2", "3", "4", "5", "6", "7", "8", "9"} :
        c \notin Wide!Space \cup Wide!Signs
  BY Zenon DEF Wide!Space, Wide!Signs, Wide!Minus
<1>3. \A c \in Wide!Signs : c \notin Wide!Space
  BY Zenon DEF Wide!Space, Wide!Signs, Wide!Minus
<1>4. Wide!Minus \in Wide!Signs
  BY Zenon DEF Wide!Signs
<1> QED
  BY <1>1, <1>2, <1>3, <1>4

(* Read from left to right or from right to left, the digits are the same  *)
(* number.                                                                 *)
LEMMA NumeralIs ==
  ASSUME NEW m \in Nat, NEW digits, Len(digits) = m,
         NEW digit \in [0..m-1 -> Nat],
         \A i \in 0..m-1 : digit[i] = Wide!Value(digits[i+1]),
         NEW of, Decimal(of, digit, m)
  PROVE  Numeral(digits) = of[m] /\ of[m] \in Nat
<1> DEFINE IsUnit(unit) == unit = [n \in 0..Len(digits) |-> IF n = 0 THEN 1 ELSE 10 * unit[n-1]]
           unit == CHOOSE unit : IsUnit(unit)
           IsSum(sum) == sum = [n \in 0..Len(digits) |->
             IF n = 0 THEN 0
             ELSE sum[n-1] + unit[n-1] * Wide!Value(digits[Len(digits) - n + 1])]
           sum == CHOOSE sum : IsSum(sum)
<1>1. Numeral(digits) = sum[m]
  BY DEF Numeral
<1>2. Units(unit, m)
  <2>1. \A f : IsUnit(f) <=> Units(f, m)
    BY DEF Units
  <2>2. \E f : IsUnit(f)
    <3> HIDE DEF IsUnit
    <3> QED
      BY <2>1, UnitsExist
  <2>3. IsUnit(unit)
    <3> HIDE DEF IsUnit
    <3> QED
      BY <2>2
  <2> HIDE DEF unit, IsUnit
  <2> QED
    BY <2>1, <2>3
<1> HIDE DEF unit
<1>3. /\ unit \in [0..m -> Nat] /\ unit[0] = 1
      /\ \A i \in 0..m-1 : unit[i+1] = 10 * unit[i]
  BY <1>2, UnitsType
<1> DEFINE size == [i \in 0..m-1 |-> unit[i] * digit[m-1-i]]
<1>4. \A i \in 0..m-1 : size[i] \in Nat
  <2> TAKE i \in 0..m-1
  <2>1. unit[i] \in Nat /\ digit[m-1-i] \in Nat
    BY <1>3
  <2> QED
    BY <2>1
<1>5. \A f : IsSum(f) <=> Sums(f, size, m)
  <2>1. ASSUME NEW n \in 0..m, n # 0
        PROVE  size[n-1] = unit[n-1] * Wide!Value(digits[Len(digits) - n + 1])
    <3>1. n-1 \in 0..m-1 /\ m-1-(n-1) = m-n /\ m-n \in 0..m-1
      BY <2>1
    <3>2. Len(digits) - n + 1 = (m-n) + 1
      OBVIOUS
    <3> QED
      BY <3>1, <3>2
  <2> HIDE DEF size
  <2> QED
    BY <2>1 DEF Sums
<1> HIDE DEF size
<1>6. Sums(sum, size, m)
  <2>1. \E f : Sums(f, size, m)
    BY <1>4, SumsExist
  <2> HIDE DEF IsSum
  <2>2. \E f : IsSum(f)
    BY <1>5, <2>1
  <2>3. IsSum(sum)
    BY <2>2
  <2> HIDE DEF sum
  <2> QED
    BY <1>5, <2>3
<1> HIDE DEF sum, IsSum
<1>7. sum \in [0..m -> Nat] /\ sum[0] = 0 /\ \A i \in 0..m-1 : sum[i+1] = sum[i] + size[i]
  BY ONLY <1>4, <1>6, m \in Nat, SumsType
<1>8. \A i \in 0..m-1 : sum[i+1] = sum[i] + unit[i] * digit[m-1-i]
  BY <1>7 DEF size
<1>9. /\ of \in [0..m -> Nat] /\ of[0] = 0
      /\ \A i \in 0..m-1 : of[i+1] = 10 * of[i] + digit[i]
  <2>1. \A i \in 0..m-1 : digit[i] \in Nat
    OBVIOUS
  <2> QED
    BY ONLY <2>1, Decimal(of, digit, m), m \in Nat, DecimalType
<1>10. of[m] = sum[m]
  BY ONLY <1>3, <1>7, <1>8, <1>9, BothWays, m \in Nat, digit \in [0..m-1 -> Nat]
<1> QED
  BY <1>1, <1>9, <1>10

(* A numeral from first on, and a sign or spaces in front of it.           *)
IsNumber(str, first) ==
  /\ first \in 1..Len(str)
  /\ \A k \in first..Len(str) : str[k] \in ToSet(Wide!Digits)
  /\ \A k \in 1 .. first-2 : str[k] \in Wide!Space
  /\ first > 1 => str[first-1] \in Wide!Space \cup Wide!Signs

Negative(str, first) == first > 1 /\ str[first-1] = Wide!Minus
NumberOf(str, first) == Numeral(SubSeq(str, first, Len(str)))

(* Of the places at which strtol stops: the sign, the first digit, the end. *)
Sign(str) == Wide!strspn(str, 1, Wide!Space)
Signed(str) == Sign(str) <= Len(str) /\ str[Sign(str)] \in Wide!Signs
First(str) == IF Signed(str) THEN Sign(str) + 1 ELSE Sign(str)
End(str) == Wide!strspn(str, First(str), ToSet(Wide!Digits))

(* What strtol passes over, and what it stops at.                          *)
LEMMA Stops ==
  ASSUME NEW C, NEW str \in Seq(C)
  PROVE  /\ Sign(str) \in 1 .. Len(str)+1
         /\ \A k \in 1 .. Sign(str)-1 : str[k] \in Wide!Space
         /\ Sign(str) <= Len(str) => str[Sign(str)] \notin Wide!Space
         /\ First(str) \in 1 .. Len(str)+1 /\ End(str) \in First(str) .. Len(str)+1
         /\ \A k \in First(str) .. End(str)-1 : str[k] \in ToSet(Wide!Digits)
         /\ End(str) <= Len(str) => str[End(str)] \notin ToSet(Wide!Digits)
<1> DEFINE n == Len(str)
<1>1. n \in Nat
  BY LenProperties
<1>2. /\ Sign(str) \in 1 .. n+1 /\ \A k \in 1 .. Sign(str)-1 : str[k] \in Wide!Space
      /\ Sign(str) <= n => str[Sign(str)] \notin Wide!Space
  <2> DEFINE s == Sign(str)
  <2>1. s = Wide!strspn(str, 1, Wide!Space) /\ 1 \in Nat \ {0}
    BY DEF Sign
  <2> HIDE DEF s
  <2>2. /\ s \in 1 .. n+1 /\ \A k \in 1 .. s-1 : str[k] \in Wide!Space
        /\ s <= n => str[s] \notin Wide!Space
    BY ONLY <2>1, Span, str \in Seq(C)
  <2> QED
    BY <2>2 DEF s
<1>3. First(str) \in 1 .. n+1
  BY <1>1, <1>2 DEF First, Signed
<1>4. /\ End(str) \in First(str) .. n+1
      /\ \A k \in First(str) .. End(str)-1 : str[k] \in ToSet(Wide!Digits)
      /\ End(str) <= n => str[End(str)] \notin ToSet(Wide!Digits)
  <2> DEFINE f == First(str)
             e == End(str)
  <2>1. e = Wide!strspn(str, f, ToSet(Wide!Digits)) /\ f \in Nat \ {0} /\ f <= n + 1
    BY <1>1, <1>3 DEF End
  <2> HIDE DEF e, f
  <2>2. /\ e \in 1 .. n+1 /\ f <= e /\ \A k \in f .. e-1 : str[k] \in ToSet(Wide!Digits)
        /\ e <= n => str[e] \notin ToSet(Wide!Digits)
    BY ONLY <2>1, Span, str \in Seq(C)
  <2>3. e \in f .. n+1
    BY <1>1, <2>1, <2>2
  <2> QED
    BY <2>2, <2>3 DEF e, f
<1> QED
  BY <1>2, <1>3, <1>4

(* A string that is a number: where strtol stops.                          *)
LEMMA StopsAtNumber ==
  ASSUME NEW C, NEW str \in Seq(C), NEW first, IsNumber(str, first)
  PROVE  /\ First(str) = first /\ End(str) = Len(str) + 1
         /\ (Signed(str) /\ str[Sign(str)] = Wide!Minus) <=> Negative(str, first)
<1> DEFINE n == Len(str)
           s == Sign(str)
           e == End(str)
<1>1. n \in Nat /\ first \in 1..n
  BY LenProperties DEF IsNumber
<1>2. /\ s \in 1 .. n+1 /\ \A k \in 1 .. s-1 : str[k] \in Wide!Space
      /\ s <= n => str[s] \notin Wide!Space
  BY Stops
<1>3. str[first] \in ToSet(Wide!Digits) /\ str[first] \notin Wide!Space \cup Wide!Signs
  <2>1. str[first] \in ToSet(Wide!Digits)
    BY <1>1 DEF IsNumber
  <2> QED
    BY <2>1, CharactersDiffer
<1>4. s <= first
  BY <1>1, <1>2, <1>3
<1>5. ASSUME first > 1 /\ str[first-1] \in Wide!Signs
      PROVE  First(str) = first /\ ((Signed(str) /\ str[s] = Wide!Minus) <=> Negative(str, first))
  <2>1. s = first-1
    <3>1. first-1 \in 1..n /\ str[first-1] \notin Wide!Space
      BY <1>1, <1>5, CharactersDiffer
    <3>2. s <= first-1
      BY <1>1, <1>2, <3>1
    <3>3. ~(s < first-1)
      BY <1>1, <1>2 DEF IsNumber
    <3> QED
      BY <1>1, <1>2, <3>2, <3>3
  <2>2. Signed(str) /\ First(str) = first
    BY <1>1, <1>5, <2>1 DEF Signed, First
  <2>3. (str[s] = Wide!Minus) <=> Negative(str, first)
    BY <1>5, <2>1 DEF Negative
  <2> QED
    BY <2>2, <2>3
<1>6. ASSUME ~(first > 1 /\ str[first-1] \in Wide!Signs)
      PROVE  First(str) = first /\ ((Signed(str) /\ str[s] = Wide!Minus) <=> Negative(str, first))
  <2>1. s = first
    <3>1. \A k \in 1..first-1 : str[k] \in Wide!Space
      BY <1>1, <1>6 DEF IsNumber
    <3> QED
      BY <1>1, <1>2, <1>4, <3>1
  <2>2. ~Signed(str) /\ First(str) = first
    BY <1>3, <2>1 DEF Signed, First
  <2>3. ~Negative(str, first)
    BY <1>6, CharactersDiffer DEF Negative
  <2> QED
    BY <2>2, <2>3
<1>7. First(str) = first /\ ((Signed(str) /\ str[s] = Wide!Minus) <=> Negative(str, first))
  BY <1>5, <1>6
<1>8. e = n + 1
  <2>1. e \in first .. n+1 /\ (e <= n => str[e] \notin ToSet(Wide!Digits))
    BY <1>7, Stops
  <2> QED
    BY <1>1, <2>1 DEF IsNumber
<1> QED
  BY <1>7, <1>8

(* The other way round.                                                    *)
LEMMA NumberWhereItStops ==
  ASSUME NEW C, NEW str \in Seq(C), First(str) < End(str), End(str) = Len(str) + 1
  PROVE  IsNumber(str, First(str))
<1> DEFINE n == Len(str)
           s == Sign(str)
           f == First(str)
<1>1. n \in Nat
  BY LenProperties
<1>2. /\ s \in 1 .. n+1 /\ \A k \in 1 .. s-1 : str[k] \in Wide!Space
      /\ f \in 1 .. n+1 /\ \A k \in f..n : str[k] \in ToSet(Wide!Digits)
  <2>1. End(str) - 1 = n
    BY <1>1
  <2> QED
    BY <2>1, Stops
<1>3. f \in 1..n
  BY <1>1, <1>2
<1>4. CASE Signed(str)
  <2>1. f = s + 1 /\ f-1 = s /\ f-2 = s-1 /\ str[s] \in Wide!Signs
    BY <1>2, <1>4 DEF First, Signed
  <2> QED
    BY <1>2, <1>3, <2>1 DEF IsNumber
<1>5. CASE ~Signed(str)
  <2>1. f = s
    BY <1>5 DEF First
  <2>2. f > 1 => str[f-1] \in Wide!Space
    BY <1>2, <2>1
  <2>3. \A k \in 1 .. f-2 : str[k] \in Wide!Space
    BY <1>2, <2>1
  <2> QED
    BY <1>2, <1>3, <2>2, <2>3 DEF IsNumber
<1> QED
  BY <1>4, <1>5

(* The recursion in strtol, of the n digits from first on.                 *)
IsReading(of, str, first, m) ==
  of = [n \in 0..m |-> IF n = 0 THEN 0 ELSE 10 * of[n-1] + Wide!Value(str[first + n-1])]
Reading(str, first, m) == CHOOSE of : IsReading(of, str, first, m)

(* strtol in terms of these places.                                        *)
LEMMA StrtolIs ==
  ASSUME NEW str, NEW length, length = End(str) - First(str),
         NEW value, value = Reading(str, First(str), length)[length]
  PROVE  Wide!strtol(str) =
           [value |-> Wide!Saturated(IF Signed(str) /\ str[Sign(str)] = Wide!Minus
                                     THEN -value ELSE value),
            converted |-> First(str) < End(str),
            complete |-> End(str) = Len(str) + 1]
<1>1. Wide!ToSet(Wide!Digits) = ToSet(Wide!Digits)
  BY DEF ToSet, Wide!ToSet
<1> QED
  BY <1>1 DEF Wide!strtol, Sign, Signed, First, End, Reading, IsReading

(* What it reads, from left to right, is what the numeral stands for.      *)
LEMMA ReadingIsNumber ==
  ASSUME NEW C, NEW str \in Seq(C), NEW first, IsNumber(str, first),
         NEW m, m = Len(str) + 1 - first
  PROVE  Reading(str, first, m)[m] = NumberOf(str, first) /\ NumberOf(str, first) \in Nat
<1>1. Len(str) \in Nat /\ first \in 1..Len(str) /\ m \in Nat
  BY LenProperties DEF IsNumber
<1> DEFINE digits == SubSeq(str, first, Len(str))
           digit == [i \in 0..m-1 |-> Wide!Value(digits[i+1])]
<1>2. Len(digits) = m /\ \A i \in 1..m : digits[i] = str[first + i - 1]
  <2>1. /\ Len(digits) = IF first <= Len(str) THEN Len(str) - first + 1 ELSE 0
        /\ \A i \in 1 .. Len(str) - first + 1 : digits[i] = str[first + i - 1]
    BY <1>1, SubSeqProperties
  <2>2. m = Len(str) - first + 1 /\ first <= Len(str)
    BY <1>1
  <2> HIDE DEF digits
  <2> QED
    BY <2>1, <2>2
<1> HIDE DEF digits
<1>3. digit \in [0..m-1 -> Nat] /\ \A i \in 0..m-1 : digit[i] = Wide!Value(digits[i+1])
  <2>1. ASSUME NEW i \in 0..m-1 PROVE Wide!Value(digits[i+1]) \in Nat
    <3>1. i+1 \in 1..m /\ first + (i+1) - 1 \in first..Len(str)
      BY <1>1
    <3>2. str[first + (i+1) - 1] \in ToSet(Wide!Digits)
      BY <3>1 DEF IsNumber
    <3> QED
      BY <1>2, <3>1, <3>2, DigitValue
  <2> QED
    BY <2>1
<1> HIDE DEF digit
<1>4. \A of : IsReading(of, str, first, m) <=> Decimal(of, digit, m)
  <2>1. ASSUME NEW n \in 0..m, n # 0 PROVE digit[n-1] = Wide!Value(str[first + n-1])
    <3>1. n-1 \in 0..m-1 /\ (n-1)+1 = n /\ n \in 1..m /\ first + n - 1 = first + n-1
      BY <1>1, <2>1
    <3> QED
      BY <1>2, <1>3, <3>1
  <2> QED
    BY <2>1 DEF IsReading, Decimal
<1>5. \E of : IsReading(of, str, first, m)
  <2>1. \A i \in 0..m-1 : digit[i] \in Nat
    BY <1>3
  <2> QED
    BY <1>1, <1>4, <2>1, DecimalExists
<1> DEFINE of == Reading(str, first, m)
<1>6. Decimal(of, digit, m)
  BY <1>4, <1>5 DEF Reading
<1> HIDE DEF of
<1>7. Numeral(digits) = of[m] /\ of[m] \in Nat
  <2>1. m \in Nat /\ Len(digits) = m
    BY <1>1, <1>2
  <2> QED
    BY ONLY <2>1, <1>3, <1>6, NumeralIs
<1> QED
  BY <1>7 DEF of, digits, NumberOf

(* What convert_str_to_long makes of a string that is a number ...         *)
LEMMA ConvertsNumber ==
  ASSUME NEW C, NEW str \in Seq(C), NEW first, IsNumber(str, first),
         NEW result, result = Wide!convert_str_to_long(str, 0, UINT32_MAX),
         NEW number, number = NumberOf(str, first)
  PROVE  /\ number \in Nat
         /\ number <= UINT32_MAX /\ (Negative(str, first) => number = 0) => result = number
         /\ ~(number <= UINT32_MAX /\ (Negative(str, first) => number = 0)) => result = NULL
<1> DEFINE n == Len(str)
           m == n + 1 - first
           value == Wide!Saturated(IF Negative(str, first) THEN -number ELSE number)
           r == Wide!strtol(str)
<1>1. n \in Nat /\ first \in 1..n
  BY LenProperties DEF IsNumber
<1>2. /\ First(str) = first /\ End(str) = n + 1
      /\ (Signed(str) /\ str[Sign(str)] = Wide!Minus) <=> Negative(str, first)
  BY StopsAtNumber
<1>3. number \in Nat /\ Reading(str, first, m)[m] = number
  BY ReadingIsNumber
<1>4. r.value = value /\ r.converted /\ r.complete
  <2>1. m = End(str) - First(str)
    BY <1>1, <1>2
  <2> HIDE DEF m
  <2>2. number = Reading(str, First(str), m)[m]
    BY <1>2, <1>3
  <2>3. /\ r.value = Wide!Saturated(IF Signed(str) /\ str[Sign(str)] = Wide!Minus
                                     THEN -number ELSE number)
        /\ r.converted = (First(str) < End(str)) /\ r.complete = (End(str) = n + 1)
    BY <2>1, <2>2, StrtolIs
  <2> HIDE DEF r, value
  <2>4. r.value = value
    BY <1>2, <2>3 DEF value
  <2>5. First(str) < End(str) /\ End(str) = n + 1
    BY <1>1, <1>2
  <2> QED
    BY <2>3, <2>4, <2>5
<1> HIDE DEF r
<1>5. result = IF value \in 0..UINT32_MAX THEN value ELSE NULL
  <2> HIDE DEF value
  <2> QED
    BY <1>4 DEF Wide!convert_str_to_long, r
<1>6. UINT32_MAX \in Nat /\ LONG_MAX64 \in Nat /\ UINT32_MAX < LONG_MAX64
  BY WidthAssumption
<1>7. CASE number <= UINT32_MAX /\ (Negative(str, first) => number = 0)
  <2>1. value = number
    BY <1>3, <1>6, <1>7 DEF Wide!Saturated
  <2> HIDE DEF value
  <2> QED
    BY <1>3, <1>5, <1>6, <1>7, <2>1
<1>8. CASE ~(number <= UINT32_MAX /\ (Negative(str, first) => number = 0))
  <2>1. value \notin 0..UINT32_MAX
    BY <1>3, <1>6, <1>8 DEF Wide!Saturated
  <2> HIDE DEF value
  <2> QED
    BY <1>3, <1>5, <1>8, <2>1
<1> QED
  BY <1>7, <1>8

(* ... and of one that is not.                                             *)
LEMMA RefusesOther ==
  ASSUME NEW C, NEW str \in Seq(C), \A first : ~IsNumber(str, first)
  PROVE  Wide!convert_str_to_long(str, 0, UINT32_MAX) = NULL
<1>1. ~(First(str) < End(str) /\ End(str) = Len(str) + 1)
  BY NumberWhereItStops
<1> DEFINE r == Wide!strtol(str)
<1>2. r.converted = (First(str) < End(str)) /\ r.complete = (End(str) = Len(str) + 1)
  BY StrtolIs
<1> HIDE DEF r
<1>3. ~(r.converted /\ r.complete)
  BY <1>1, <1>2
<1> QED
  BY <1>3 DEF Wide!convert_str_to_long, r

(* What a field reads as, in terms of its text alone.                      *)
ReadsAs(str, n) ==
  \E p : IsNumber(str, p) /\ n = NumberOf(str, p) /\ (Negative(str, p) => n = 0)

LEMMA ReadsIs ==
  ASSUME NEW V \in Seq(Char), V = Visible, NEW a \in 1..Len(V), NEW b \in a..Len(V),
         NEW str, str = SubSeq(V, a, b), NEW n
  PROVE  /\ str \in Seq(Char)
         /\ Reads(<<a, b>>, n) <=> ReadsAs(str, n)
<1>1. Len(V) \in Nat /\ a \in Nat /\ b \in Nat /\ 1 <= a /\ a <= b /\ b <= Len(V)
  BY LenProperties
<1>2. /\ str \in Seq(Char) /\ Len(str) = b - a + 1
      /\ \A i \in 1 .. b-a+1 : str[i] = V[a + i - 1]
  BY <1>1, SubSeqProperties
<1> DEFINE HasSign(first) == first > a /\ V[first-1] = Wide!Minus
           Numeric(first) ==
             /\ \A k \in first..b : V[k] \in ToSet(Wide!Digits)
             /\ \A k \in a .. first-2 : V[k] \in Wide!Space
             /\ first > a => V[first-1] \in Wide!Space \cup Wide!Signs
<1>3. Reads(<<a, b>>, n) <=>
        \E first \in a..b : /\ Numeric(first) /\ n = Numeral(SubSeq(V, first, b))
                            /\ HasSign(first) => n = 0
  BY DEF Reads
<1>4. ASSUME NEW first \in a..b, NEW p, p = first - a + 1
      PROVE  /\ Numeric(first) <=> IsNumber(str, p)
             /\ HasSign(first) <=> Negative(str, p)
             /\ Numeral(SubSeq(V, first, b)) = NumberOf(str, p)
  <2>1. p \in 1..Len(str) /\ first = a + p - 1 /\ first \in Nat
    BY <1>1, <1>2, <1>4
  <2>2. ASSUME NEW k \in a..b PROVE k-a+1 \in 1..Len(str) /\ V[k] = str[k-a+1]
    <3>1. k-a+1 \in 1 .. b-a+1 /\ a + (k-a+1) - 1 = k
      BY <1>1
    <3> QED
      BY <1>2, <3>1
  <2>3. ASSUME NEW i \in 1..Len(str) PROVE a + i - 1 \in a..b /\ V[a + i - 1] = str[i]
    BY <1>1, <1>2
  <2>4. first > a => first-1 \in a..b /\ (first-1)-a+1 = p-1
    BY <1>1, <1>4
  <2>5. (first > a <=> p > 1) /\ (first > a => V[first-1] = str[p-1])
    BY <1>1, <1>4, <2>2, <2>4
  <2>6. Numeric(first) => IsNumber(str, p)
    <3> SUFFICES ASSUME Numeric(first) PROVE IsNumber(str, p)
      OBVIOUS
    <3>1. ASSUME NEW i \in p..Len(str) PROVE str[i] \in ToSet(Wide!Digits)
      <4>1. a + i - 1 \in first..b /\ i \in 1..Len(str)
        BY <1>1, <1>2, <2>1
      <4> QED
        BY <2>3, <4>1
    <3>2. ASSUME NEW i \in 1 .. p-2 PROVE str[i] \in Wide!Space
      <4>1. a + i - 1 \in a .. first-2 /\ i \in 1..Len(str)
        BY <1>1, <1>2, <2>1
      <4> QED
        BY <2>3, <4>1
    <3> QED
      BY <2>1, <2>5, <3>1, <3>2 DEF IsNumber
  <2>7. IsNumber(str, p) => Numeric(first)
    <3> SUFFICES ASSUME IsNumber(str, p) PROVE Numeric(first)
      OBVIOUS
    <3>1. ASSUME NEW k \in first..b PROVE V[k] \in ToSet(Wide!Digits)
      <4>1. k-a+1 \in p..Len(str) /\ k \in a..b
        BY <1>1, <1>2, <2>1
      <4> QED
        BY <2>2, <4>1 DEF IsNumber
    <3>2. ASSUME NEW k \in a .. first-2 PROVE V[k] \in Wide!Space
      <4>1. k-a+1 \in 1 .. p-2 /\ k \in a..b
        BY <1>1, <1>2, <2>1
      <4> QED
        BY <2>2, <4>1 DEF IsNumber
    <3> QED
      BY <2>5, <3>1, <3>2 DEF IsNumber
  <2>8. HasSign(first) <=> Negative(str, p)
    BY <2>5 DEF Negative
  <2>9. SubSeq(V, first, b) = SubSeq(str, p, Len(str))
    <3>1. a + p - 1 = first /\ a + Len(str) - 1 = b /\ Len(str) = (b + 1) - a
      BY <1>1, <1>2, <2>1
    <3> QED
      BY <1>1, <2>1, <3>1, SubSeqOfSubSeq
  <2> HIDE DEF Numeric, HasSign
  <2> QED
    BY <2>6, <2>7, <2>8, <2>9 DEF NumberOf
<1> HIDE DEF Numeric, HasSign
<1>5. ASSUME Reads(<<a, b>>, n)
      PROVE  \E p : IsNumber(str, p) /\ n = NumberOf(str, p) /\ (Negative(str, p) => n = 0)
  <2>1. PICK first \in a..b : /\ Numeric(first) /\ n = Numeral(SubSeq(V, first, b))
                              /\ HasSign(first) => n = 0
    BY <1>3, <1>5
  <2> DEFINE p == first - a + 1
  <2>2. /\ Numeric(first) <=> IsNumber(str, p)
        /\ HasSign(first) <=> Negative(str, p)
        /\ Numeral(SubSeq(V, first, b)) = NumberOf(str, p)
    BY <1>4
  <2> HIDE DEF p
  <2> QED
    BY <2>1, <2>2
<1>6. ASSUME NEW p, IsNumber(str, p), n = NumberOf(str, p), Negative(str, p) => n = 0
      PROVE  Reads(<<a, b>>, n)
  <2> DEFINE first == a + p - 1
  <2>1. first \in a..b /\ p = first - a + 1
    BY <1>1, <1>2, <1>6 DEF IsNumber
  <2>2. /\ Numeric(first) <=> IsNumber(str, p)
        /\ HasSign(first) <=> Negative(str, p)
        /\ Numeral(SubSeq(V, first, b)) = NumberOf(str, p)
    BY <1>4, <2>1
  <2> HIDE DEF first
  <2> QED
    BY <1>3, <1>6, <2>1, <2>2
<1> QED
  BY <1>2, <1>5, <1>6 DEF ReadsAs

(* A field is converted exactly to the number it reads as, if any.         *)
LEMMA ConvertsString ==
  ASSUME NEW C, NEW str \in Seq(C), NEW f,
         \A n : Reads(f, n) <=> ReadsAs(str, n),
         NEW result, result = Wide!convert_str_to_long(str, 0, UINT32_MAX)
  PROVE  \/ result = NULL /\ Numbers(f) = {}
         \/ result \in 0..UINT32_MAX /\ result # NULL /\ Numbers(f) = {result}
<1>1. UINT32_MAX \in Nat /\ \A n \in 0..UINT32_MAX : n # NULL
  BY WidthAssumption, NullAssumption
<1>2. ASSUME NEW n \in Numbers(f) PROVE result = n
  <2>1. n \in 0..UINT32_MAX /\ Reads(f, n)
    BY DEF Numbers
  <2>2. PICK p : IsNumber(str, p) /\ n = NumberOf(str, p) /\ (Negative(str, p) => n = 0)
    <3>1. ReadsAs(str, n)
      BY <2>1
    <3> QED
      BY <3>1 DEF ReadsAs
  <2>3. n <= UINT32_MAX
    BY <2>1
  <2> QED
    BY <2>2, <2>3, ConvertsNumber
<1>3. ASSUME result # NULL PROVE result \in Numbers(f)
  <2>1. PICK p : IsNumber(str, p)
    BY <1>3, RefusesOther
  <2>2. PICK n : n = NumberOf(str, p)
    OBVIOUS
  <2>3. n \in Nat /\ n <= UINT32_MAX /\ (Negative(str, p) => n = 0) /\ result = n
    BY <1>3, <2>1, <2>2, ConvertsNumber
  <2>4. Reads(f, n)
    <3>1. ReadsAs(str, n)
      BY <2>1, <2>2, <2>3 DEF ReadsAs
    <3> QED
      BY <3>1
  <2>5. n \in 0..UINT32_MAX
    BY <1>1, <2>3
  <2> QED
    BY <2>3, <2>4, <2>5 DEF Numbers
<1>4. Numbers(f) \subseteq 0..UINT32_MAX
  BY DEF Numbers
<1>5. CASE result = NULL
  BY <1>1, <1>2, <1>4, <1>5
<1>6. CASE result # NULL
  BY <1>2, <1>3, <1>4, <1>6
<1> QED
  BY <1>5, <1>6

LEMMA ConvertsField ==
  ASSUME NEW V \in Seq(Char), V = Visible, NEW a \in 1..Len(V), NEW b \in a..Len(V),
         NEW result, result = Wide!convert_str_to_long(SubSeq(V, a, b), 0, UINT32_MAX)
  PROVE  \/ result = NULL /\ Numbers(<<a, b>>) = {}
         \/ result \in 0..UINT32_MAX /\ result # NULL /\ Numbers(<<a, b>>) = {result}
<1>1. PICK str : str = SubSeq(V, a, b)
  OBVIOUS
<1>2. PICK f : f = <<a, b>>
  OBVIOUS
<1>3. str \in Seq(Char)
  BY <1>1, ReadsIs
<1>4. ASSUME NEW n
      PROVE  Reads(<<a, b>>, n) <=> ReadsAs(str, n)
  BY <1>1, ReadsIs
<1>5. \A n : Reads(f, n) <=> ReadsAs(str, n)
  BY ONLY <1>2, <1>4
<1>6. result = Wide!convert_str_to_long(str, 0, UINT32_MAX)
  BY ONLY <1>1, result = Wide!convert_str_to_long(SubSeq(V, a, b), 0, UINT32_MAX)
<1>7. \/ result = NULL /\ Numbers(f) = {}
      \/ result \in 0..UINT32_MAX /\ result # NULL /\ Numbers(f) = {result}
  BY ONLY <1>3, <1>5, <1>6, ConvertsString
<1> QED
  BY ONLY <1>2, <1>7

(* A token is what is between two commas: from a to b.                     *)
IsToken(str, a, b) ==
  /\ a \in 1..Len(str) /\ b \in a..Len(str)
  /\ \A k \in a..b : str[k] # Wide!Comma
  /\ b = Len(str) \/ str[b+1] = Wide!Comma

(* What strtok finds from place i on.                                      *)
FirstToken(str, i, t) ==
  \/ t.token = NULL /\ \A k \in 1..Len(str) : k >= i => str[k] = Wide!Comma
  \/ \E a, b \in 1..Len(str) :
       /\ i <= a /\ IsToken(str, a, b) /\ \A k \in i..a-1 : str[k] = Wide!Comma
       /\ t.token = SubSeq(str, a, b) /\ t.token # NULL /\ t.next = b + 2

LEMMA TokenIs ==
  ASSUME NEW str \in Seq(Char), NEW i \in Nat \ {0}, NEW t, t = Wide!strtok(str, i)
  PROVE  FirstToken(str, i, t)
<1> DEFINE n == Len(str)
           first == Wide!strspn(str, i, {Wide!Comma})
           end == Wide!strcspn(str, first, {Wide!Comma})
<1>1. n \in Nat
  BY LenProperties
<1>2. t = [token |-> IF first > n THEN NULL ELSE SubSeq(str, first, end - 1), next |-> end + 1]
  BY DEF Wide!strtok
<1>3. /\ first \in 1 .. n+1 /\ \A k \in i .. first-1 : str[k] = Wide!Comma
      /\ first <= n => i <= first /\ str[first] # Wide!Comma
  <2> HIDE DEF n
  <2>1. /\ first \in 1 .. Len(str)+1 /\ \A k \in i .. first-1 : str[k] \in {Wide!Comma}
        /\ first <= Len(str) => i <= first /\ str[first] \notin {Wide!Comma}
    BY Span
  <2> HIDE DEF first
  <2> QED
    BY <2>1 DEF n
<1> HIDE DEF first
<1>4. CASE first > n
  <2>1. t.token = NULL /\ first = n + 1
    BY <1>1, <1>2, <1>3, <1>4
  <2> QED
    BY <1>1, <1>3, <2>1 DEF FirstToken
<1>5. CASE ~(first > n)
  <2> DEFINE b == end - 1
  <2>1. first \in 1..n /\ first \in Nat \ {0} /\ i <= first /\ str[first] # Wide!Comma
    BY <1>1, <1>3, <1>5
  <2>2. /\ end \in 1 .. n+1 /\ first <= end
        /\ \A k \in first .. end-1 : str[k] # Wide!Comma
        /\ end <= n => str[end] = Wide!Comma
    <3>1. /\ end \in 1 .. Len(str)+1
          /\ \A k \in first .. end-1 : k \in 1..Len(str) /\ str[k] \notin {Wide!Comma}
          /\ first <= Len(str)+1 => first <= end
          /\ end <= Len(str) => first <= end /\ str[end] \in {Wide!Comma}
      <4>1. end = Wide!strcspn(str, first, {Wide!Comma})
        OBVIOUS
      <4> HIDE DEF end
      <4> QED
        BY ONLY <2>1, <4>1, OtherSpan, str \in Seq(Char)
    <3> HIDE DEF end
    <3> QED
      BY <1>1, <2>1, <3>1
  <2> HIDE DEF end
  <2>3. end # first
    BY <1>1, <2>1, <2>2
  <2>4. b \in first..n /\ b + 1 = end /\ end + 1 = b + 2
    BY <1>1, <2>1, <2>2, <2>3
  <2>5. IsToken(str, first, b)
    BY <1>1, <2>1, <2>2, <2>4 DEF IsToken
  <2>6. t.token = SubSeq(str, first, b) /\ t.next = b + 2
    <3>1. end - 1 = b
      OBVIOUS
    <3> HIDE DEF b
    <3> QED
      BY ONLY <1>2, <1>5, <2>4, <3>1
  <2>7. t.token # NULL
    <3>1. SubSeq(str, first, b) \in Seq(Char)
      <4>1. first \in Int /\ b \in Int /\ \A k \in first..b : k \in 1..n
        BY <1>1, <2>1, <2>4
      <4>2. \A k \in first..b : str[k] \in Char
        BY <4>1, ElementOfSeq
      <4> HIDE DEF b
      <4> QED
        BY <4>1, <4>2, SubSeqProperties
    <3> QED
      BY <2>6, <3>1, NullAssumption
  <2>8. b \in 1..n
    BY <1>1, <2>1, <2>4
  <2> HIDE DEF b
  <2> QED
    BY <1>3, <2>1, <2>5, <2>6, <2>7, <2>8 DEF FirstToken
<1> QED
  BY <1>4, <1>5

(* A field is a token that begins the text or follows a comma.             *)
IsField(str, a, b) == IsToken(str, a, b) /\ (a = 1 \/ str[a-1] = Wide!Comma)

LEMMA FieldIs ==
  ASSUME NEW V \in Seq(Char), V = Visible
  PROVE  /\ \A a, b : <<a, b>> \in Fields <=> IsField(V, a, b)
         /\ \A f \in Fields : f = <<f[1], f[2]>> /\ IsField(V, f[1], f[2])
<1>1. Len(V) \in Nat
  BY LenProperties
<1>2. ASSUME NEW a, NEW b PROVE <<a, b>> \in Fields <=> IsField(V, a, b)
  <2>1. b \in a..Len(V) /\ a \in 1..Len(V) <=> a \in 1..Len(V) /\ b \in 1..Len(V) /\ a <= b
    BY <1>1
  <2> DEFINE f == <<a, b>>
  <2>2. f \in (1..Len(V)) \X (1..Len(V)) <=> a \in 1..Len(V) /\ b \in 1..Len(V)
    OBVIOUS
  <2>3. f[1] = a /\ f[2] = b
    OBVIOUS
  <2> HIDE DEF f
  <2>4. f \in Fields <=> IsField(V, a, b)
    BY <2>1, <2>2, <2>3 DEF Fields, IsField, IsToken
  <2> QED
    BY <2>4 DEF f
<1>3. ASSUME NEW f \in Fields PROVE f = <<f[1], f[2]>>
  BY DEF Fields
<1> QED
  BY <1>2, <1>3

(* Two fields are the same one, or one is behind the other.                *)
LEMMA FieldsApart ==
  ASSUME NEW str \in Seq(Char), NEW a, NEW b, NEW c, NEW d,
         IsField(str, a, b), IsField(str, c, d), a <= c
  PROVE  (a = c /\ b = d) \/ b < c
<1>1. Len(str) \in Nat
  BY LenProperties
<1>2. /\ a \in 1..Len(str) /\ b \in a..Len(str) /\ c \in 1..Len(str) /\ d \in c..Len(str)
      /\ \A k \in a..b : str[k] # Wide!Comma
      /\ \A k \in c..d : str[k] # Wide!Comma
      /\ b = Len(str) \/ str[b+1] = Wide!Comma
      /\ d = Len(str) \/ str[d+1] = Wide!Comma
      /\ c = 1 \/ str[c-1] = Wide!Comma
  BY DEF IsField, IsToken
<1>3. a < c => b < c
  <2> SUFFICES ASSUME a < c, c <= b PROVE FALSE
    BY <1>1, <1>2
  <2>1. c-1 \in a..b /\ c # 1
    BY <1>1, <1>2
  <2> QED
    BY <1>2, <2>1
<1>4. a = c => b = d
  <2>1. ASSUME a = c, b < d PROVE FALSE
    <3>1. b+1 \in c..d /\ b # Len(str)
      BY <1>1, <1>2, <2>1
    <3> QED
      BY <1>2, <3>1
  <2>2. ASSUME a = c, d < b PROVE FALSE
    <3>1. d+1 \in a..b /\ d # Len(str)
      BY <1>1, <1>2, <2>2
    <3> QED
      BY <1>2, <3>1
  <2> QED
    BY <1>1, <1>2, <2>1, <2>2
<1> QED
  BY <1>1, <1>2, <1>3, <1>4

(* The first token is the first field ...                                  *)
LEMMA FirstField ==
  ASSUME NEW str \in Seq(Char), NEW t, t = Wide!strtok(str, 1)
  PROVE  \/ t.token = NULL /\ \A c, d : ~IsField(str, c, d)
         \/ \E a, b : /\ IsField(str, a, b) /\ \A c, d : IsField(str, c, d) => a <= c
                      /\ t.token = SubSeq(str, a, b) /\ t.token # NULL /\ t.next = b + 2
<1>1. Len(str) \in Nat
  BY LenProperties
<1>2. \A c, d : IsField(str, c, d) => c \in 1..Len(str) /\ str[c] # Wide!Comma
  BY <1>1 DEF IsField, IsToken
<1>3. CASE t.token = NULL /\ \A k \in 1..Len(str) : k >= 1 => str[k] = Wide!Comma
  <2>1. \A k \in 1..Len(str) : str[k] = Wide!Comma
    BY <1>1, <1>3
  <2> QED
    BY <1>2, <1>3, <2>1
<1>4. ASSUME NEW a \in 1..Len(str), NEW b \in 1..Len(str),
             IsToken(str, a, b), \A k \in 1..a-1 : str[k] = Wide!Comma
      PROVE  IsField(str, a, b) /\ \A c, d : IsField(str, c, d) => a <= c
  <2>1. a # 1 => a-1 \in 1..a-1
    BY <1>1
  <2>2. \A c \in 1..Len(str) : str[c] # Wide!Comma => a <= c
    BY <1>1, <1>4
  <2> QED
    BY <1>2, <1>4, <2>1, <2>2 DEF IsField
<1>5. 1 \in Nat \ {0}
  OBVIOUS
<1>6. \/ t.token = NULL /\ \A k \in 1..Len(str) : k >= 1 => str[k] = Wide!Comma
      \/ \E a, b \in 1..Len(str) :
           /\ 1 <= a /\ IsToken(str, a, b) /\ \A k \in 1..a-1 : str[k] = Wide!Comma
           /\ t.token = SubSeq(str, a, b) /\ t.token # NULL /\ t.next = b + 2
  <2>1. PICK i : i = 1
    OBVIOUS
  <2>2. FirstToken(str, i, t)
    BY ONLY <1>5, <2>1, TokenIs, str \in Seq(Char), t = Wide!strtok(str, 1)
  <2> QED
    BY ONLY <2>1, <2>2 DEF FirstToken
<1>7. ASSUME NEW a \in 1..Len(str), NEW b \in 1..Len(str),
             IsToken(str, a, b), \A k \in 1..a-1 : str[k] = Wide!Comma,
             t.token = SubSeq(str, a, b) /\ t.token # NULL /\ t.next = b + 2
      PROVE  \E a_, b_ : /\ IsField(str, a_, b_) /\ \A c, d : IsField(str, c, d) => a_ <= c
                         /\ t.token = SubSeq(str, a_, b_) /\ t.token # NULL /\ t.next = b_ + 2
  <2>1. IsField(str, a, b) /\ \A c, d : IsField(str, c, d) => a <= c
    BY <1>4, <1>7
  <2> WITNESS a, b
  <2> QED
    BY ONLY <1>7, <2>1
<1>8. CASE \E a, b \in 1..Len(str) :
             /\ 1 <= a /\ IsToken(str, a, b) /\ \A k \in 1..a-1 : str[k] = Wide!Comma
             /\ t.token = SubSeq(str, a, b) /\ t.token # NULL /\ t.next = b + 2
  <2>1. PICK a, b \in 1..Len(str) :
             /\ 1 <= a /\ IsToken(str, a, b) /\ \A k \in 1..a-1 : str[k] = Wide!Comma
             /\ t.token = SubSeq(str, a, b) /\ t.token # NULL /\ t.next = b + 2
    BY ONLY <1>8
  <2> QED
    BY <1>7, <2>1
<1> QED
  BY ONLY <1>3, <1>6, <1>8

(* ... and the next one the field behind it.                               *)
LEMMA NextField ==
  ASSUME NEW str \in Seq(Char), NEW a, NEW b, IsField(str, a, b),
         NEW t, t = Wide!strtok(str, b + 2)
  PROVE  \/ t.token = NULL /\ \A e, g : IsField(str, e, g) => ~(b < e)
         \/ \E c, d : /\ IsField(str, c, d) /\ b < c
                      /\ \A e, g : IsField(str, e, g) /\ b < e => c <= e
                      /\ t.token = SubSeq(str, c, d) /\ t.token # NULL
<1>1. Len(str) \in Nat
  BY LenProperties
<1>2. \A e, g : IsField(str, e, g) => e \in 1..Len(str) /\ str[e] # Wide!Comma
  BY <1>1 DEF IsField, IsToken
<1>3. b \in 1..Len(str) /\ (b = Len(str) \/ str[b+1] = Wide!Comma)
  BY <1>1 DEF IsField, IsToken
<1>4. ASSUME NEW e, NEW g, IsField(str, e, g), b < e PROVE e \in b+2..Len(str)
  BY <1>1, <1>2, <1>3, <1>4
<1>5. CASE t.token = NULL /\ \A k \in 1..Len(str) : k >= b + 2 => str[k] = Wide!Comma
  <2>1. \A k \in b+2..Len(str) : str[k] = Wide!Comma
    BY <1>1, <1>3, <1>5
  <2> QED
    BY <1>2, <1>4, <1>5, <2>1
<1>6. ASSUME NEW c \in 1..Len(str), NEW d \in 1..Len(str), b + 2 <= c,
             IsToken(str, c, d), \A k \in b+2..c-1 : str[k] = Wide!Comma
      PROVE  /\ IsField(str, c, d) /\ b < c
             /\ \A e, g : IsField(str, e, g) /\ b < e => c <= e
  <2>1. str[c-1] = Wide!Comma
    <3>1. CASE c = b + 2
      <4>1. c-1 = b+1 /\ b # Len(str)
        BY <1>1, <1>3, <3>1
      <4> QED
        BY <1>3, <4>1
    <3>2. CASE c # b + 2
      <4>1. c-1 \in b+2..c-1
        BY <1>1, <1>3, <1>6, <3>2
      <4> QED
        BY <1>6, <4>1
    <3> QED
      BY <3>1, <3>2
  <2>2. \A e \in b+2..Len(str) : str[e] # Wide!Comma => c <= e
    BY <1>1, <1>3, <1>6
  <2>3. b < c
    BY <1>1, <1>3, <1>6
  <2>4. ASSUME NEW e, NEW g, IsField(str, e, g), b < e PROVE c <= e
    BY <1>2, <1>4, <2>2, <2>4
  <2> QED
    BY <1>6, <2>1, <2>3, <2>4 DEF IsField
<1>7. b + 2 \in Nat \ {0}
  BY <1>1, <1>3
<1>8. \/ t.token = NULL /\ \A k \in 1..Len(str) : k >= b + 2 => str[k] = Wide!Comma
      \/ \E c, d \in 1..Len(str) :
           /\ b + 2 <= c /\ IsToken(str, c, d) /\ \A k \in b+2..c-1 : str[k] = Wide!Comma
           /\ t.token = SubSeq(str, c, d) /\ t.token # NULL /\ t.next = d + 2
  <2>1. PICK i : i = b + 2
    OBVIOUS
  <2>2. FirstToken(str, i, t)
    BY ONLY <1>7, <2>1, TokenIs, str \in Seq(Char), t = Wide!strtok(str, b + 2)
  <2> QED
    BY ONLY <2>1, <2>2 DEF FirstToken
<1>9. CASE \E c, d \in 1..Len(str) :
             /\ b + 2 <= c /\ IsToken(str, c, d) /\ \A k \in b+2..c-1 : str[k] = Wide!Comma
             /\ t.token = SubSeq(str, c, d) /\ t.token # NULL /\ t.next = d + 2
  <2>1. PICK c, d \in 1..Len(str) :
             /\ b + 2 <= c /\ IsToken(str, c, d) /\ \A k \in b+2..c-1 : str[k] = Wide!Comma
             /\ t.token = SubSeq(str, c, d) /\ t.token # NULL /\ t.next = d + 2
    BY ONLY <1>9
  <2>2. /\ IsField(str, c, d) /\ b < c
        /\ \A e, g : IsField(str, e, g) /\ b < e => c <= e
    BY <1>6, <2>1
  <2>3. t.token = SubSeq(str, c, d) /\ t.token # NULL
    BY ONLY <2>1
  <2> QED
    BY ONLY <2>2, <2>3
<1> QED
  BY ONLY <1>5, <1>8, <1>9

(* The pairs Meanings is about.                                            *)
FirstTwo ==
  {fg \in Fields \X Fields :
     /\ fg[1][2] < fg[2][1]
     /\ \A h \in Fields : h = fg[1] \/ h[1] >= fg[2][1]}

(* A text with at most one field asks for no place.                        *)
LEMMA NoFirstTwo ==
  ASSUME NEW V \in Seq(Char), V = Visible, NEW a, NEW b,
         \A c, d : IsField(V, c, d) => c = a /\ d = b
  PROVE  FirstTwo = {}
<1> SUFFICES ASSUME NEW fg \in FirstTwo PROVE FALSE
  OBVIOUS
<1>1. Len(V) \in Nat
  BY LenProperties
<1>2. PICK f \in Fields, g \in Fields : f[2] < g[1]
  BY DEF FirstTwo
<1>3. IsField(V, f[1], f[2]) /\ IsField(V, g[1], g[2])
  BY FieldIs
<1>4. f[2] = b /\ g[1] = a /\ IsField(V, a, b)
  BY <1>3
<1>5. a \in 1..Len(V) /\ b \in a..Len(V)
  BY <1>4 DEF IsField, IsToken
<1> QED
  BY <1>1, <1>2, <1>4, <1>5

(* The first field and the one behind it are the only such pair.           *)
LEMMA OneFirstTwo ==
  ASSUME NEW V \in Seq(Char), V = Visible, NEW a, NEW b, NEW c, NEW d,
         IsField(V, a, b), \A e, g : IsField(V, e, g) => a <= e,
         IsField(V, c, d), b < c, \A e, g : IsField(V, e, g) /\ b < e => c <= e
  PROVE  FirstTwo = {<<<<a, b>>, <<c, d>>>>}
<1>1. Len(V) \in Nat
  BY LenProperties
<1>2. a \in 1..Len(V) /\ b \in a..Len(V) /\ c \in 1..Len(V) /\ d \in c..Len(V)
  BY DEF IsField, IsToken
<1>3. PICK first, second : first = <<a, b>> /\ second = <<c, d>>
  OBVIOUS
<1>4. /\ first \in Fields /\ second \in Fields
      /\ first[1] = a /\ first[2] = b /\ second[1] = c /\ second[2] = d
  BY <1>3, FieldIs
<1>5. ASSUME NEW h \in Fields
      PROVE  /\ h = <<h[1], h[2]>> /\ IsField(V, h[1], h[2])
             /\ h[1] \in 1..Len(V) /\ h[2] \in h[1]..Len(V)
  <2>1. h = <<h[1], h[2]>> /\ IsField(V, h[1], h[2])
    BY FieldIs
  <2> QED
    BY <2>1 DEF IsField, IsToken
<1>6. ASSUME NEW h \in Fields PROVE h = first \/ h[1] >= c
  <2>1. (h[1] = a /\ h[2] = b) \/ b < h[1]
    BY <1>5, FieldsApart
  <2>2. CASE h[1] = a /\ h[2] = b
    BY <1>3, <1>5, <2>2
  <2>3. CASE b < h[1]
    BY <1>1, <1>2, <1>5, <2>3
  <2> QED
    BY <2>1, <2>2, <2>3
<1>7. ASSUME NEW f \in Fields, NEW g \in Fields, f[2] < g[1],
             \A h \in Fields : h = f \/ h[1] >= g[1]
      PROVE  f = first /\ g = second
  <2>1. f[1] >= a
    BY <1>1, <1>2, <1>5
  <2>2. f = first
    BY <1>1, <1>2, <1>4, <1>5, <1>7, <2>1
  <2>3. second # f
    BY <1>1, <1>2, <1>4, <2>2
  <2>4. c >= g[1]
    BY <1>4, <1>7, <2>3
  <2>5. b < g[1] /\ c <= g[1]
    BY <1>4, <1>5, <1>7, <2>2
  <2>6. g[1] = c
    BY <1>1, <1>2, <1>5, <2>4, <2>5
  <2>7. g[2] = d
    <3>1. (c = g[1] /\ d = g[2]) \/ d < g[1]
      BY <1>1, <1>2, <1>5, <2>6, FieldsApart
    <3> QED
      BY <1>1, <1>2, <2>6, <3>1
  <2> QED
    BY <1>3, <1>5, <2>2, <2>6, <2>7
<1>8. FirstTwo \subseteq {<<first, second>>}
  <2> SUFFICES ASSUME NEW fg \in FirstTwo PROVE fg = <<first, second>>
    OBVIOUS
  <2>1. fg \in Fields \X Fields
    BY DEF FirstTwo
  <2>2. PICK f \in Fields, g \in Fields : fg = <<f, g>>
    BY <2>1
  <2>3. fg[1] = f /\ fg[2] = g
    BY <2>2
  <2>4. f[2] < g[1] /\ \A h \in Fields : h = f \/ h[1] >= g[1]
    BY <2>3 DEF FirstTwo
  <2> QED
    BY <1>7, <2>2, <2>4
<1>9. <<first, second>> \in FirstTwo
  <2> DEFINE fg == <<first, second>>
  <2>1. fg \in Fields \X Fields /\ fg[1] = first /\ fg[2] = second
    BY <1>4
  <2> HIDE DEF fg
  <2>2. fg \in FirstTwo
    BY <1>4, <1>6, <2>1 DEF FirstTwo
  <2> QED
    BY <2>2 DEF fg
<1> QED
  BY <1>3, <1>8, <1>9

(* (long)UINT32_MAX fits a wide long.                                      *)
LEMMA WideFits == Wide!AsLong(UINT32_MAX) = UINT32_MAX
BY WidthAssumption DEF Wide!AsLong

(* What the two halves of the text are converted to is what it means.      *)
LEMMA ConvertsPair ==
  ASSUME NEW V \in Seq(Char), V = Visible,
         NEW a \in 1..Len(V), NEW b \in a..Len(V), NEW c \in 1..Len(V), NEW d \in c..Len(V),
         FirstTwo = {<<<<a, b>>, <<c, d>>>>},
         NEW result, result = Wide!convert_x_and_y(SubSeq(V, a, b), SubSeq(V, c, d))
  PROVE  Meanings = {result} \ {NULL}
<1>1. PICK x : x = Wide!convert_str_to_long(SubSeq(V, a, b), 0, UINT32_MAX)
  OBVIOUS
<1>2. PICK y : y = Wide!convert_str_to_long(SubSeq(V, c, d), 0, UINT32_MAX)
  OBVIOUS
<1>3. result = IF x = NULL \/ y = NULL THEN NULL
               ELSE [write_cmd |-> x, write_cmd_offset |-> y]
  BY <1>1, <1>2, WideFits DEF Wide!convert_x_and_y
<1>4. PICK f, g : f = <<a, b>> /\ g = <<c, d>>
  OBVIOUS
<1>5. \/ x = NULL /\ Numbers(f) = {}
      \/ x \in 0..UINT32_MAX /\ x # NULL /\ Numbers(f) = {x}
  BY <1>1, <1>4, ConvertsField
<1>6. \/ y = NULL /\ Numbers(g) = {}
      \/ y \in 0..UINT32_MAX /\ y # NULL /\ Numbers(g) = {y}
  BY <1>2, <1>4, ConvertsField
<1>7. Meanings = [write_cmd : Numbers(f), write_cmd_offset : Numbers(g)]
  <2>1. Meanings = UNION {[write_cmd : Numbers(fg[1]), write_cmd_offset : Numbers(fg[2])]
                            : fg \in FirstTwo}
    BY DEF Meanings, FirstTwo
  <2>2. FirstTwo = {<<f, g>>}
    BY <1>4
  <2> DEFINE R(fg) == [write_cmd : Numbers(fg[1]), write_cmd_offset : Numbers(fg[2])]
  <2>3. UNION {R(fg) : fg \in FirstTwo} = R(<<f, g>>)
    <3> HIDE DEF R
    <3> QED
      BY ONLY <2>2
  <2>4. <<f, g>>[1] = f /\ <<f, g>>[2] = g
    OBVIOUS
  <2> QED
    BY ONLY <2>1, <2>3, <2>4
<1>8. CASE x = NULL \/ y = NULL
  <2>1. result = NULL /\ (Numbers(f) = {} \/ Numbers(g) = {})
    BY ONLY <1>3, <1>5, <1>6, <1>8
  <2> QED
    BY ONLY <1>7, <2>1
<1>9. CASE ~(x = NULL \/ y = NULL)
  <2>1. /\ x \in 0..UINT32_MAX /\ Numbers(f) = {x} /\ y \in 0..UINT32_MAX /\ Numbers(g) = {y}
        /\ result = [write_cmd |-> x, write_cmd_offset |-> y]
    BY ONLY <1>3, <1>5, <1>6, <1>9
  <2>2. result # NULL /\ [write_cmd : {x}, write_cmd_offset : {y}] = {result}
    <3>1. x \in Nat /\ y \in Nat
      <4>1. x \in 0..UINT32_MAX /\ y \in 0..UINT32_MAX
        BY ONLY <2>1
      <4> QED
        BY <4>1, WidthAssumption
    <3>2. result \in [write_cmd : Nat, write_cmd_offset : Nat]
      BY ONLY <2>1, <3>1
    <3>3. result # NULL
      BY ONLY <3>2, NullAssumption
    <3>4. PICK S : S = [write_cmd : {x}, write_cmd_offset : {y}]
      OBVIOUS
    <3>5. \A r : r \in S <=> r = result
      BY ONLY <2>1, <3>4
    <3>6. S = {result}
      BY ONLY <3>5
    <3> QED
      BY ONLY <3>3, <3>4, <3>6
  <2> QED
    BY ONLY <1>7, <2>1, <2>2
<1> QED
  BY <1>8, <1>9

(* What the whole text is parsed to is what it means.                      *)
LEMMA ParsesVisible ==
  ASSUME NEW V \in Seq(Char), V = Visible,
         NEW result, result = Wide!parse_x_str_and_y_str(V)
  PROVE  Meanings = {result} \ {NULL}
<1>1. PICK x : x = Wide!strtok(V, 1)
  OBVIOUS
<1>2. PICK y : y = Wide!strtok(V, x.next)
  OBVIOUS
<1>3. result = IF x.token = NULL \/ y.token = NULL THEN NULL
               ELSE Wide!convert_x_and_y(x.token, y.token)
  BY <1>1, <1>2 DEF Wide!parse_x_str_and_y_str
<1>4. FirstTwo = {} => Meanings = {}
  BY DEF Meanings, FirstTwo
<1>5. CASE x.token = NULL /\ \A c, d : ~IsField(V, c, d)
  <2>1. FirstTwo = {}
    BY <1>5, NoFirstTwo
  <2> QED
    BY <1>3, <1>4, <1>5, <2>1
<1>6. ASSUME NEW a, NEW b, IsField(V, a, b), \A c, d : IsField(V, c, d) => a <= c,
             x.token = SubSeq(V, a, b), x.token # NULL, x.next = b + 2
      PROVE  Meanings = {result} \ {NULL}
  <2>1. \/ y.token = NULL /\ \A e, g : IsField(V, e, g) => ~(b < e)
        \/ \E c, d : /\ IsField(V, c, d) /\ b < c
                     /\ \A e, g : IsField(V, e, g) /\ b < e => c <= e
                     /\ y.token = SubSeq(V, c, d) /\ y.token # NULL
    BY <1>2, <1>6, NextField
  <2>2. CASE y.token = NULL /\ \A e, g : IsField(V, e, g) => ~(b < e)
    <3>1. \A c, d : IsField(V, c, d) => c = a /\ d = b
      BY <1>6, <2>2, FieldsApart
    <3>2. FirstTwo = {}
      BY <3>1, NoFirstTwo
    <3> QED
      BY <1>3, <1>4, <2>2, <3>2
  <2>3. ASSUME NEW c, NEW d, IsField(V, c, d), b < c,
               \A e, g : IsField(V, e, g) /\ b < e => c <= e,
               y.token = SubSeq(V, c, d), y.token # NULL
        PROVE  Meanings = {result} \ {NULL}
    <3>1. FirstTwo = {<<<<a, b>>, <<c, d>>>>}
      BY <1>6, <2>3, OneFirstTwo
    <3>2. a \in 1..Len(V) /\ b \in a..Len(V) /\ c \in 1..Len(V) /\ d \in c..Len(V)
      BY <1>6, <2>3 DEF IsField, IsToken
    <3>3. result = Wide!convert_x_and_y(SubSeq(V, a, b), SubSeq(V, c, d))
      BY <1>3, <1>6, <2>3
    <3> QED
      BY <3>1, <3>2, <3>3, ConvertsPair
  <2> QED
    BY <2>1, <2>2, <2>3
<1> QED
  BY <1>1, <1>5, <1>6, FirstField

(* The copy parse_xy_str makes of a packet, up to its first NUL, is what   *)
(* the grammar is about.                                                   *)
LEMMA PacketText ==
  ASSUME text \in Seq(Char)
  PROVE  /\ Wide!HasPrefix(Packet) /\ Wide!xy_str_of(Packet) = Visible
         /\ Visible \in Seq(Char)
<1>1. PICK prefix : prefix = Wide!SEEKTO_PACKET_PREFIX
  OBVIOUS
<1>2. /\ Len(Packet) = Len(text) + 2 /\ SubSeq(Packet, 1, 1) = prefix
      /\ SubSeq(Packet, 2, Len(Packet) - 1) = text
  <2>1. PICK newline : /\ IsSingle(prefix) /\ IsSingle(newline)
                       /\ Packet = prefix \o text \o newline
    BY <1>1 DEF IsSingle, Packet, Wide!SEEKTO_PACKET_PREFIX
  <2>2. IsBetween(text, Packet, prefix)
    BY ONLY <2>1, text \in Seq(Char), Between
  <2> QED
    BY <2>2 DEF IsBetween
<1>3. Len(prefix) = 1 /\ SubSeq(prefix, 1, 1) = prefix /\ Len(text) \in Nat
  <2>1. Len(text) \in Nat
    BY LenProperties
  <2>2. PICK p : prefix = <<p>>
    BY <1>1 DEF Wide!SEEKTO_PACKET_PREFIX
  <2>3. prefix \in Seq({p}) /\ Len(prefix) = 1
    BY <2>2
  <2>4. SubSeq(prefix, 1, 1) = prefix
    BY <2>3, SubSeqFull
  <2> QED
    BY ONLY <2>1, <2>3, <2>4
<1>4. Wide!HasPrefix(Packet)
  BY <1>1, <1>2, <1>3 DEF Wide!HasPrefix, Wide!IsPrefix
<1>5. Wide!xy_str_of(Packet) = Visible
  <2>1. SubSeq(Packet, Len(Wide!SEEKTO_PACKET_PREFIX) + 1, Len(Packet) - 1) = text
    <3>1. Len(Wide!SEEKTO_PACKET_PREFIX) + 1 = 2
      BY <1>1, <1>3
    <3> QED
      BY <1>2, <3>1
  <2> QED
    BY <2>1 DEF Wide!xy_str_of, Visible
<1>6. Visible \in Seq(Char)
  <2> DEFINE end == Wide!strcspn(text, 1, {Wide!NUL})
             last == end - 1
  <2>1. end \in 1 .. Len(text) + 1
    BY OtherSpan
  <2> HIDE DEF end
  <2>2. last \in Int /\ \A k \in 1..last : k \in 1..Len(text)
    BY <1>3, <2>1
  <2>3. \A k \in 1..last : text[k] \in Char
    BY <2>2, ElementOfSeq
  <2>4. Visible = SubSeq(text, 1, last)
    BY DEF Visible, end
  <2> HIDE DEF last
  <2> QED
    BY <2>2, <2>3, <2>4, SubSeqProperties
<1> QED
  BY <1>4, <1>5, <1>6

(* A text is made of the characters the grammar tells apart.               *)
LEMMA TextsAreText == \A length : Texts(length) \subseteq Seq(Char)
<1>1. ASSUME NEW m \in Nat, NEW t \in [1..m -> Char] PROVE t \in Seq(Char)
  BY SeqDef
<1>2. <<>> \in Seq(Char)
  BY EmptySeq
<1>3. ASSUME NEW length, length \in 2 .. MaxText+2 PROVE length-2 \in Nat
  BY <1>3
<1> QED
  BY <1>1, <1>2, <1>3 DEF Texts

(* A packet is taken for a seek command, and for which, exactly as its     *)
(* grammar has it, whatever its text and however long                      *)
(* (aesdsocket_client.c:135-234): strtok's tokens are the fields, strtol   *)
(* reads a field as the numeral in it, and its saturation and the bounds   *)
(* refuse what does not fit 32 bits.                                       *)
THEOREM CommandsMatchGrammar == MCSpec => []ParserMatchesGrammar
<1> DEFINE TextInv == text \in Seq(Char)
<1>1. MCInit => TextInv
  BY EmptySeq DEF MCInit
<1>2. TextInv /\ [MCNext]_<<vars, text>> => TextInv'
  BY TextsAreText, EmptySeq DEF MCNext
<1>3. TextInv => ParserMatchesGrammar
  <2> SUFFICES ASSUME TextInv
               PROVE  Meanings = {Wide!is_seekto_packet(Packet)} \ {NULL}
    BY DEF ParserMatchesGrammar
  <2>1. /\ Wide!HasPrefix(Packet) /\ Wide!xy_str_of(Packet) = Visible
        /\ Visible \in Seq(Char)
    BY PacketText
  <2>2. Wide!is_seekto_packet(Packet) = Wide!parse_x_str_and_y_str(Visible)
    BY <2>1 DEF Wide!is_seekto_packet
  <2> QED
    BY <2>1, <2>2, ParsesVisible
<1> QED
  BY <1>1, <1>2, <1>3, PTL DEF MCSpec
=============================================================================
