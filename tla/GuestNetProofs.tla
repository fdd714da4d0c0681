--------------------------- MODULE GuestNetProofs ---------------------------
(***************************************************************************)
(* The address plan is sound for every address space, every range and      *)
(* every number of microVMs, and refuses no range that is large enough.    *)
(***************************************************************************)
EXTENDS GuestNet, FiniteSetTheorems, TLAPS

USE SpaceAssumption, BlockAssumption, CountsAssumption

\* Aligning an address down to a divisor of the space keeps the block in it.
LEMMA BlockInSpace ==
    ASSUME NEW s \in Nat, NEW n \in Nat, 0 < n, s % n = 0, NEW x \in 0 .. s - 1
    PROVE  /\ x - (x % n) \in Nat
           /\ x - (x % n) + n <= s
           /\ \E q \in Nat : x - (x % n) = n * q
<1> DEFINE q == x \div n
           k == s \div n
<1>1. q \in Nat /\ k \in Nat /\ x = n * q + (x % n) /\ x % n \in 0 .. n - 1 /\ s = n * k
  OBVIOUS
<1>2. q < k
  <2>1. ASSUME k <= q PROVE FALSE
    <3>1. n * k <= n * q BY <1>1, <2>1
    <3> QED BY <1>1, <3>1
  <2> QED BY <1>1, <2>1
<1>3. n * (q + 1) <= n * k
  BY <1>1, <1>2
<1>4. n * (q + 1) = n * q + n
  BY <1>1
<1> QED BY <1>1, <1>3, <1>4

\* A multiple of a multiple of four is one.
LEMMA MultipleOf4 ==
    ASSUME NEW n \in Nat, n % 4 = 0, NEW q \in Nat
    PROVE  (n * q) % 4 = 0
<1>1. PICK m \in Nat : n = 4 * m
  BY n = 4 * (n \div 4)
<1>2. n * q = 4 * (m * q) /\ m * q \in Nat
  BY <1>1
<1>3. \A k \in Nat : (4 * k) % 4 = 0
  OBVIOUS
<1> QED BY <1>2, <1>3

(***************************************************************************)
(* An accepted range: its base is a multiple of four and it has room for   *)
(* four addresses for each VM below the end of the space.                  *)
(***************************************************************************)
Accepted ==
    pc = "resolved" =>
        /\ base = Masked(arg) /\ base \in Nat /\ base + Size(arg) <= Space
        /\ \A i \in Started : base % 4 = 0 /\ 4 * i + 4 <= Size(arg)

Carved ==
    \A i \in DOMAIN plan :
        pc = "resolved" /\ i \in Started
        /\ plan[i] = [host |-> base + 4 * i + 1, guest |-> base + 4 * i + 2]

Refused == pc = "usage" /\ arg.kind = "v4" => TooSmall(arg)

IInv == pc \in {"start", "usage", "panic", "resolved"} /\ arg \in Args /\ base \in Address
        /\ Accepted /\ Carved /\ Refused

\* The network of any argument lies in the address space, aligned if it holds a /30.
LEMMA MaskedFits ==
    ASSUME NEW a \in Args
    PROVE  /\ Masked(a) \in Nat /\ Size(a) \in Nat /\ Masked(a) + Size(a) <= Space
           /\ 4 <= Size(a) => Masked(a) % 4 = 0
<1>1. /\ a.prefix \in Prefixes /\ Size(a) \in 1 .. Space /\ Space % Size(a) = 0
      /\ Size(a) >= 4 => Size(a) % 4 = 0
      /\ a.ip \in 0 .. Space - 1
  BY DEF Args, Size, Address
<1>2. Size(a) \in Nat /\ 0 < Size(a)
  BY <1>1
<1>3. /\ Masked(a) \in Nat /\ Masked(a) + Size(a) <= Space
      /\ \E q \in Nat : Masked(a) = Size(a) * q
  <2> DEFINE n == Size(a)
  <2>1. n \in Nat /\ 0 < n /\ Space % n = 0 /\ a.ip \in 0 .. Space - 1 /\ Space \in Nat
    BY <1>1, <1>2
  <2> HIDE DEF n
  <2>2. /\ a.ip - (a.ip % n) \in Nat /\ a.ip - (a.ip % n) + n <= Space
        /\ \E q \in Nat : a.ip - (a.ip % n) = n * q
    BY <2>1, BlockInSpace
  <2> QED BY <2>2 DEF Masked, n
<1>4. ASSUME 4 <= Size(a) PROVE Masked(a) % 4 = 0
  <2>1. Size(a) % 4 = 0
    BY <1>1, <1>2, <1>4
  <2> QED BY <1>2, <1>3, <2>1, MultipleOf4
<1> QED BY <1>2, <1>3, <1>4

\* resolveGuestNet establishes what bootOne relies on.
LEMMA Resolves ==
    ASSUME IInv, resolveGuestNet
    PROVE  IInv'
<1>1. plan' = plan /\ arg' = arg /\ pc = "start"
  BY DEF resolveGuestNet
<1>2. DOMAIN plan = {}
  BY <1>1 DEF IInv, Carved
<1>3. CASE pc' = "resolved"
  <2>1. base' = Masked(arg) /\ ~TooSmall(arg)
    BY <1>1, <1>3 DEF resolveGuestNet
  <2>2. ASSUME NEW i \in Started PROVE 4 * i + 4 <= Size(arg)
    <3>1. arg \in Args /\ arg.vms \in Int /\ Size(arg) \in Nat
      BY MaskedFits DEF IInv, Args
    <3>2. i \in Nat /\ i < arg.vms
      BY <3>1 DEF Started
    <3>3. arg.vms <= Size(arg) \div 4
      BY <2>1, <3>1 DEF TooSmall, Avail
    <3> QED BY <3>1, <3>2, <3>3
  <2>3. \A i \in Started : Masked(arg) % 4 = 0
    BY <2>2, MaskedFits DEF IInv, Started
  <2>4. base' \in Address
    <3>1. 1 <= Size(arg) BY DEF IInv, Args, Size
    <3> QED BY <2>1, <3>1, MaskedFits DEF IInv, Address
  <2> QED
    BY <1>1, <1>2, <1>3, <2>1, <2>2, <2>3, <2>4, MaskedFits
       DEF IInv, Accepted, Carved, Refused, Started, Masked, Size
<1>4. CASE pc' # "resolved"
  BY <1>1, <1>2, <1>4 DEF resolveGuestNet, IInv, Accepted, Carved, Refused, TooSmall, Avail, Size
<1> QED BY <1>3, <1>4

\* Inside an accepted range nothing wraps.
LEMMA NoWrap ==
    ASSUME IInv, pc = "resolved", NEW i \in Started
    PROVE  /\ vmHostIP(i) = base + 4 * i + 1 /\ vmGuestIP(i) = base + 4 * i + 2
           /\ base \in Nat /\ i \in Nat /\ 4 * i + 4 <= Size(arg) /\ Size(arg) \in Nat
           /\ base % 4 = 0 /\ base = Masked(arg) /\ base + Size(arg) <= Space
<1>1. /\ base \in Nat /\ i \in Nat /\ 4 * i + 4 <= Size(arg) /\ Size(arg) \in Nat
      /\ base % 4 = 0 /\ base = Masked(arg) /\ base + Size(arg) <= Space
  BY MaskedFits DEF IInv, Accepted, Started
<1>2. \A x \in 0 .. Space - 1 : x % Space = x
  OBVIOUS
<1>3. u32(4 * i) = 4 * i
  BY <1>1, <1>2 DEF u32
<1>4. vmBase(i) = base + 4 * i
  BY <1>1, <1>2, <1>3 DEF vmBase, u32
<1>5. vmHostIP(i) = base + 4 * i + 1 /\ vmGuestIP(i) = base + 4 * i + 2
  BY <1>1, <1>2, <1>4 DEF vmHostIP, vmGuestIP, u32
<1> QED BY <1>1, <1>5

(***************************************************************************)
(* What resolveGuestNet leaves behind and bootOne has carved out of it: a  *)
(* base that is the network's address, and room in it for every VM.        *)
(***************************************************************************)
THEOREM Invariance == Spec => []IInv
<1>1. Init => IInv
  BY DEF Init, IInv, Accepted, Carved, Refused, Address
<1>2. IInv /\ [Next]_vars => IInv'
  <2> SUFFICES ASSUME IInv, [Next]_vars PROVE IInv'
    OBVIOUS
  <2>1. CASE resolveGuestNet
    BY <2>1, Resolves
  <2>2. ASSUME NEW i \in Started, Carve(i) PROVE IInv'
    BY <2>2, NoWrap DEF Carve, IInv, Accepted, Carved, Refused, Started, Masked, Size
  <2>3. CASE UNCHANGED vars
    BY <2>3 DEF vars, IInv, Accepted, Carved, Refused, Started, Masked, Size, TooSmall, Avail
  <2> QED BY <2>1, <2>2, <2>3 DEF Next, Terminated
<1> QED BY <1>1, <1>2, PTL DEF Spec

(***************************************************************************)
(* No two VMs share a /30, and none leaves the range or wraps, for any     *)
(* -guest-net that resolveGuestNet accepts and any -vms.                   *)
(***************************************************************************)
THEOREM PlanIsSound == Spec => []PlanSound
<1>1. ASSUME IInv PROVE PlanSound
  <2>1. \A i \in DOMAIN plan : pc = "resolved" /\ i \in Started
          /\ plan[i].host = base + 4 * i + 1 /\ plan[i].guest = base + 4 * i + 2
    BY <1>1 DEF IInv, Carved
  <2>2. \A b \in Nat, i \in Nat : b % 4 = 0 =>
          /\ (b + 4 * i + 1) % 4 = 1 /\ (b + 4 * i + 2) % 4 = 2
          /\ (b + 4 * i + 1) \div 4 = (b \div 4) + i
          /\ (b + 4 * i + 2) \div 4 = (b \div 4) + i
    OBVIOUS
  <2>3. ASSUME NEW i \in DOMAIN plan
        PROVE  /\ InRange(plan[i].host) /\ InRange(plan[i].guest)
               /\ plan[i].host % 4 = 1 /\ plan[i].guest % 4 = 2
               /\ net30(plan[i].host) = (base \div 4) + i
               /\ net30(plan[i].guest) = (base \div 4) + i
    <3>1. /\ base \in Nat /\ i \in Nat /\ 4 * i + 4 <= Size(arg) /\ Size(arg) \in Nat
          /\ base % 4 = 0 /\ base = Masked(arg)
      BY <1>1, <2>1, <2>3, NoWrap
    <3>2. InRange(plan[i].host) /\ InRange(plan[i].guest)
      BY <2>1, <3>1 DEF InRange
    <3>3. /\ (base + 4 * i + 1) % 4 = 1 /\ (base + 4 * i + 2) % 4 = 2
          /\ (base + 4 * i + 1) \div 4 = (base \div 4) + i
          /\ (base + 4 * i + 2) \div 4 = (base \div 4) + i
      BY <2>2, <3>1
    <3>4. plan[i].host = base + 4 * i + 1 /\ plan[i].guest = base + 4 * i + 2
      BY <2>1
    <3> QED BY <3>2, <3>3, <3>4 DEF net30
  <2>4. ASSUME NEW i \in DOMAIN plan, NEW j \in DOMAIN plan, i # j
        PROVE  net30(plan[i].host) # net30(plan[j].host)
    <3>1. i \in Nat /\ j \in Nat /\ base \in Nat
      BY <1>1, <2>1, NoWrap
    <3> QED BY <2>3, <2>4, <3>1
  <2> QED BY <2>3, <2>4 DEF PlanSound
<1> QED BY <1>1, Invariance, PTL

(***************************************************************************)
(* Every address of the plan is one: bases and the VMs' addresses lie in   *)
(* the address space, and only VMs that were started have some.            *)
(***************************************************************************)
THEOREM PlanIsTyped == Spec => []TypeOK
<1>1. ASSUME IInv PROVE TypeOK
  <2>1. ASSUME NEW i \in DOMAIN plan PROVE i \in Started /\ plan[i] \in Pair
    <3>1. /\ pc = "resolved" /\ i \in Started
          /\ plan[i] = [host |-> base + 4 * i + 1, guest |-> base + 4 * i + 2]
      BY <1>1, <2>1 DEF IInv, Carved
    <3>2. base + 4 * i + 1 \in Address /\ base + 4 * i + 2 \in Address
      BY <1>1, <3>1, NoWrap DEF Address
    <3> QED BY <3>1, <3>2 DEF Pair
  <2> QED BY <1>1, <2>1 DEF IInv, TypeOK
<1> QED BY <1>1, Invariance, PTL

\* A range has no more /30s than resolveGuestNet counts.
LEMMA Whole30sCounted ==
    ASSUME NEW a \in Args
    PROVE  IsFiniteSet(Whole30s(a)) /\ Cardinality(Whole30s(a)) <= Avail(a)
<1> DEFINE M == Masked(a)
           Z == Size(a)
           first == M \div 4
<1>1. M \in Nat /\ Z \in Nat /\ (4 <= Z => M % 4 = 0 /\ Z % 4 = 0)
  <2>1. 4 <= Size(a) => Size(a) % 4 = 0
    BY DEF Args, Size
  <2> QED BY <2>1, MaskedFits
<1>2. first \in Nat /\ Avail(a) \in Nat
  <2>1. Size(a) \in Nat
    BY <1>1
  <2>2. Size(a) \div 4 \in Nat
    BY <2>1
  <2> HIDE DEF M, Z
  <2>3. M \div 4 \in Nat
    BY <1>1
  <2> QED BY <2>2, <2>3 DEF Avail
<1>3. ASSUME NEW n \in Whole30s(a) PROVE n \in first .. first + Avail(a) - 1
  <2>1. n \in Nat
    BY <1>3, SpaceAssumption DEF Whole30s, net30
  <2>2. M <= 4 * n /\ 4 * n + 3 < M + Z
    <3>1. \A k \in 0 .. 3 : M <= 4 * n + k /\ 4 * n + k < M + Z
      BY <1>3 DEF Whole30s
    <3>2. M <= 4 * n + 0 /\ 4 * n + 3 < M + Z
      BY <3>1
    <3> QED BY <2>1, <3>2
  <2> HIDE DEF M, Z
  <2>3. 4 <= Z
    BY <1>1, <2>1, <2>2
  <2>4. M = 4 * (M \div 4) /\ Z = 4 * (Z \div 4)
    <3>1. \A x \in Nat : x % 4 = 0 => x = 4 * (x \div 4)
      OBVIOUS
    <3> QED BY <1>1, <2>3, <3>1
  <2>5. M \div 4 \in Nat /\ Z \div 4 \in Nat
    BY <1>1
  <2>6. M \div 4 <= n /\ n <= (M \div 4) + (Z \div 4) - 1
    BY <2>1, <2>2, <2>4, <2>5
  <2> QED BY <2>1, <2>5, <2>6 DEF Avail, Z
<1> HIDE DEF first
<1>4. /\ IsFiniteSet(first .. first + Avail(a) - 1)
      /\ Cardinality(first .. first + Avail(a) - 1) = Avail(a)
  <2> DEFINE last == first + Avail(a) - 1
  <2>1. last \in Int /\ first \in Int
    BY <1>2
  <2>2. last = first + Avail(a) - 1
    OBVIOUS
  <2> HIDE DEF last
  <2>3. IsFiniteSet(first .. last) /\ Cardinality(first .. last) = IF first > last THEN 0 ELSE last - first + 1
    BY <2>1, FS_Interval
  <2>4. (IF first > last THEN 0 ELSE last - first + 1) = Avail(a)
    BY <1>2, <2>1, <2>2
  <2> QED BY <2>3, <2>4 DEF last
<1>5. Whole30s(a) \in SUBSET (first .. first + Avail(a) - 1)
  BY <1>3
<1> QED BY <1>4, <1>5, FS_Subset

(***************************************************************************)
(* resolveGuestNet refuses an IPv4 range only if there is no way to give   *)
(* each VM a /30 of its own inside it.                                     *)
(***************************************************************************)
THEOREM RefusalIsJust == Spec => []RefusedOnlyIfTooSmall
<1>1. ASSUME IInv PROVE RefusedOnlyIfTooSmall
  <2>1. SUFFICES ASSUME pc = "usage", arg.kind = "v4", NEW f \in [Started -> Whole30s(arg)]
        PROVE  \E i, j \in Started : i # j /\ f[i] = f[j]
    BY DEF RefusedOnlyIfTooSmall
  <2>2. arg \in Args /\ arg.vms \in Int /\ Avail(arg) < arg.vms /\ Avail(arg) \in Nat
    <3>1. arg \in Args /\ Avail(arg) < arg.vms
      BY <1>1, <2>1 DEF IInv, Refused, TooSmall
    <3>2. Size(arg) \in Nat /\ arg.vms \in Int
      BY <3>1, MaskedFits DEF Args
    <3>3. \A z \in Nat : z \div 4 \in Nat
      OBVIOUS
    <3> QED BY <3>1, <3>2, <3>3, Zenon DEF Avail
  <2>3. IsFiniteSet(Started) /\ Cardinality(Started) = arg.vms
    <3> DEFINE last == arg.vms - 1
    <3>1. last \in Int /\ 0 <= last /\ last - 0 + 1 = arg.vms
      BY <2>2
    <3> HIDE DEF last
    <3>2. 0 \in Int
      OBVIOUS
    <3>3. IsFiniteSet(0 .. last) /\ Cardinality(0 .. last) = IF 0 > last THEN 0 ELSE last - 0 + 1
      BY <3>1, <3>2, FS_Interval, Zenon
    <3>4. IsFiniteSet(0 .. last) /\ Cardinality(0 .. last) = arg.vms
      BY <3>1, <3>3
    <3> QED BY <3>4 DEF Started, last
  <2>4. IsFiniteSet(Whole30s(arg)) /\ Cardinality(Whole30s(arg)) <= Avail(arg)
    BY <2>2, Whole30sCounted
  <2>5. Cardinality(Whole30s(arg)) \in Nat
    BY <2>4, FS_CardinalityType
  <2>6. Cardinality(Whole30s(arg)) < Cardinality(Started)
    BY <2>2, <2>3, <2>4, <2>5
  <2> QED BY <2>3, <2>4, <2>6, FS_PigeonHole
<1> QED BY <1>1, Invariance, PTL

=============================================================================
