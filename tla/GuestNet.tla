------------------------------ MODULE GuestNet ------------------------------
(***************************************************************************)
(* The address plan: resolveGuestNet accepts or refuses -guest-net at      *)
(* startup, and every bootOne carves its own /30 out of it, in whatever    *)
(* order the goroutines run.                                               *)
(*                                                                         *)
(* Addresses are numbers below Space, 2^32 in the program; sums wrap.      *)
(***************************************************************************)
EXTENDS Integers

CONSTANTS Space,      \* how many addresses there are
          Prefixes,   \* the prefix lengths
          BlockSize,  \* how many addresses a prefix length spans
          Counts      \* the values of -vms

Address == 0 .. Space - 1

ASSUME SpaceAssumption == Space \in Nat /\ 4 <= Space /\ Space % 4 = 0
ASSUME BlockAssumption ==
    /\ BlockSize \in [Prefixes -> 1 .. Space]
    /\ \A p \in Prefixes : Space % BlockSize[p] = 0
                           /\ (BlockSize[p] >= 4 => BlockSize[p] % 4 = 0)
ASSUME CountsAssumption == Counts \subseteq Int

VARIABLES
    pc,     \* "start", "usage" (exit 2), "panic" or "resolved"
    arg,    \* what the command line says
    base,   \* guestNetBase
    plan    \* the addresses of each VM under way: a function from VMs

vars == <<pc, arg, base, plan>>

(***************************************************************************)
(* net.ParseCIDR's answer.  "mapped" is an IPv4-mapped IPv6 address with a *)
(* prefix from /66 to /95: masking destroys the ::ffff: part, so that the  *)
(* address is IPv4 to ip.To4 and the network is not.  "wide" is one with a *)
(* shorter prefix still, for which 1 << (bits - ones) has overflowed: to 0 *)
(* at /64 and below, to less at /65.                                       *)
(***************************************************************************)
Kinds == {"malformed", "v6", "mapped", "wide", "v4"}
Args  == [kind : Kinds, ip : Address, prefix : Prefixes, vms : Counts]

Size(a) == BlockSize[a.prefix]
u32(x)  == x % Space

\* Slips: the address as typed for that of the network; the network after it.
AsTyped(a) == a.ip
NextNetwork(a) == a.ip - (a.ip % Size(a)) + Size(a)

\* The bits of the address under the mask, ipnet.IP.
Masked(a) == a.ip - (a.ip % Size(a))

Avail(a) == Size(a) \div 4

\* Slip: no room left for the last VM.
TooSmallStrict(a) == Avail(a) <= a.vms
TooSmall(a) == Avail(a) < a.vms

vmBase(i)    == u32(base + u32(4 * i))
vmHostIP(i)  == u32(vmBase(i) + 1)
vmGuestIP(i) == u32(vmBase(i) + 2)

Init ==
    /\ pc = "start"
    /\ arg \in Args
    /\ base = 0
    /\ plan = <<>>

\* A "mapped" network holds enough /30s for any -vms and a "wide" one none.
resolveGuestNet ==
    /\ pc = "start"
    /\ \/ /\ \/ arg.kind \in {"malformed", "v6", "wide"}
             \/ arg.kind = "v4" /\ TooSmall(arg)
          /\ pc' = "usage" /\ UNCHANGED base
       \/ /\ arg.kind = "mapped" \/ (arg.kind = "wide" /\ arg.vms <= 0)
          /\ pc' = "panic" /\ UNCHANGED base
       \/ /\ arg.kind = "v4" /\ ~TooSmall(arg)
          /\ base' = Masked(arg) /\ pc' = "resolved"
    /\ UNCHANGED <<arg, plan>>

\* bootOne(i) configures its tap, its guest's command line and its MAC.
Carve(i) ==
    /\ pc = "resolved" /\ i \notin DOMAIN plan
    /\ plan' = [j \in DOMAIN plan \cup {i} |->
                   IF j = i THEN [host |-> vmHostIP(i), guest |-> vmGuestIP(i)] ELSE plan[j]]
    /\ UNCHANGED <<pc, arg, base>>

Started == 0 .. arg.vms - 1

Terminated ==
    /\ pc # "start" /\ (pc = "resolved" => Started \subseteq DOMAIN plan)
    /\ UNCHANGED vars

Next == resolveGuestNet \/ (\E i \in Started : Carve(i)) \/ Terminated

Spec == Init /\ [][Next]_vars

-----------------------------------------------------------------------------

Pair == [host : Address, guest : Address]

\* Every variable keeps to the values the code can give it.
TypeOK ==
    /\ pc \in {"start", "usage", "panic", "resolved"}
    /\ arg \in Args /\ base \in Address
    /\ DOMAIN plan \subseteq Started
    /\ \A i \in DOMAIN plan : plan[i] \in Pair

(***************************************************************************)
(* Whatever range the user gives and however many VMs, the VMs under way   *)
(* never share a /30, no address falls out of the range or wraps around    *)
(* the end of the address space, and host and guest are the two usable     *)
(* addresses of one /30: what the kernel's connected routes need to tell   *)
(* the taps apart.                                                         *)
(***************************************************************************)
net30(x) == x \div 4

InRange(x) == Masked(arg) <= x /\ x < Masked(arg) + Size(arg)

PlanSound ==
    /\ \A i \in DOMAIN plan :
          /\ InRange(plan[i].host) /\ InRange(plan[i].guest)
          /\ plan[i].host % 4 = 1 /\ plan[i].guest % 4 = 2
          /\ net30(plan[i].host) = net30(plan[i].guest)
    /\ \A i, j \in DOMAIN plan : i # j => net30(plan[i].host) # net30(plan[j].host)

(***************************************************************************)
(* A range is refused only when it really is too small: the /30s whose     *)
(* four addresses lie in it are fewer than -vms.                           *)
(***************************************************************************)
Whole30s(a) == {n \in 0 .. net30(Space) - 1 : \A k \in 0 .. 3 : /\ Masked(a) <= 4 * n + k
                                                               /\ 4 * n + k < Masked(a) + Size(a)}

RefusedOnlyIfTooSmall ==
    pc = "usage" /\ arg.kind = "v4" =>
        ~\E f \in [Started -> Whole30s(arg)] : \A i, j \in Started : i # j => f[i] # f[j]

=============================================================================
