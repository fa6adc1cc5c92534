-------------------------- MODULE ServerMenu_proofs --------------------------
(***************************************************************************)
(* For all users, servers and lengths of the chat and of the queue of      *)
(* presses: ServerMenu is type correct, the bot acts only on a server of   *)
(* the user who asked, a button hits the server it named while the list is *)
(* what it showed, nobody moves the numbers of another user, and           *)
(* ServerMenu implements Registry.                                         *)
(***************************************************************************)
EXTENDS ServerMenu, TLAPS, FiniteSetTheorems, SequenceTheorems, WellFoundedInduction

-----------------------------------------------------------------------------
(* Lists of rows.  A list in order exists for every list of different rows *)
(* and every set: otherwise a shortest counterexample would exist, but a   *)
(* list for all rows but the last one makes a list for all.                *)

Lists(T) == {l \in Seq(T) : IsInjective(l)}

LEMMA SmallestNumber ==
  ASSUME NEW N \in SUBSET Nat, N # {}
  PROVE  \E m \in N : \A n \in N : m <= n
  <1> DEFINE T == {1 .. n : n \in N}
  <1>1. T \subseteq FiniteSubsetsOf(Nat) /\ T # {}
    <2>1. \A n \in N : 1 .. n \in SUBSET Nat /\ IsFiniteSet(1 .. n)
      BY FS_Interval
    <2>2. QED BY <2>1 DEF FiniteSubsetsOf
  <1>2. PICK x \in T : \A y \in T : ~ (<<y, x>> \in StrictSubsetOrdering(Nat))
    <2>1. IsWellFoundedOn(StrictSubsetOrdering(Nat), FiniteSubsetsOf(Nat))
      BY FS_StrictSubsetOrderingWellFounded
    <2> HIDE DEF T
    <2>2. QED BY <1>1, <2>1, WFMin
  <1>3. PICK m \in N : x = 1 .. m
    OBVIOUS
  <1>4. ASSUME NEW n \in N, n < m PROVE FALSE
    <2>1. 1 .. n \in SUBSET Nat /\ 1 .. m \in SUBSET Nat /\ 1 .. n \subseteq 1 .. m
      BY <1>4
    <2>2. m \in 1 .. m /\ m \notin 1 .. n
      BY <1>4
    <2>3. <<1 .. n, 1 .. m>> \in StrictSubsetOrdering(Nat)
      BY <2>1, <2>2 DEF StrictSubsetOrdering
    <2>4. QED BY <1>2, <1>3, <2>3
  <1>5. QED BY <1>4

LEMMA ListExtended ==
  ASSUME NEW T, NEW S, NEW l \in Lists(T), Len(l) # 0,
         NEW p, p = [i \in 1 .. Len(l) - 1 |-> l[i]],
         IsFiniteSet(Range(p)), InOrder(p, S) # {}
  PROVE  IsFiniteSet(Range(l)) /\ InOrder(l, S) # {}
  <1> DEFINE m == Len(l)
             x == l[m]
             R == Range(p) \cap S
             c == Cardinality(R)
  <1>1. /\ m \in Nat \ {0} /\ DOMAIN l = 1 .. m /\ DOMAIN p = 1 .. m - 1
        /\ \A i \in 1 .. m - 1 : p[i] = l[i]
        /\ \A i, j \in 1 .. m : l[i] = l[j] => i = j
    BY DEF Lists, IsInjective
  <1> HIDE DEF m
  <1>2. Range(l) = Range(p) \cup {x} /\ x \notin Range(p)
    BY <1>1 DEF Range
  <1>3. IsFiniteSet(R) /\ c \in Nat
    <2>1. R \in SUBSET Range(p)
      OBVIOUS
    <2>2. QED BY <2>1, FS_Subset, FS_CardinalityType
  <1>4. PICK q \in InOrder(p, S) : TRUE
    OBVIOUS
  <1>5. /\ q \in [1 .. c -> R] /\ Range(q) = R
        /\ \A i, j \in 1 .. c : i < j => Precedes(p, q[i], q[j])
    BY DEF InOrder
  <1>6. \A s, t : Precedes(p, s, t) => Precedes(l, s, t)
    BY <1>1 DEF Precedes
  <1>7. CASE x \notin S
    <2>1. Range(l) \cap S = R
      BY <1>2, <1>7
    <2>2. q \in InOrder(l, S)
      BY <1>3, <1>5, <1>6, <2>1 DEF InOrder
    <2>3. QED BY <1>2, <2>2, FS_AddElement
  <1>8. CASE x \in S
    <2>1. Range(l) \cap S = R \cup {x} /\ x \notin R
      BY <1>2, <1>8
    <2>2. Cardinality(R \cup {x}) = c + 1
      BY <1>3, <2>1, FS_AddElement
    <2> DEFINE r == [i \in 1 .. c + 1 |-> IF i = c + 1 THEN x ELSE q[i]]
    <2> HIDE DEF c, R, x
    <2>3. r \in [1 .. c + 1 -> R \cup {x}]
      BY <1>3, <1>5
    <2>4. Range(r) = R \cup {x}
      <3>1. \A y \in R : \E i \in 1 .. c : q[i] = y
        BY <1>5 DEF Range
      <3>2. \A y \in R : \E i \in 1 .. c + 1 : r[i] = y
        BY <1>3, <3>1
      <3>3. r[c + 1] = x /\ c + 1 \in 1 .. c + 1
        BY <1>3
      <3>4. QED BY <2>3, <3>2, <3>3 DEF Range
    <2>5. ASSUME NEW i \in 1 .. c + 1, NEW j \in 1 .. c + 1, i < j
          PROVE  Precedes(l, r[i], r[j])
      <3>1. CASE j = c + 1
        <4>1. r[j] = x /\ r[i] = q[i] /\ i \in 1 .. c
          BY <1>3, <2>5, <3>1
        <4>2. q[i] \in Range(p)
          BY <1>5, <4>1 DEF R
        <4>3. PICK k \in 1 .. m - 1 : l[k] = q[i]
          BY <1>1, <4>2 DEF Range
        <4>4. k \in DOMAIN l /\ m \in DOMAIN l /\ k < m
          BY <1>1
        <4>5. QED BY <4>1, <4>3, <4>4 DEF Precedes, x
      <3>2. CASE j # c + 1
        <4>1. r[j] = q[j] /\ r[i] = q[i] /\ i \in 1 .. c /\ j \in 1 .. c
          BY <1>3, <2>5, <3>2
        <4>2. QED BY <1>5, <1>6, <2>5, <4>1
      <3>3. QED BY <3>1, <3>2
    <2>6. r \in InOrder(l, S)
      <3>1. DOMAIN r = 1 .. c + 1
        OBVIOUS
      <3> HIDE DEF r
      <3>2. QED BY <2>1, <2>2, <2>3, <2>4, <2>5, <3>1 DEF InOrder
    <2>7. IsFiniteSet(Range(l))
      BY <1>2, FS_AddElement
    <2>8. QED BY <2>6, <2>7
  <1>9. QED BY <1>7, <1>8

LEMMA OrderExists ==
  ASSUME NEW T, NEW S, NEW l \in Lists(T)
  PROVE  IsFiniteSet(Range(l)) /\ InOrder(l, S) # {}
  <1> DEFINE Good(k) == IsFiniteSet(Range(k)) /\ InOrder(k, S) # {}
             Bad == {n \in Nat : \E k \in Lists(T) : Len(k) = n /\ ~ Good(k)}
  <1>1. ASSUME NEW k \in Lists(T), Len(k) = 0
        PROVE  Good(k)
    <2>1. Range(k) = {} /\ DOMAIN k = {}
      BY <1>1 DEF Lists, Range
    <2>2. Range(k) \cap S = {} /\ Cardinality(Range(k) \cap S) = 0
      BY <2>1, FS_EmptySet
    <2>3. k \in [1 .. 0 -> {}]
      BY <1>1, <2>1 DEF Lists
    <2>4. k \in InOrder(k, S)
      BY <2>1, <2>2, <2>3 DEF InOrder
    <2>5. QED BY <2>1, <2>4, FS_EmptySet
  <1>2. ASSUME NEW k \in Lists(T), Len(k) # 0, ~ Good(k)
        PROVE  \E j \in Lists(T) : Len(j) = Len(k) - 1 /\ ~ Good(j)
    <2> DEFINE p == [i \in 1 .. Len(k) - 1 |-> k[i]]
    <2>1. /\ k \in Seq(T) /\ Len(k) - 1 \in Nat
          /\ \A i \in 1 .. Len(k) - 1 : k[i] \in T
      BY <1>2 DEF Lists
    <2>2. p \in Seq(T) /\ Len(p) = Len(k) - 1
      BY <2>1
    <2>3. p \in Lists(T)
      BY <2>1, <2>2 DEF Lists, IsInjective
    <2>4. ~ Good(p)
      BY <1>2, ListExtended
    <2>5. QED BY <2>2, <2>3, <2>4
  <1>3. Bad = {}
    <2> SUFFICES ASSUME Bad # {} PROVE FALSE
      OBVIOUS
    <2> HIDE DEF Good
    <2>1. PICK m \in Bad : \A n \in Bad : m <= n
      BY SmallestNumber
    <2>2. PICK k \in Lists(T) : Len(k) = m /\ ~ Good(k)
      OBVIOUS
    <2>3. m # 0 /\ m \in Nat
      BY <1>1, <2>2
    <2>4. m - 1 \in Bad
      BY <1>2, <2>2, <2>3
    <2>5. QED BY <2>1, <2>3, <2>4
  <1>4. Len(l) \in Nat
    BY DEF Lists
  <1>5. QED BY <1>3, <1>4

(* What the database returns: the rows asked for, each once.               *)
LEMMA SelectionExists ==
  ASSUME NEW l \in ServerLists, NEW S
  PROVE  /\ Cardinality(Range(l) \cap S) \in Nat
         /\ Selection(l, S) \in InOrder(l, S)
  <1>1. IsFiniteSet(Range(l)) /\ InOrder(l, S) # {}
    BY OrderExists DEF ServerLists, Lists
  <1>2. Cardinality(Range(l) \cap S) \in Nat
    BY <1>1, FS_Intersection, FS_CardinalityType
  <1>3. Selection(l, S) \in InOrder(l, S)
    BY <1>1 DEF Selection
  <1>4. QED BY <1>2, <1>3

LEMMA SelectionIsList ==
  ASSUME NEW l \in ServerLists, NEW S
  PROVE  /\ Selection(l, S) \in ServerLists
         /\ Range(Selection(l, S)) = Range(l) \cap S
  <1> DEFINE c == Cardinality(Range(l) \cap S)
             q == Selection(l, S)
  <1>1. /\ c \in Nat /\ q \in [1 .. c -> Range(l) \cap S]
        /\ Range(q) = Range(l) \cap S
        /\ \A i, j \in 1 .. c : i < j => Precedes(l, q[i], q[j])
    BY SelectionExists DEF InOrder
  <1> HIDE DEF c, q
  <1>2. Range(l) \subseteq Servers
    BY DEF ServerLists, Range
  <1>3. q \in Seq(Servers)
    BY <1>1, <1>2
  <1>4. \A i, j \in 1 .. c : i < j => q[i] # q[j]
    BY <1>1 DEF Precedes, ServerLists, IsInjective
  <1>5. IsInjective(q)
    BY <1>1, <1>4 DEF IsInjective
  <1>6. QED BY <1>1, <1>3, <1>5 DEF ServerLists, q

LEMMA SelectionMember ==
  ASSUME NEW l \in ServerLists, NEW S, NEW n \in 1 .. Len(Selection(l, S))
  PROVE  Selection(l, S)[n] \in S /\ Selection(l, S)[n] \in Servers
  BY SelectionIsList DEF ServerLists, Range

(* Two lists with the same rows of S in the same order.                    *)
LEMMA SelectionAgrees ==
  ASSUME NEW k, NEW l, NEW S, Range(k) \cap S = Range(l) \cap S,
         \A s, t \in Range(l) \cap S : Precedes(k, s, t) <=> Precedes(l, s, t)
  PROVE  Selection(k, S) = Selection(l, S)
  <1>1. InOrder(k, S) = InOrder(l, S)
    BY DEF InOrder
  <1>2. QED BY <1>1 DEF Selection

LEMMA SelectionOfOlder ==
  ASSUME NEW l \in ServerLists, NEW S, NEW s \in Servers \ S, s \notin Range(l)
  PROVE  <<s>> \o l \in ServerLists
         /\ Range(<<s>> \o l) = Range(l) \cup {s}
         /\ Selection(<<s>> \o l, S) = Selection(l, S)
  <1> DEFINE m == Len(l)
             k == <<s>> \o l
  <1>1. m \in Nat /\ l \in Seq(Servers) /\ DOMAIN l = 1 .. m
    BY DEF ServerLists
  <1>2. /\ k \in Seq(Servers) /\ DOMAIN k = 1 .. m + 1 /\ k[1] = s
        /\ \A i \in 1 .. m : k[i + 1] = l[i]
        /\ \A i \in 2 .. m + 1 : k[i] = l[i - 1] /\ i - 1 \in 1 .. m
    BY <1>1
  <1> HIDE DEF m, k
  <1>3. Range(k) = Range(l) \cup {s}
    <2>1. ASSUME NEW i \in 1 .. m PROVE l[i] \in Range(k)
      <3>1. i + 1 \in DOMAIN k /\ k[i + 1] = l[i]
        BY <1>1, <1>2
      <3>2. QED BY <3>1 DEF Range
    <2>2. ASSUME NEW i \in 1 .. m + 1 PROVE k[i] \in Range(l) \cup {s}
      <3>1. i = 1 \/ i \in 2 .. m + 1
        BY <1>1
      <3>2. QED BY <1>1, <1>2, <3>1 DEF Range
    <2>3. 1 \in DOMAIN k
      BY <1>1, <1>2
    <2>4. s \in Range(k)
      BY <1>2, <2>3 DEF Range
    <2>5. Range(l) \subseteq Range(k)
      BY <1>1, <2>1 DEF Range
    <2>6. Range(k) \subseteq Range(l) \cup {s}
      BY <1>2, <2>2 DEF Range
    <2>7. QED BY <2>4, <2>5, <2>6
  <1>4. IsInjective(k)
    <2>1. ASSUME NEW i \in 2 .. m + 1 PROVE k[i] # s
      <3>1. k[i] = l[i - 1] /\ i - 1 \in DOMAIN l
        BY <1>1, <1>2
      <3>2. QED BY <3>1 DEF Range
    <2>2. ASSUME NEW i \in 2 .. m + 1, NEW j \in 2 .. m + 1, k[i] = k[j] PROVE i = j
      <3>1. /\ i - 1 \in DOMAIN l /\ j - 1 \in DOMAIN l
            /\ l[i - 1] = l[j - 1]
        BY <1>1, <1>2, <2>2
      <3>2. i - 1 = j - 1
        BY <3>1 DEF ServerLists, IsInjective
      <3>3. QED BY <3>2
    <2>3. \A i \in 1 .. m + 1 : i = 1 \/ i \in 2 .. m + 1
      BY <1>1
    <2>4. QED BY <1>2, <2>1, <2>2, <2>3 DEF IsInjective
  <1>5. ASSUME NEW a \in Range(l) \cap S, NEW b \in Range(l) \cap S
        PROVE  Precedes(k, a, b) <=> Precedes(l, a, b)
    <2>1. ASSUME NEW i \in 1 .. m, NEW j \in 1 .. m, i < j, l[i] = a, l[j] = b
          PROVE  Precedes(k, a, b)
      <3>1. i + 1 \in DOMAIN k /\ j + 1 \in DOMAIN k /\ i + 1 < j + 1
        BY <1>1, <1>2, <2>1
      <3>2. k[i + 1] = a /\ k[j + 1] = b
        BY <1>2, <2>1
      <3>3. QED BY <3>1, <3>2 DEF Precedes
    <2>2. ASSUME NEW i \in 1 .. m + 1, NEW j \in 1 .. m + 1, i < j, k[i] = a, k[j] = b
          PROVE  Precedes(l, a, b)
      <3>1. i \in 2 .. m + 1 /\ j \in 2 .. m + 1
        BY <1>1, <1>2, <2>2
      <3>2. i - 1 \in DOMAIN l /\ j - 1 \in DOMAIN l /\ i - 1 < j - 1
        BY <1>1, <2>2, <3>1
      <3>3. l[i - 1] = a /\ l[j - 1] = b
        BY <1>2, <2>2, <3>1
      <3>4. QED BY <3>2, <3>3 DEF Precedes
    <2>3. QED BY <1>1, <1>2, <2>1, <2>2 DEF Precedes
  <1>6. Range(k) \cap S = Range(l) \cap S
    BY <1>3
  <1>7. Selection(k, S) = Selection(l, S)
    BY <1>5, <1>6, SelectionAgrees
  <1>8. QED BY <1>2, <1>3, <1>4, <1>7 DEF ServerLists, k

LEMMA SelectionWithout ==
  ASSUME NEW l \in ServerLists, NEW S, NEW s \in Servers \ S
  PROVE  Selection(Selection(l, Servers \ {s}), S) = Selection(l, S)
  <1> DEFINE T == Servers \ {s}
             c == Cardinality(Range(l) \cap T)
             q == Selection(l, T)
  <1>1. /\ c \in Nat /\ q \in [1 .. c -> Range(l) \cap T]
        /\ Range(q) = Range(l) \cap T
        /\ \A i, j \in 1 .. c : i < j => Precedes(l, q[i], q[j])
    BY SelectionExists DEF InOrder
  <1>2. Range(l) \subseteq Servers
    BY DEF ServerLists, Range
  <1> HIDE DEF c, q
  <1>3. Range(q) \cap S = Range(l) \cap S
    BY <1>1, <1>2
  <1>4. ASSUME NEW a \in Range(l) \cap S, NEW b \in Range(l) \cap S
        PROVE  Precedes(q, a, b) <=> Precedes(l, a, b)
    <2>1. Precedes(q, a, b) => Precedes(l, a, b)
      BY <1>1 DEF Precedes
    <2>2. ASSUME Precedes(l, a, b) PROVE Precedes(q, a, b)
      <3>1. PICK i, j \in 1 .. c : q[i] = a /\ q[j] = b
        BY <1>1, <1>3 DEF Range
      <3>2. ~ Precedes(l, b, a) /\ a # b
        BY <2>2, <1>2 DEF Precedes, ServerLists, IsInjective
      <3>3. ~ (j < i) /\ i # j
        BY <1>1, <3>1, <3>2
      <3>4. i < j
        BY <1>1, <3>3
      <3>5. QED BY <1>1, <3>1, <3>4 DEF Precedes
    <2>3. QED BY <2>1, <2>2
  <1>5. Selection(q, S) = Selection(l, S)
    BY <1>3, <1>4, SelectionAgrees
  <1>6. QED BY <1>5 DEF q

-----------------------------------------------------------------------------
(* The inductive invariant.  A user is linked only to rows that exist; the *)
(* messages about one server show one; a press that waits names a number   *)
(* and a server as its list had them.                                      *)

LinkedExist == \A u \in Users : linked[u] \subseteq Range(created)

ShowsOne(m) == m.kind \in {"pick", "templates"} => m.shown # <<>>
PicksShowOne == \A u \in Users : \A i \in DOMAIN chat[u] : ShowsOne(chat[u][i])

AsShown(button, shown) ==
  /\ button.name = "select" =>
       button.number \in DOMAIN shown /\ button.meant = shown[button.number]
  /\ button.name = "remove_server" =>
       button.number + 1 \in DOMAIN shown /\ button.meant = shown[button.number + 1]
  /\ button.name \in {"container", "template"} => button.meant = shown[1]
PressesAsShown ==
  \A i \in DOMAIN presses : AsShown(presses[i].button, presses[i].shown)

RegistryInv ==
  /\ created \in ServerLists
  /\ linked \in [Users -> SUBSET Servers]
  /\ LinkedExist
ChatTyped ==
  /\ chat \in [Users -> Seq(Messages)]
  /\ \A u \in Users : Len(chat[u]) <= MaxMessages
Buttoned == [name : Names, number : Nat, meant : Servers \cup {NoServer}]
Presses == [user : Users, message : Nat \ {0}, shown : ServerLists, button : Buttoned]
PressesInv ==
  /\ presses \in Seq(Presses) /\ Len(presses) <= MaxPresses
  /\ PressesAsShown
Right == OwnServersOnly /\ UnchangedListHits

IInv == RegistryInv /\ ChatTyped /\ PicksShowOne /\ PressesInv /\ Right

LEMMA IInvTyped == IInv => TypeOK
  BY DEF IInv, TypeOK, RegistryInv, ChatTyped, PressesInv, Presses, Buttoned

LEMMA EmptyIsList == <<>> \in ServerLists
  BY DEF ServerLists, IsInjective

LEMMA InitInv == Init => IInv
  <1> SUFFICES ASSUME Init PROVE IInv
    OBVIOUS
  <1>1. RegistryInv
    BY EmptyIsList DEF Init, RegistryInv, LinkedExist
  <1>2. ChatTyped /\ PicksShowOne
    BY BoundsAssumption DEF Init, ChatTyped, PicksShowOne
  <1>3. PressesInv
    BY BoundsAssumption DEF Init, PressesInv, PressesAsShown
  <1>4. Right
    BY DEF Init, Right, OwnServersOnly, UnchangedListHits
  <1>5. QED BY <1>1, <1>2, <1>3, <1>4 DEF IInv

-----------------------------------------------------------------------------
(* The registry.                                                           *)

LEMMA ServersOfIsList ==
  ASSUME RegistryInv, NEW u \in Users
  PROVE  /\ ServersOf(u) \in ServerLists
         /\ \A n \in 1 .. Len(ServersOf(u)) :
              ServersOf(u)[n] \in linked[u] /\ ServersOf(u)[n] \in Servers
  BY SelectionIsList, SelectionMember DEF RegistryInv, ServersOf

LEMMA ConnectInv ==
  ASSUME RegistryInv, NEW u \in Users, NEW s \in Servers, Connect(u, s)
  PROVE  RegistryInv' /\ \A v \in Users \ {u} : ServersOf(v)' = ServersOf(v)
  <1>1. \A v \in Users : linked'[v] = IF v = u THEN linked[v] \cup {s} ELSE linked[v]
    BY DEF RegistryInv, Connect
  <1>2. linked' \in [Users -> SUBSET Servers]
    BY DEF RegistryInv, Connect
  <1>3. CASE s \in Range(created)
    <2>1. created' = created
      BY <1>3 DEF Connect, Range
    <2>2. LinkedExist'
      BY <1>1, <1>3, <2>1 DEF RegistryInv, LinkedExist
    <2>3. QED BY <1>1, <1>2, <2>1, <2>2 DEF RegistryInv, ServersOf
  <1>4. CASE s \notin Range(created)
    <2>1. created' = <<s>> \o created
      BY <1>4 DEF Connect, Range
    <2>2. \A v \in Users : s \notin linked[v]
      BY <1>4 DEF RegistryInv, LinkedExist
    <2>3. \A v \in Users : /\ created' \in ServerLists
                           /\ Range(created') = Range(created) \cup {s}
                           /\ Selection(created', linked[v]) = Selection(created, linked[v])
      BY <1>4, <2>1, <2>2, SelectionOfOlder DEF RegistryInv
    <2>4. LinkedExist'
      BY <1>1, <2>3 DEF RegistryInv, LinkedExist
    <2>5. QED BY <1>1, <1>2, <2>3, <2>4 DEF RegistryInv, ServersOf
  <1>5. QED BY <1>3, <1>4

LEMMA RemoveServerInv ==
  ASSUME RegistryInv, NEW u \in Users, NEW s \in Servers, RemoveServer(u, s)
  PROVE  RegistryInv' /\ \A v \in Users \ {u} : ServersOf(v)' = ServersOf(v)
  <1>1. \A v \in Users : linked'[v] = IF v = u THEN linked[v] \ {s} ELSE linked[v]
    BY DEF RegistryInv, RemoveServer
  <1>2. linked' \in [Users -> SUBSET Servers]
    BY <1>1 DEF RegistryInv, RemoveServer
  <1>3. CASE \E v \in Users \ {u} : s \in linked[v]
    <2>1. created' = created
      BY <1>3 DEF RemoveServer
    <2>2. LinkedExist'
      BY <1>1, <2>1 DEF RegistryInv, LinkedExist
    <2>3. QED BY <1>1, <1>2, <2>1, <2>2 DEF RegistryInv, ServersOf
  <1>4. CASE \A v \in Users \ {u} : s \notin linked[v]
    <2>1. created' = Selection(created, Servers \ {s})
      BY <1>4 DEF RemoveServer
    <2>2. /\ created' \in ServerLists
          /\ Range(created') = Range(created) \cap (Servers \ {s})
      BY <2>1, SelectionIsList DEF RegistryInv
    <2>3. \A v \in Users \ {u} :
            Selection(created', linked[v]) = Selection(created, linked[v])
      BY <1>4, <2>1, SelectionWithout DEF RegistryInv
    <2>4. \A v \in Users : s \notin linked'[v]
      BY <1>1, <1>4
    <2>5. LinkedExist'
      BY <1>1, <1>2, <2>2, <2>4 DEF RegistryInv, LinkedExist
    <2>6. QED BY <1>1, <1>2, <2>2, <2>3, <2>5 DEF RegistryInv, ServersOf
  <1>5. QED BY <1>3, <1>4

LEMMA SameRegistryInv ==
  ASSUME RegistryInv, SameRegistry
  PROVE  RegistryInv' /\ \A v \in Users : ServersOf(v)' = ServersOf(v)
  BY DEF RegistryInv, LinkedExist, SameRegistry, ServersOf

-----------------------------------------------------------------------------
(* What the bot did.                                                       *)

LEMMA NoActRight == NoAct => Right'
  BY DEF NoAct, Right, OwnServersOnly, UnchangedListHits

LEMMA ActOnRight ==
  ASSUME NEW u, NEW by, NEW server, NEW meant, NEW shown,
         ActOn(u, by, server, meant, shown), server \in linked[u],
         by = "button" /\ shown = ServersOf(u) => server = meant
  PROVE  Right'
  <1>1. act'.own = TRUE
    BY DEF ActOn
  <1>2. act'.by = by
    BY DEF ActOn
  <1>3. act'.unchanged = (shown = ServersOf(u))
    BY DEF ActOn
  <1>4. act'.hit = (server = meant)
    BY DEF ActOn
  <1>5. by = "button" /\ act'.unchanged => act'.hit
    BY <1>3, <1>4
  <1>6. QED BY <1>1, <1>2, <1>5 DEF Right, OwnServersOnly, UnchangedListHits

-----------------------------------------------------------------------------
(* Messages and their buttons.                                             *)

LEMMA ButtonsAsShown ==
  ASSUME NEW m \in Messages, ShowsOne(m), NEW b \in Buttons(m)
  PROVE  b \in Buttoned /\ AsShown(b, m.shown)
  <1>1. /\ m.kind \in Kinds /\ m.shown \in ServerLists /\ m.shown \in Seq(Servers)
        /\ DOMAIN m.shown \subseteq Nat \ {0}
        /\ \A n \in DOMAIN m.shown : m.shown[n] \in Servers
    BY DEF Messages, ServerLists
  <1> USE DEF Button, Buttoned, Names, AsShown
  <1>2. CASE m.kind = "select"
    <2>1. PICK n \in DOMAIN m.shown : b = Button("select", n, m.shown[n])
      BY <1>2 DEF Buttons
    <2>2. QED BY <1>1, <2>1
  <1>3. CASE m.kind = "remove"
    <2>1. CASE b = Button("back", 0, NoServer)
      BY <2>1
    <2>2. ASSUME NEW n \in DOMAIN m.shown, b = Button("remove_server", n - 1, m.shown[n])
          PROVE  b \in Buttoned /\ AsShown(b, m.shown)
      <3>1. n - 1 \in Nat /\ n - 1 + 1 = n
        BY <1>1
      <3>2. QED BY <1>1, <2>2, <3>1
    <2>3. QED BY <1>3, <2>1, <2>2 DEF Buttons
  <1>4. CASE m.kind \in {"pick", "templates"}
    <2>1. 1 \in DOMAIN m.shown
      BY <1>1, <1>4 DEF ShowsOne
    <2>2. m.shown[1] \in Servers
      BY <1>1, <2>1
    <2>3. \/ b = Button("container", 0, m.shown[1])
          \/ b = Button("template", 0, m.shown[1])
          \/ b = Button("cancel", 0, NoServer)
      BY <1>4 DEF Buttons
    <2>4. QED BY <2>2, <2>3
  <1>5. CASE m.kind = "manage"
    BY <1>5 DEF Buttons
  <1>6. CASE m.kind \in {"empty", "info", "containers", "plain"}
    BY <1>6 DEF Buttons
  <1>7. QED BY <1>1, <1>2, <1>3, <1>4, <1>5, <1>6 DEF Kinds

LEMMA ShowInv ==
  ASSUME ChatTyped, PicksShowOne, NEW u \in Users, NEW m \in Messages,
         m.kind \notin {"pick", "templates"}, Show(u, m)
  PROVE  ChatTyped' /\ PicksShowOne'
  <1>1. /\ chat[u] \in Seq(Messages) /\ Len(chat[u]) < MaxMessages
        /\ \A v \in Users : chat'[v] = IF v = u THEN Append(chat[u], m) ELSE chat[v]
    BY DEF ChatTyped, Show
  <1>2. /\ Append(chat[u], m) \in Seq(Messages)
        /\ Len(Append(chat[u], m)) = Len(chat[u]) + 1
        /\ \A i \in 1 .. Len(chat[u]) + 1 :
             Append(chat[u], m)[i] = IF i <= Len(chat[u]) THEN chat[u][i] ELSE m
    BY <1>1
  <1>3. ChatTyped'
    <2>1. chat' \in [Users -> Seq(Messages)]
      BY <1>2 DEF ChatTyped, Show
    <2>2. QED BY <1>1, <1>2, <2>1, BoundsAssumption DEF ChatTyped
  <1>4. PicksShowOne'
    <2> DEFINE new == Append(chat[u], m)
    <2>1. ASSUME NEW i \in DOMAIN new PROVE ShowsOne(new[i])
      <3>1. i \in DOMAIN chat[u] \/ new[i] = m
        BY <1>1, <1>2
      <3>2. i \in DOMAIN chat[u] => new[i] = chat[u][i]
        BY <1>1, <1>2
      <3>3. QED BY <3>1, <3>2 DEF PicksShowOne, ShowsOne
    <2>2. QED BY <1>1, <2>1 DEF PicksShowOne
  <1>5. QED BY <1>3, <1>4

(* An index outside of the list changes nothing.                           *)
LEMMA EditedSeq ==
  ASSUME NEW T, NEW q \in Seq(T), NEW i, NEW x \in T
  PROVE  /\ [q EXCEPT ![i] = x] \in Seq(T)
         /\ Len([q EXCEPT ![i] = x]) = Len(q)
  <1>1. CASE i \in 1 .. Len(q)
    BY <1>1, ExceptSeq
  <1>2. CASE i \notin 1 .. Len(q)
    <2>1. [q EXCEPT ![i] = x] = q
      BY <1>2
    <2>2. QED BY <2>1
  <1>3. QED BY <1>1, <1>2

LEMMA EditInv ==
  ASSUME ChatTyped, PicksShowOne, NEW m \in Messages, ShowsOne(m), Edit(m)
  PROVE  ChatTyped' /\ PicksShowOne'
  <1>1. CASE UNCHANGED chat
    BY <1>1 DEF ChatTyped, PicksShowOne
  <1>2. CASE chat' = [chat EXCEPT ![Query.user][Query.message] = m]
    <2> DEFINE u == Query.user
               old == chat[u]
               new == [old EXCEPT ![Query.message] = m]
    <2>1. CASE u \in Users
      <3>1. old \in Seq(Messages)
        BY <2>1 DEF ChatTyped
      <3>2. /\ DOMAIN new = DOMAIN old
            /\ \A i \in DOMAIN old : new[i] = IF i = Query.message THEN m ELSE old[i]
        OBVIOUS
      <3>3. \A v \in Users : chat'[v] = IF v = u THEN new ELSE chat[v]
        BY <1>2 DEF ChatTyped
      <3>4. chat' = [chat EXCEPT ![u] = new]
        BY <1>2
      <3> HIDE DEF u, old
      <3>5. new \in Seq(Messages) /\ Len(new) = Len(old)
        <4> DEFINE at == Query.message
        <4>1. new = [old EXCEPT ![at] = m]
          OBVIOUS
        <4> HIDE DEF new, at
        <4>2. QED BY <3>1, <4>1, EditedSeq
      <3> HIDE DEF new
      <3>6. chat' \in [Users -> Seq(Messages)]
        BY <3>4, <3>5 DEF ChatTyped
      <3>7. ChatTyped'
        BY <2>1, <3>3, <3>5, <3>6 DEF ChatTyped, old
      <3>8. PicksShowOne'
        <4>1. \A i \in DOMAIN new : ShowsOne(new[i])
          BY <2>1, <3>2 DEF PicksShowOne, old
        <4>2. QED BY <3>3, <4>1 DEF PicksShowOne
      <3>9. QED BY <3>7, <3>8
    <2>2. CASE u \notin Users
      <3>1. chat' = chat
        BY <1>2, <2>2 DEF ChatTyped
      <3>2. QED BY <3>1 DEF ChatTyped, PicksShowOne
    <2>3. QED BY <2>1, <2>2
  <1>3. QED BY <1>1, <1>2 DEF Edit

LEMMA PressInv ==
  ASSUME IInv, NEW u \in Users, Press(u)
  PROVE  PressesInv'
  <1>1. PICK m \in 1 .. Len(chat[u]) : \E b \in Buttons(chat[u][m]) :
          presses' = Append(presses, [user |-> u, message |-> m, button |-> b,
                                      shown |-> chat[u][m].shown])
    BY DEF Press
  <1>2. PICK b \in Buttons(chat[u][m]) :
          presses' = Append(presses, [user |-> u, message |-> m, button |-> b,
                                      shown |-> chat[u][m].shown])
    BY <1>1
  <1> DEFINE press == [user |-> u, message |-> m, button |-> b,
                       shown |-> chat[u][m].shown]
  <1>3. chat[u][m] \in Messages /\ ShowsOne(chat[u][m]) /\ m \in Nat \ {0}
    BY DEF IInv, ChatTyped, PicksShowOne
  <1>4. b \in Buttoned /\ AsShown(b, chat[u][m].shown)
    BY <1>3, ButtonsAsShown
  <1>5. press \in Presses
    BY <1>3, <1>4 DEF Presses, Messages
  <1>6. AsShown(press.button, press.shown)
    BY <1>4
  <1>7. presses \in Seq(Presses) /\ Len(presses) < MaxPresses /\ PressesAsShown
    BY DEF IInv, PressesInv, Press
  <1> HIDE DEF press
  <1>8. presses' = Append(presses, press)
    BY <1>2 DEF press
  <1>9. presses' \in Seq(Presses) /\ Len(presses') <= MaxPresses
    BY <1>5, <1>7, <1>8, BoundsAssumption
  <1>10. PressesAsShown'
    <2>1. ASSUME NEW i \in DOMAIN presses'
          PROVE  AsShown(presses'[i].button, presses'[i].shown)
      <3>1. presses'[i] = press \/ (i \in DOMAIN presses /\ presses'[i] = presses[i])
        BY <1>7, <1>8
      <3>2. QED BY <1>6, <1>7, <3>1 DEF PressesAsShown
    <2>2. QED BY <2>1 DEF PressesAsShown
  <1>11. QED BY <1>9, <1>10 DEF PressesInv

LEMMA SamePresses ==
  ASSUME PressesInv, UNCHANGED presses
  PROVE  PressesInv'
  BY DEF PressesInv, PressesAsShown

LEMMA PressedInv ==
  ASSUME PressesInv, NEW b, Pressed(b)
  PROVE  /\ PressesInv'
         /\ Query \in Presses /\ AsShown(Query.button, Query.shown)
  <1>1. /\ presses \in Seq(Presses) /\ Len(presses) \in Nat \ {0}
        /\ Len(presses) <= MaxPresses /\ PressesAsShown
        /\ presses' = Tail(presses)
    BY DEF PressesInv, Pressed
  <1>2. Query = presses[1] /\ 1 \in DOMAIN presses
    BY <1>1 DEF Query
  <1>3. presses' \in Seq(Presses) /\ Len(presses') <= MaxPresses
    BY <1>1, BoundsAssumption
  <1>4. PressesAsShown'
    <2>1. ASSUME NEW i \in DOMAIN presses'
          PROVE  AsShown(presses'[i].button, presses'[i].shown)
      <3>1. i + 1 \in DOMAIN presses /\ presses'[i] = presses[i + 1]
        BY <1>1
      <3>2. QED BY <1>1, <3>1 DEF PressesAsShown
    <2>2. QED BY <2>1 DEF PressesAsShown
  <1>5. QED BY <1>1, <1>2, <1>3, <1>4 DEF PressesInv, PressesAsShown

(* The server that a waiting press names is the one its number reads, as   *)
(* long as the list is the same; and a number read from a list is own.     *)
LEMMA PressedServer ==
  ASSUME IInv, Query \in Presses, AsShown(Query.button, Query.shown),
         NEW n \in 1 .. Len(Mine), ActOnPressed(Mine[n]),
         \/ Query.button.name = "select" /\ n = Query.button.number
         \/ Query.button.name = "remove_server" /\ n = Query.button.number + 1
         \/ Query.button.name \in {"container", "template"} /\ n = 1
  PROVE  Right'
  <1>1. Query.user \in Users
    BY DEF Presses
  <1>2. Mine[n] \in linked[Query.user]
    BY <1>1, ServersOfIsList DEF IInv, Mine
  <1>3. Query.button.meant = Query.shown[n]
    BY DEF AsShown
  <1>4. Query.shown = ServersOf(Query.user) => Mine[n] = Query.button.meant
    BY <1>3 DEF Mine
  <1>5. QED BY <1>2, <1>4, ActOnRight DEF ActOnPressed

-----------------------------------------------------------------------------
(* Each update keeps the invariant, and moves the numbers of its own user  *)
(* only.                                                                   *)

OwnNumbersOnly ==
  \A u \in Users : ServersOf(u)' # ServersOf(u) => act' # Nothing /\ act'.user = u
Kept == IInv' /\ OwnNumbersOnly

LEMMA SameListsKept ==
  ASSUME RegistryInv, SameRegistry,
         ChatTyped', PicksShowOne', PressesInv', Right'
  PROVE  Kept
  BY SameRegistryInv DEF Kept, IInv, OwnNumbersOnly

LEMMA OwnListKept ==
  ASSUME RegistryInv', ChatTyped', PicksShowOne', PressesInv', Right',
         NEW u, \A v \in Users \ {u} : ServersOf(v)' = ServersOf(v),
         act' # Nothing, act'.user = u
  PROVE  Kept
  BY DEF Kept, IInv, OwnNumbersOnly

LEMMA ActOnUser ==
  ASSUME NEW u, NEW by, NEW server, NEW meant, NEW shown,
         ActOn(u, by, server, meant, shown)
  PROVE  act' # Nothing /\ act'.user = u
  <1>1. act' = [by |-> by, user |-> u, own |-> server \in linked[u],
                hit |-> server = meant, unchanged |-> shown = ServersOf(u)]
    BY DEF ActOn
  <1>2. DOMAIN act' = {"by", "user", "own", "hit", "unchanged"} /\ act'.user = u
    BY <1>1
  <1>3. DOMAIN Nothing = {"by"}
    BY DEF Nothing
  <1>4. QED BY <1>2, <1>3

LEMMA SameChat ==
  ASSUME ChatTyped, PicksShowOne, UNCHANGED chat
  PROVE  ChatTyped' /\ PicksShowOne'
  BY DEF ChatTyped, PicksShowOne

LEMMA MessagesTyped ==
  ASSUME NEW shown \in ServerLists, NEW kind \in Kinds
  PROVE  /\ Message(kind, shown) \in Messages
         /\ Message(kind, shown).kind = kind
         /\ shown # <<>> \/ kind \notin {"pick", "templates"} => ShowsOne(Message(kind, shown))
  BY DEF Messages, Message, ShowsOne

LEMMA ShownKept ==
  ASSUME IInv, NEW u \in Users, NEW kind \in Kinds \ {"pick", "templates"},
         NEW shown \in ServerLists, Show(u, Message(kind, shown)), NoAct
  PROVE  Kept
  <1>1. ChatTyped' /\ PicksShowOne'
    BY MessagesTyped, ShowInv DEF IInv
  <1>2. SameRegistry /\ UNCHANGED presses
    BY DEF Show, SameRegistry
  <1>3. QED BY <1>1, <1>2, SamePresses, NoActRight, SameListsKept DEF IInv

LEMMA MessageKept ==
  ASSUME IInv, NEW u \in Users, HandleMessage(u)
  PROVE  Kept
  <1>1. RegistryInv /\ ChatTyped /\ PicksShowOne /\ PressesInv
    BY DEF IInv
  <1>2. /\ ServersOf(u) \in ServerLists /\ Len(ServersOf(u)) \in Nat
        /\ \A n \in 1 .. Len(ServersOf(u)) :
             ServersOf(u)[n] \in linked[u] /\ ServersOf(u)[n] \in Servers
    BY <1>1, ServersOfIsList DEF ServerLists
  <1>3. ASSUME NEW s \in Servers, Add(u, s) PROVE Kept
    <2>1. RegistryInv' /\ \A v \in Users \ {u} : ServersOf(v)' = ServersOf(v)
      BY <1>1, <1>3, ConnectInv DEF Add
    <2>2. act'.own /\ act'.by = "text" /\ act'.user = u /\ DOMAIN act' # DOMAIN Nothing
      BY <1>3 DEF Add, Nothing
    <2>3. Right'
      BY <2>2 DEF Right, OwnServersOnly, UnchangedListHits
    <2>4. UNCHANGED <<chat, presses>>
      BY <1>3 DEF Add
    <2>5. QED BY <1>1, <2>1, <2>2, <2>3, <2>4, SameChat, SamePresses, OwnListKept
  <1>4. CASE ShowServers(u)
    <2>1. CASE ServersOf(u) = <<>>
      BY <1>4, <2>1, ShownKept, EmptyIsList DEF ShowServers, Kinds
    <2>2. CASE ServersOf(u) # <<>>
      BY <1>2, <1>4, <2>2, ShownKept DEF ShowServers, Kinds
    <2>3. QED BY <2>1, <2>2
  <1>5. CASE ShowSelection(u)
    BY <1>2, <1>5, ShownKept DEF ShowSelection, Kinds
  <1>6. CASE ShowContainers(u)
    <2>1. PICK n \in Numbers(u) : Show(u, Message("containers", <<ServersOf(u)[n]>>))
      BY <1>6 DEF ShowContainers
    <2>2. <<ServersOf(u)[n]>> \in ServerLists
      BY <1>2 DEF Numbers, ServerLists, IsInjective
    <2>3. QED BY <1>6, <2>1, <2>2, ShownKept DEF ShowContainers, Kinds
  <1>7. ASSUME NEW n \in Numbers(u), NEW m, UNCHANGED <<chat, presses>>,
               ActOn(u, "text", ServersOf(u)[n], ServersOf(u)[m], ServersOf(u))
        PROVE  /\ ChatTyped' /\ PicksShowOne' /\ PressesInv' /\ Right'
               /\ act' # Nothing /\ act'.user = u
    <2>1. ServersOf(u)[n] \in linked[u]
      BY <1>2 DEF Numbers
    <2>2. Right' /\ act' # Nothing /\ act'.user = u
      BY <1>7, <2>1, ActOnRight, ActOnUser
    <2>3. QED BY <1>1, <1>7, <2>2, SameChat, SamePresses
  <1>8. CASE ByNumber(u)
    BY <1>1, <1>7, <1>8, SameListsKept DEF ByNumber
  <1>9. CASE NumberIgnored(u)
    <2>1. 1 \in Numbers(u)
      BY <1>2, <1>9 DEF NumberIgnored, Numbers
    <2>2. QED BY <1>1, <1>7, <1>9, <2>1, SameListsKept DEF NumberIgnored
  <1>10. CASE FirstServer(u)
    <2>1. 1 \in Numbers(u)
      BY <1>2, <1>10 DEF FirstServer, Numbers, ServerLists
    <2>2. QED BY <1>1, <1>7, <1>10, <2>1, SameListsKept DEF FirstServer
  <1>11. CASE RemoveByNumber(u)
    <2>1. PICK n \in Numbers(u) :
            /\ RemoveServer(u, ServersOf(u)[n])
            /\ ActOn(u, "text", ServersOf(u)[n], ServersOf(u)[n], ServersOf(u))
      BY <1>11 DEF RemoveByNumber
    <2>2. RegistryInv' /\ \A v \in Users \ {u} : ServersOf(v)' = ServersOf(v)
      BY <1>1, <1>2, <2>1, RemoveServerInv DEF Numbers
    <2>3. QED BY <1>7, <1>11, <2>1, <2>2, OwnListKept DEF RemoveByNumber
  <1>12. QED BY <1>3, <1>4, <1>5, <1>6, <1>8, <1>9, <1>10, <1>11 DEF HandleMessage

LEMMA EditedKept ==
  ASSUME IInv, NEW b, Pressed(b), NEW kind \in Kinds, NEW shown \in ServerLists,
         shown # <<>> \/ kind \notin {"pick", "templates"},
         Edit(Message(kind, shown))
  PROVE  /\ ChatTyped' /\ PicksShowOne'
         /\ NoAct /\ SameRegistry => Kept
  <1>1. ChatTyped' /\ PicksShowOne'
    BY MessagesTyped, EditInv DEF IInv
  <1>2. PressesInv' /\ RegistryInv
    BY PressedInv DEF IInv
  <1>3. QED BY <1>1, <1>2, NoActRight, SameListsKept

LEMMA OnFirstServerKept ==
  ASSUME IInv, NEW b \in {"container", "template"}, Pressed(b), OnFirstServer,
         Mine \in ServerLists
  PROVE  Kept
  <1>1. PressesInv' /\ Query \in Presses /\ AsShown(Query.button, Query.shown)
    BY PressedInv DEF IInv
  <1>2. CASE Mine = <<>>
    BY <1>1, <1>2, SameChat, NoActRight, SameListsKept DEF IInv, OnFirstServer
  <1>3. CASE Mine # <<>>
    <2>1. Edit(Plain) /\ ActOnPressed(Mine[1]) /\ SameRegistry
      BY <1>3 DEF OnFirstServer
    <2>2. ChatTyped' /\ PicksShowOne'
      BY <2>1, EditedKept, EmptyIsList DEF Plain, Kinds
    <2>3. 1 \in 1 .. Len(Mine)
      BY <1>3 DEF ServerLists
    <2>4. Right'
      BY <1>1, <2>1, <2>3, PressedServer DEF Pressed
    <2>5. QED BY <1>1, <2>1, <2>2, <2>4, SameListsKept DEF IInv
  <1>4. QED BY <1>2, <1>3

LEMMA QueryKept ==
  ASSUME IInv, HandleCallbackQuery
  PROVE  Kept
  <1>1. RegistryInv /\ ChatTyped /\ PicksShowOne /\ PressesInv
    BY DEF IInv
  <1>2. ASSUME NEW b, Pressed(b)
        PROVE  /\ PressesInv' /\ Query \in Presses /\ AsShown(Query.button, Query.shown)
               /\ Query.user \in Users /\ Query.button.number \in Nat
               /\ Mine \in ServerLists /\ Len(Mine) \in Nat
               /\ \A n \in 1 .. Len(Mine) : Mine[n] \in linked[Query.user] /\ Mine[n] \in Servers
    <2>1. PressesInv' /\ Query \in Presses /\ AsShown(Query.button, Query.shown)
      BY <1>1, <1>2, PressedInv
    <2>2. Query.user \in Users /\ Query.button.number \in Nat
      BY <2>1 DEF Presses, Buttoned
    <2>3. QED BY <1>1, <2>1, <2>2, ServersOfIsList DEF Mine, ServerLists
  <1>3. CASE SelectPressed
    <2>1. Pressed("select") /\ SameRegistry /\ UNCHANGED chat
      BY <1>3 DEF SelectPressed
    <2>2. CASE Query.button.number <= Len(Mine)
      <3>1. ActOnPressed(Mine[Query.button.number])
        BY <1>3, <2>2 DEF SelectPressed
      <3>2. Query.button.number \in 1 .. Len(Mine)
        <4>1. Query.button.number \in DOMAIN Query.shown /\ Query.shown \in ServerLists
          BY <1>2, <2>1 DEF AsShown, Pressed, Presses
        <4>2. QED BY <1>2, <2>1, <2>2, <4>1 DEF ServerLists
      <3>3. Right'
        BY <1>2, <2>1, <3>1, <3>2, PressedServer DEF Pressed
      <3>4. QED BY <1>1, <1>2, <2>1, <3>3, SameChat, SameListsKept
    <2>3. CASE ~ (Query.button.number <= Len(Mine))
      <3>1. NoAct
        BY <1>3, <2>3 DEF SelectPressed
      <3>2. QED BY <1>1, <1>2, <2>1, <3>1, NoActRight, SameChat, SameListsKept
    <2>4. QED BY <2>2, <2>3
  <1>4. CASE AddPressed
    BY <1>4, EditedKept, EmptyIsList DEF AddPressed, Kinds
  <1>5. CASE InfoPressed
    <2>1. CASE Mine = <<>>
      BY <1>5, <2>1, EditedKept, EmptyIsList DEF InfoPressed, Plain, Kinds
    <2>2. CASE Mine # <<>>
      BY <1>5, <2>2, EditedKept, EmptyIsList DEF InfoPressed, Kinds
    <2>3. QED BY <2>1, <2>2
  <1>6. CASE BackPressed
    <2>1. CASE Mine = <<>>
      BY <1>6, <2>1, EditedKept, EmptyIsList DEF BackPressed, Kinds
    <2>2. CASE Mine # <<>>
      BY <1>2, <1>6, <2>2, EditedKept DEF BackPressed, Kinds
    <2>3. QED BY <2>1, <2>2
  <1>7. CASE RemoveMenuPressed
    <2>1. CASE Mine = <<>>
      BY <1>7, <2>1, EditedKept, EmptyIsList DEF RemoveMenuPressed, Plain, Kinds
    <2>2. CASE Mine # <<>>
      BY <1>2, <1>7, <2>2, EditedKept DEF RemoveMenuPressed, Kinds
    <2>3. QED BY <2>1, <2>2
  <1>8. CASE RemoveConfirmed
    <2> DEFINE n == Query.button.number + 1
    <2>1. /\ Pressed("remove_server") /\ Query.button.number < Len(Mine)
          /\ RemoveServer(Query.user, Mine[n]) /\ ActOnPressed(Mine[n])
          /\ Edit(Message("info", <<>>))
      BY <1>8 DEF RemoveConfirmed
    <2>2. n \in 1 .. Len(Mine)
      BY <1>2, <2>1
    <2>3. Right'
      BY <1>2, <2>1, <2>2, PressedServer DEF Pressed
    <2>4. act' # Nothing /\ act'.user = Query.user
      BY <2>1, ActOnUser DEF ActOnPressed
    <2>5. ChatTyped' /\ PicksShowOne'
      BY <2>1, EditedKept, EmptyIsList DEF Kinds
    <2>6. RegistryInv' /\ \A v \in Users \ {Query.user} : ServersOf(v)' = ServersOf(v)
      BY <1>1, <1>2, <2>1, <2>2, RemoveServerInv
    <2>7. PressesInv'
      BY <1>2, <2>1
    <2>8. QED BY <2>3, <2>4, <2>5, <2>6, <2>7, OwnListKept
  <1>9. CASE RemoveRefused
    BY <1>9, EditedKept, EmptyIsList DEF RemoveRefused, Plain, Kinds
  <1>10. CASE ContainerActionPressed
    <2>1. Pressed("container_action") /\ NoAct /\ SameRegistry
      BY <1>10 DEF ContainerActionPressed
    <2>2. CASE Mine = <<>>
      <3>1. UNCHANGED chat
        BY <1>10, <2>2 DEF ContainerActionPressed
      <3>2. QED BY <1>1, <1>2, <2>1, <3>1, SameChat, NoActRight, SameListsKept
    <2>3. CASE Mine # <<>>
      <3>1. Edit(Message("pick", Mine)) \/ Edit(Message("templates", Mine)) \/ Edit(Plain)
        BY <1>10, <2>3 DEF ContainerActionPressed, Templates
      <3>2. CASE Edit(Plain)
        BY <2>1, <3>2, EditedKept, EmptyIsList DEF Plain, Kinds
      <3>3. CASE Edit(Message("pick", Mine))
        BY <1>2, <2>1, <2>3, <3>3, EditedKept DEF Kinds
      <3>4. CASE Edit(Message("templates", Mine))
        BY <1>2, <2>1, <2>3, <3>4, EditedKept DEF Kinds
      <3>5. QED BY <3>1, <3>2, <3>3, <3>4
    <2>4. QED BY <2>2, <2>3
  <1>11. CASE ContainerPressed
    BY <1>2, <1>11, OnFirstServerKept DEF ContainerPressed
  <1>12. CASE TemplatePressed
    BY <1>2, <1>12, OnFirstServerKept DEF TemplatePressed
  <1>13. CASE ContainerRefused
    BY <1>13, EditedKept, EmptyIsList DEF ContainerRefused, Plain, Kinds
  <1>14. CASE CancelPressed
    BY <1>14, EditedKept, EmptyIsList DEF CancelPressed, Plain, Kinds
  <1>15. QED BY <1>3, <1>4, <1>5, <1>6, <1>7, <1>8, <1>9, <1>10, <1>11, <1>12, <1>13,
                <1>14 DEF HandleCallbackQuery

LEMMA StepKept == IInv /\ [Next]_vars => IInv' /\ [OwnNumbersOnly]_vars
  <1> SUFFICES ASSUME IInv, [Next]_vars PROVE IInv' /\ [OwnNumbersOnly]_vars
    OBVIOUS
  <1>1. ASSUME NEW u \in Users, HandleMessage(u) PROVE Kept
    BY <1>1, MessageKept
  <1>2. ASSUME NEW u \in Users, Press(u) PROVE Kept
    <2>1. NoAct /\ SameRegistry /\ UNCHANGED chat
      BY <1>2 DEF Press, SameRegistry
    <2>2. QED BY <1>2, <2>1, PressInv, NoActRight, SameChat, SameListsKept DEF IInv
  <1>3. ASSUME HandleCallbackQuery PROVE Kept
    BY <1>3, QueryKept
  <1>4. CASE UNCHANGED vars
    <2>1. RegistryInv' /\ ChatTyped' /\ PicksShowOne' /\ PressesInv'
      BY <1>4, SameRegistryInv, SameChat, SamePresses DEF vars, IInv, SameRegistry
    <2>2. Right'
      BY <1>4 DEF vars, IInv, Right, OwnServersOnly, UnchangedListHits
    <2>3. QED BY <1>4, <2>1, <2>2 DEF IInv
  <1>5. QED BY <1>1, <1>2, <1>3, <1>4 DEF Next, Kept

(* In every state that the handlers can reach, lists hold each server      *)
(* once, links and presses name users and servers, and the chat and the    *)
(* queue of presses respect their bounds (getUserServersWithInfo,          *)
(* handleCallbackQuery).                                                   *)
THEOREM TypeCorrect == Spec => []TypeOK
  BY InitInv, StepKept, IInvTyped, PTL DEF Spec

(* The bot acts only on servers of the user who asked, however stale the   *)
(* button is that was pressed (selectServer, handleRemoveServerConfirm).   *)
THEOREM OnlyOwnServers == Spec => []OwnServersOnly
  <1>1. IInv => OwnServersOnly
    BY DEF IInv, Right
  <1>2. QED BY <1>1, InitInv, StepKept, PTL DEF Spec

(* While the list of a user is what the buttons showed, a button hits the  *)
(* server that it named: selectServer counts from 1 as                     *)
(* showServerSelectionButtons does, and the removal counts from 0 on both  *)
(* sides.                                                                  *)
THEOREM UnchangedListsHit == Spec => []UnchangedListHits
  <1>1. IInv => UnchangedListHits
    BY DEF IInv, Right
  <1>2. QED BY <1>1, InitInv, StepKept, PTL DEF Spec

(* A user's numbers move only with an own /add or removal, whoever shares  *)
(* the servers (addServer, removeServer).                                  *)
THEOREM NumbersKept == Spec => OthersKeepMyNumbers
  <1>1. [OwnNumbersOnly]_vars => [\A u \in Users :
          ServersOf(u)' # ServersOf(u) => act' # Nothing /\ act'.user = u]_vars
    BY DEF OwnNumbersOnly
  <1>2. QED BY <1>1, InitInv, StepKept, PTL DEF Spec, OthersKeepMyNumbers

-----------------------------------------------------------------------------
(* Refinement of Registry.                                                 *)

LinksTyped == linked \in [Users -> SUBSET Servers]

Members == {m \in Users \X Servers : m[2] \in linked[m[1]]}

(* What an update may do to the links.                                     *)
Links(u, s) == linked' = [linked EXCEPT ![u] = @ \cup {s}]
Unlinks(u, s) == linked' = [linked EXCEPT ![u] = @ \ {s}]
OneChange ==
  \/ UNCHANGED linked
  \/ \E u \in Users, s \in Servers : Links(u, s)
  \/ \E u, s : Unlinks(u, s)

-----------------------------------------------------------------------------
LEMMA MessageChangesOne ==
  ASSUME NEW u \in Users, HandleMessage(u)
  PROVE  OneChange
  <1>1. ASSUME NEW s \in Servers, Add(u, s) PROVE OneChange
    BY <1>1 DEF Add, Connect, OneChange, Links
  <1>2. CASE RemoveByNumber(u)
    BY <1>2 DEF RemoveByNumber, RemoveServer, OneChange, Unlinks
  <1>3. CASE ShowServers(u) \/ ShowSelection(u) \/ ShowContainers(u)
    BY <1>3 DEF ShowServers, ShowSelection, ShowContainers, Show, OneChange
  <1>4. CASE ByNumber(u) \/ NumberIgnored(u) \/ FirstServer(u)
    BY <1>4 DEF ByNumber, NumberIgnored, FirstServer, SameRegistry, OneChange
  <1>5. QED BY <1>1, <1>2, <1>3, <1>4 DEF HandleMessage

LEMMA QueryChangesOne ==
  ASSUME HandleCallbackQuery
  PROVE  OneChange
  <1> USE DEF OneChange, SameRegistry
  <1>1. CASE RemoveConfirmed
    BY <1>1 DEF RemoveConfirmed, RemoveServer, Unlinks
  <1>2. CASE SelectPressed \/ AddPressed \/ InfoPressed \/ BackPressed
    BY <1>2 DEF SelectPressed, AddPressed, InfoPressed, BackPressed
  <1>3. CASE RemoveMenuPressed \/ RemoveRefused \/ ContainerActionPressed
    BY <1>3 DEF RemoveMenuPressed, RemoveRefused, ContainerActionPressed
  <1>4. CASE ContainerPressed \/ TemplatePressed
    BY <1>4 DEF ContainerPressed, TemplatePressed, OnFirstServer
  <1>5. CASE ContainerRefused \/ CancelPressed
    BY <1>5 DEF ContainerRefused, CancelPressed
  <1>6. QED BY <1>1, <1>2, <1>3, <1>4, <1>5 DEF HandleCallbackQuery

LEMMA StepChangesOne ==
  ASSUME [Next]_vars
  PROVE  OneChange
  <1>1. ASSUME NEW u \in Users, Press(u) PROVE OneChange
    BY <1>1 DEF Press, OneChange
  <1>2. CASE UNCHANGED vars
    BY <1>2 DEF vars, OneChange
  <1>3. QED BY <1>1, <1>2, MessageChangesOne, QueryChangesOne DEF Next

(* A number that no server has, or a user that is none, changes nothing.   *)
LEMMA UnlinksOne ==
  ASSUME LinksTyped, NEW u, NEW s, Unlinks(u, s)
  PROVE  UNCHANGED linked \/ (u \in Users /\ s \in Servers)
  <1>1. CASE u \notin Users
    BY <1>1 DEF LinksTyped, Unlinks
  <1>2. CASE u \in Users /\ s \notin Servers
    <2>1. linked[u] \ {s} = linked[u]
      BY <1>2 DEF LinksTyped
    <2>2. QED BY <1>2, <2>1 DEF LinksTyped, Unlinks
  <1>3. QED BY <1>1, <1>2

-----------------------------------------------------------------------------
LEMMA InitRefines == Init => Reg!Init
  BY DEF Init, Reg!Init

LEMMA MembersAreLinked ==
  /\ Members \subseteq Users \X Servers /\ Members' \subseteq Users \X Servers
  /\ \A v \in Users, t \in Servers : <<v, t>> \in Members <=> t \in linked[v]
  /\ \A v \in Users, t \in Servers : <<v, t>> \in Members' <=> t \in linked'[v]
  BY DEF Members

LEMMA LinksRefines ==
  ASSUME LinksTyped, NEW u \in Users, NEW s \in Servers, Links(u, s)
  PROVE  Reg!Connect(u, s)
  <1>1. \A v \in Users : linked'[v] = IF v = u THEN linked[v] \cup {s} ELSE linked[v]
    BY DEF LinksTyped, Links
  <1>2. \A v \in Users, t \in Servers :
          <<v, t>> \in Members' <=> <<v, t>> \in Members \/ (v = u /\ t = s)
    BY <1>1, MembersAreLinked
  <1>3. Members' = Members \cup {<<u, s>>}
    BY <1>2, MembersAreLinked
  <1>4. QED BY <1>3 DEF Reg!Connect, Members

LEMMA UnlinksRefines ==
  ASSUME LinksTyped, NEW u \in Users, NEW s \in Servers, Unlinks(u, s)
  PROVE  Reg!Disconnect(u, s)
  <1>1. \A v \in Users : linked'[v] = IF v = u THEN linked[v] \ {s} ELSE linked[v]
    BY DEF LinksTyped, Unlinks
  <1>2. \A v \in Users, t \in Servers :
          <<v, t>> \in Members' <=> <<v, t>> \in Members /\ ~ (v = u /\ t = s)
    BY <1>1, MembersAreLinked
  <1>3. Members' = Members \ {<<u, s>>}
    BY <1>2, MembersAreLinked
  <1>4. QED BY <1>3 DEF Reg!Disconnect, Members

LEMMA StepRefines == LinksTyped /\ [Next]_vars => [Reg!Next]_Reg!registryVars
  <1> SUFFICES ASSUME LinksTyped, [Next]_vars PROVE [Reg!Next]_Reg!registryVars
    OBVIOUS
  <1>1. CASE UNCHANGED linked
    BY <1>1 DEF Reg!registryVars
  <1>2. ASSUME NEW u \in Users, NEW s \in Servers, Links(u, s) PROVE Reg!Next
    BY <1>2, LinksRefines DEF Reg!Next
  <1>3. ASSUME NEW u, NEW s, Unlinks(u, s) PROVE [Reg!Next]_Reg!registryVars
    BY <1>1, <1>3, UnlinksOne, UnlinksRefines DEF Reg!Next
  <1>4. QED BY <1>1, <1>2, <1>3, StepChangesOne DEF OneChange

(* A command or a button, however stale the list it was made from, is one  *)
(* operation of the registry or none (handleAddServer,                     *)
(* handleRemoveServer, handleRemoveServerConfirm).                         *)
THEOREM Refinement == Spec => ImplementsRegistry
  <1>1. IInv => LinksTyped
    BY DEF IInv, RegistryInv, LinksTyped
  <1>2. QED BY <1>1, InitInv, StepKept, InitRefines, StepRefines, PTL
            DEF Spec, ImplementsRegistry, Reg!Spec
=============================================================================
