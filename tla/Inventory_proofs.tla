------------------------- MODULE Inventory_proofs -------------------------
(***************************************************************************)
(* Theorems about the printer catalog, for any number of queues, devices,  *)
(* printers, scans, commands and failures.                                 *)
(*                                                                         *)
(* The first part is about the operators a scan is made of: filtering,     *)
(* merging of observations, and reconciliation.  They are recursive        *)
(* functions over the positions of a sequence, and what they compute is    *)
(* shown by induction.  The second part is the inductive invariant, with a *)
(* lemma for each conjunct and action that can disturb it.                 *)
(***************************************************************************)
EXTENDS Inventory, Lists_proofs

-----------------------------------------------------------------------------
(* What printers, observations and catalogs are made of.                   *)

Vias == {"queue", "network", "virtual"}
Names == Uris \cup Fresh \cup {"none", "old", "host"} \cup {ToString(q) : q \in Queues}
Ids == {"made", "uri", "network", "queue"} \X Names
Sources == {"system-queue", "manual-network", "virtual"} \X Names
Fingerprint == [uri : Uris \cup {"none"}, host : Names, queue : Queues \cup {0}]

Printer ==
  [id : Ids, via : Vias, addr : Names, fp : Fingerprint, providers : SUBSET Sources,
   enabled : BOOLEAN, mode : {"raw", "driver"}, online : BOOLEAN, offline : BOOLEAN,
   profile : {"none", "receipt", "page"}]

Observation ==
  [id : Ids \cup {NoId}, via : Vias, addr : Names, online : BOOLEAN, fp : Fingerprint,
   providers : SUBSET Sources]

\* The evidence a connection kind can have: a queue has a device, a network printer an
\* address, a virtual printer neither, and each kind has a provider of its own.
Source(via) ==
  IF via = "queue" THEN "system-queue"
  ELSE IF via = "network" THEN "manual-network" ELSE "virtual"

Evidence(x) ==
  /\ x.fp.uri = "none" <=> x.via # "queue"
  /\ x.via # "queue" => x.fp.queue = 0
  /\ x.via # "network" => x.fp.host = "none"
  /\ \A s \in x.providers : s[1] = Source(x.via)

PrinterOK(p) ==
  /\ p \in Printer /\ Evidence(p)
  /\ p.id[1] = IF p.via = "queue" THEN "uri" ELSE "made"
  /\ ValidReference(Reference(p))

ObservationOK(o) ==
  /\ o \in Observation /\ Evidence(o)
  /\ IF o.via = "queue" THEN o.id = NoId ELSE o.id \in Ids /\ o.id[1] = "made"

UniqueIds(printers) == \A i, j \in 1 .. Len(printers) : printers[i].id = printers[j].id => i = j
PrintersOK(printers) ==
  /\ printers \in Seq(Printer) /\ \A i \in 1 .. Len(printers) : PrinterOK(printers[i])
IdsOf(printers) == {printers[i].id : i \in 1 .. Len(printers)}

CatalogOK(c) ==
  /\ c \in [printers : Seq(Printer), suppressed : SUBSET Ids]
  /\ PrintersOK(c.printers) /\ UniqueIds(c.printers)
  /\ \A id \in c.suppressed : id[1] = "uri" /\ id \notin IdsOf(c.printers)

-----------------------------------------------------------------------------
(* The inductive invariant.                                                *)

\* Every printer that is in a copy of the catalog or in the snapshot of a scan.
Seen ==
  Range(state.printers) \cup Range(disk.printers) \cup Range(mutation.next.printers)
    \cup UNION {Range(scans[s].printers) : s \in Scans}

\* An identifier stands for one connection kind wherever it is found, and an identifier
\* a user's printer got is used up.
Identified ==
  /\ \A p, q \in Seen : p.id = q.id => p.via = q.via
  /\ \A p \in Seen : p.id[1] = "made" => p.id[2] \in world.used \cup {"old"}

Descriptor ==
  [id : Ids, via : Vias, addr : Names, enabled : BOOLEAN, online : BOOLEAN,
   fingerprint : Ids \cup (Vias \X Names), esc_pos : BOOLEAN]
LinkType ==
  [open : BOOLEAN, due : BOOLEAN, notices : Nat, reading : BOOLEAN,
   read : SUBSET Descriptor, server : [revision : Nat, printers : SUBSET Descriptor],
   refused : BOOLEAN]

Ops == {"configure", "add", "create", "update", "remove", "refresh"}
Awaits == {"persist", "publish", "register", "resolve", "forget"}
MutationType ==
  [op : Ops \cup {"none"}, id : Ids \cup {NoId}, todo : Seq(Awaits),
   next : [printers : Seq(Printer), suppressed : SUBSET Ids]]

WorldType ==
  [uri : [Queues -> Uris \cup {"none"}], removed : SUBSET Ids, used : SUBSET Fresh,
   commands : Nat, changes : Nat]

Typed ==
  /\ CatalogOK(state) /\ CatalogOK(disk) /\ CatalogOK(mutation.next)
  /\ mutation \in MutationType
  /\ scans \in [Scans -> [running : BOOLEAN, printers : Seq(Printer)]]
  /\ \A s \in Scans : PrintersOK(scans[s].printers)
  /\ world \in WorldType
  /\ revision \in Nat /\ link \in LinkType

\* The awaits a command still has before it publishes, and after.
Rests(op) ==
  CASE op \in {"configure", "add", "refresh"} -> {<<"resolve">>}
    [] op = "create" -> {<<"register", "resolve">>}
    [] op = "update" -> {<<"register">>}
    [] op = "remove" -> {<<"resolve">>, <<"resolve", "forget">>}
    [] OTHER -> {}
Storing == \E rest \in Rests(mutation.op) : mutation.todo = <<"persist", "publish">> \o rest
Publishing == \E rest \in Rests(mutation.op) : mutation.todo = <<"publish">> \o rest
Resolving ==
  \/ mutation.op \in {"configure", "add", "refresh"} /\ mutation.todo = <<"resolve">>
  \/ mutation.op = "create" /\ mutation.todo \in {<<"register", "resolve">>, <<"resolve">>}
  \/ mutation.op = "remove" /\ mutation.todo \in {<<"resolve", "forget">>, <<"resolve">>}
Registering == mutation.op = "update" /\ mutation.todo = <<"register">>
Forgetting == mutation.op = "remove" /\ mutation.todo = <<"forget">>
Published == Resolving \/ Registering \/ Forgetting

\* What the list a command prepares has to do with the catalog it starts from.
PreparedBy(op, id, printers) ==
  /\ op # "configure" =>
       \A p \in Range(state.printers), q \in Range(printers) :
         p.id = q.id => <<p.enabled, p.mode, p.profile>> = <<q.enabled, q.mode, q.profile>>
  /\ op # "refresh" =>
       \A p \in Range(state.printers) \cup Range(printers) : p.id # id =>
         (p \in Range(state.printers) <=> p \in Range(printers))
  /\ op = "refresh" => IdsOf(state.printers) \subseteq IdsOf(printers)
  /\ op = "update" =>
       {Reference(p) : p \in Active(state)}
         = {Reference(p) : p \in {q \in Range(printers) : IsActive(q)}}
  /\ op \in {"configure", "add", "create"} =>
       \A p \in Range(printers) : p.id = id => IsActive(p)
Prepared == PreparedBy(mutation.op, mutation.id, mutation.next.printers)

Refs == {Reference(p) : p \in Active(state)}

\* How far the copies of the catalog are, by the progress of the command.
Copies ==
  \/ mutation = Free /\ disk = state /\ resolver = Refs
  \/ /\ mutation.op # "none"
     /\ mutation.op = "remove" => mutation.id \in world.removed
     /\ \/ Storing /\ disk = state /\ resolver = Refs /\ Prepared
        \/ Publishing /\ disk = mutation.next /\ resolver = Refs /\ Prepared
        \/ /\ Resolving /\ disk = state /\ mutation.next = state
           /\ mutation.op # "refresh" =>
                \A r \in resolver \cup Refs : r.id # mutation.id =>
                  (r \in resolver <=> r \in Refs)
           /\ mutation.op = "refresh" => \A r \in resolver : r.id \in IdsOf(state.printers)
           /\ mutation.op \in {"configure", "add", "create"} =>
                \A p \in Range(state.printers) : p.id = mutation.id => IsActive(p)
        \/ /\ Registering \/ Forgetting
           /\ disk = state /\ mutation.next = state /\ resolver = Refs

\* The identifier that the virtual spooler is about to learn.
Coming ==
  IF mutation.op = "create" /\ mutation.todo # <<"resolve">> THEN {mutation.id} ELSE {}
Bringing(op, id) == IF op = "create" THEN {id} ELSE {}
Expected(p, more) ==
  p.via = "virtual" /\ "virtual" \in Features => p.id \in spoolers \cup world.removed \cup more

\* Virtual printers are registered, or about to be, or were removed at some time.
Listed ==
  /\ \A p \in Range(state.printers) \cup UNION {Range(scans[s].printers) : s \in Scans} :
       Expected(p, IF Published THEN Coming ELSE {})
  /\ \A p \in Range(mutation.next.printers) : Expected(p, Coming)

\* An open session will send another inventory, or what it read or sent last is the
\* catalog as it is; unless a command is past its publication, or a printer that was
\* removed is back, so that refresh fails before it tells the session.
Told ==
  link.open =>
    \/ link.due \/ link.notices > 0 \/ Published
    \/ world.removed \cap IdsOf(state.printers) # {}
    \/ IF link.reading THEN link.read = Descriptors
       ELSE link.server = [revision |-> revision, printers |-> Descriptors]

Invariant == Typed /\ Identified /\ Copies /\ Listed /\ Told

-----------------------------------------------------------------------------
(* The elements that a filter keeps.                                       *)

\* A non-empty set of positions has a first one.
LEMMA FirstProperties ==
  ASSUME NEW I \in SUBSET Nat, I # {}
  PROVE  First(I) \in I
<1>1. \E i \in I : \A j \in I : i <= j
  BY LeastNatural
<1>. QED
  BY <1>1 DEF First

\* The recursion of Kept, up to the n-th position.
KeptRun(u, s, keep, n) ==
  u = [i \in 0 .. n |->
         IF i = 0 THEN <<>> ELSE IF i \in keep THEN Append(u[i - 1], s[i]) ELSE u[i - 1]]

\* It has a solution.
LEMMA KeptRunExists == ASSUME NEW s, NEW keep, NEW n \in Nat PROVE \E u : KeptRun(u, s, keep, n)
<1>. DEFINE T == {k \in Nat : \E u : KeptRun(u, s, keep, k)}
<1>1. 0 \in T
  <2>. DEFINE u == [i \in 0 .. 0 |-> <<>>]
  <2>1. KeptRun(u, s, keep, 0)
    BY DEF KeptRun
  <2>. QED
    BY <2>1
<1>2. ASSUME NEW k \in T PROVE k + 1 \in T
  <2>1. PICK u : KeptRun(u, s, keep, k)
    OBVIOUS
  <2>2. \A i \in 0 .. k : u[i] = IF i = 0 THEN <<>> ELSE IF i \in keep THEN Append(u[i - 1], s[i])
                                                     ELSE u[i - 1]
    BY <2>1 DEF KeptRun
  <2>. DEFINE last == IF k + 1 \in keep THEN Append(u[k], s[k + 1]) ELSE u[k]
              v == [i \in 0 .. k + 1 |-> IF i = k + 1 THEN last ELSE u[i]]
  <2>3. \A i \in 0 .. k + 1 : v[i] = IF i = 0 THEN <<>> ELSE IF i \in keep THEN Append(v[i - 1], s[i])
                                                         ELSE v[i - 1]
    BY <2>2
  <2>4. KeptRun(v, s, keep, k + 1)
    BY <2>3 DEF KeptRun
  <2>. QED
    BY <2>4
<1>. HIDE DEF T
<1>3. T \in SUBSET Nat
  BY DEF T
<1>4. T = Nat
  BY <1>1, <1>2, <1>3, EveryNatural
<1>. QED
  BY <1>4 DEF T

\* Every kept element is one of s at a position in keep, and the other way round, and
\* two of them stand in the order in which they stand in s.
Filtered(k, s, keep, n) ==
  /\ \A j \in 1 .. Len(k) : \E a \in 1 .. n : a \in keep /\ k[j] = s[a]
  /\ \A a \in 1 .. n : a \in keep => \E j \in 1 .. Len(k) : k[j] = s[a]
  /\ \A i, j \in 1 .. Len(k) : i < j => \E a, b \in 1 .. n : a < b /\ k[i] = s[a] /\ k[j] = s[b]

LEMMA KeptProperties ==
  ASSUME NEW S, NEW s \in Seq(S), NEW keep
  PROVE  /\ Kept(s, keep) \in Seq(S)
         /\ Filtered(Kept(s, keep), s, keep, Len(s))
<1>. DEFINE N == Len(s)
<1>1. N \in Nat /\ \A i \in 1 .. N : s[i] \in S
  BY LenProperties, ElementOfSeq
<1>. DEFINE u == CHOOSE w : w = [i \in 0 .. N |->
                 IF i = 0 THEN <<>> ELSE IF i \in keep THEN Append(w[i - 1], s[i]) ELSE w[i - 1]]
<1>2. \E w : w = [i \in 0 .. N |->
                 IF i = 0 THEN <<>> ELSE IF i \in keep THEN Append(w[i - 1], s[i]) ELSE w[i - 1]]
  <2>1. \E w : KeptRun(w, s, keep, N)
    BY <1>1, KeptRunExists
  <2>. QED
    BY <2>1 DEF KeptRun
<1>3. u = [i \in 0 .. N |->
             IF i = 0 THEN <<>> ELSE IF i \in keep THEN Append(u[i - 1], s[i]) ELSE u[i - 1]]
  BY <1>2
<1>4. Kept(s, keep) = u[N]
  BY DEF Kept
<1>. HIDE DEF u
<1>5. \A i \in 0 .. N : u[i] = IF i = 0 THEN <<>> ELSE IF i \in keep THEN Append(u[i - 1], s[i])
                                                   ELSE u[i - 1]
  BY <1>1, <1>3
<1>. HIDE DEF N
<1>. DEFINE T == {n \in Nat : n <= N => u[n] \in Seq(S) /\ Filtered(u[n], s, keep, n)}
<1>6. 0 \in T
  <2>. DEFINE e == << >>
  <2>1. u[0] = e /\ e \in Seq(S) /\ Len(e) = 0
    BY <1>1, <1>5
  <2>. HIDE DEF e
  <2>2. /\ \A j \in 1 .. Len(e) : FALSE
        /\ \A j \in 1 .. 0 : FALSE
    BY <2>1
  <2>3. Filtered(e, s, keep, 0)
    BY <2>2 DEF Filtered
  <2>. QED
    BY <2>1, <2>3
<1>7. ASSUME NEW n \in T PROVE n + 1 \in T
  <2>. SUFFICES ASSUME n + 1 <= N
                PROVE  u[n + 1] \in Seq(S) /\ Filtered(u[n + 1], s, keep, n + 1)
    OBVIOUS
  <2>1. /\ n \in Nat /\ n + 1 \in 0 .. N /\ n + 1 # 0 /\ n + 1 \in 1 .. N
        /\ u[n] \in Seq(S) /\ Filtered(u[n], s, keep, n)
    BY <1>1
  <2>2. u[n + 1] = IF n + 1 \in keep THEN Append(u[n], s[n + 1]) ELSE u[n]
    BY <1>5, <2>1
  <2>. DEFINE k == u[n]
              m == Len(k)
  <2>3. m \in Nat /\ \A i \in 1 .. n + 1 : i \in 1 .. n \/ i = n + 1
    BY <2>1, LenProperties
  <2>4. /\ \A j \in 1 .. m : \E a \in 1 .. n : a \in keep /\ k[j] = s[a]
        /\ \A a \in 1 .. n : a \in keep => \E j \in 1 .. m : k[j] = s[a]
        /\ \A i, j \in 1 .. m : i < j => \E a, b \in 1 .. n : a < b /\ k[i] = s[a] /\ k[j] = s[b]
    BY <2>1 DEF Filtered
  <2>5. ASSUME n + 1 \in keep
        PROVE  Append(k, s[n + 1]) \in Seq(S) /\ Filtered(Append(k, s[n + 1]), s, keep, n + 1)
    <3>. DEFINE a1 == Append(k, s[n + 1])
    <3>1. s[n + 1] \in S
      BY <1>1, <2>1
    <3>2. /\ a1 \in Seq(S) /\ Len(a1) = m + 1 /\ a1[m + 1] = s[n + 1]
          /\ \A i \in 1 .. m : a1[i] = k[i]
      BY <2>1, <3>1, AppendProperties
    <3>. HIDE DEF a1, m, k
    <3>3. \A i \in 1 .. m + 1 : i \in 1 .. m \/ i = m + 1
      BY <2>3
    <3>4. ASSUME NEW j \in 1 .. m + 1
          PROVE  \E a \in 1 .. n + 1 : a \in keep /\ a1[j] = s[a]
      <4>1. CASE j \in 1 .. m
        <5>1. PICK a \in 1 .. n : a \in keep /\ k[j] = s[a]
          BY <2>4, <4>1
        <5>. QED
          BY <2>1, <3>2, <4>1, <5>1
      <4>2. CASE j = m + 1
        BY <2>1, <2>5, <3>2, <4>2
      <4>. QED
        BY <3>3, <4>1, <4>2
    <3>5. \A a \in 1 .. n + 1 : a \in keep => \E j \in 1 .. m + 1 : a1[j] = s[a]
      BY <2>1, <2>3, <2>4, <3>2
    <3>6. ASSUME NEW i \in 1 .. m + 1, NEW j \in 1 .. m + 1, i < j
          PROVE  \E a, b \in 1 .. n + 1 : a < b /\ a1[i] = s[a] /\ a1[j] = s[b]
      <4>1. i \in 1 .. m
        BY <2>3, <3>6
      <4>2. CASE j \in 1 .. m
        <5>1. PICK a \in 1 .. n, b \in 1 .. n : a < b /\ k[i] = s[a] /\ k[j] = s[b]
          BY <2>4, <3>6, <4>1, <4>2
        <5>. WITNESS a \in 1 .. n + 1, b \in 1 .. n + 1
        <5>. QED
          BY <3>2, <4>1, <4>2, <5>1
      <4>3. CASE j = m + 1
        <5>1. PICK a \in 1 .. n : k[i] = s[a]
          BY <2>4, <4>1
        <5>. WITNESS a \in 1 .. n + 1, n + 1 \in 1 .. n + 1
        <5>. QED
          BY <2>1, <3>2, <4>1, <4>3, <5>1
      <4>. QED
        BY <3>3, <4>2, <4>3
    <3>7. Filtered(a1, s, keep, n + 1)
      BY <3>2, <3>4, <3>5, <3>6 DEF Filtered
    <3>. QED
      BY <3>2, <3>7 DEF a1
  <2>6. ASSUME n + 1 \notin keep PROVE Filtered(k, s, keep, n + 1)
    <3>. HIDE DEF k, m
    <3>1. \A a \in 1 .. n + 1 : a \in keep => a \in 1 .. n
      BY <2>3, <2>6
    <3>2. \A a \in 1 .. n : a \in 1 .. n + 1
      BY <2>1
    <3>. QED
      BY <2>4, <3>1, <3>2 DEF Filtered, m
  <2>. QED
    BY <2>1, <2>2, <2>5, <2>6
<1>8. T \in SUBSET Nat
  OBVIOUS
<1>. HIDE DEF T
<1>9. N \in T
  BY <1>1, <1>6, <1>7, <1>8, EveryNatural
<1>. QED
  BY <1>1, <1>4, <1>9 DEF T, N

-----------------------------------------------------------------------------
(* Evidence: which kinds of connection can share a key or a provider.      *)

LEMMA ElementsOfSeq ==
  ASSUME NEW S, NEW s \in Seq(S)
  PROVE  /\ Range(s) = {s[i] : i \in 1 .. Len(s)} /\ Range(s) \subseteq S
         /\ Len(s) \in Nat /\ DOMAIN s = 1 .. Len(s)
<1>1. DOMAIN s = 1 .. Len(s) /\ Len(s) \in Nat
  BY LenProperties
<1>2. \A i \in 1 .. Len(s) : s[i] \in S
  BY ElementOfSeq
<1>3. Range(s) = {s[i] : i \in DOMAIN s}
  BY DEF Range
<1>4. Range(s) = {s[i] : i \in 1 .. Len(s)}
  BY <1>1, <1>3
<1>5. \A x \in {s[i] : i \in 1 .. Len(s)} : x \in S
  BY <1>2
<1>. QED
  BY <1>1, <1>4, <1>5

LEMMA ConcatRange ==
  ASSUME NEW S, NEW s \in Seq(S), NEW t \in Seq(S)
  PROVE  /\ s \o t \in Seq(S) /\ Range(s \o t) = Range(s) \cup Range(t)
         /\ Len(s) > 0 => Head(s \o t) = s[1]
<1>. DEFINE m == Len(s)
            n == Len(t)
            c == s \o t
<1>1. m \in Nat /\ n \in Nat
  BY LenProperties
<1>2. /\ c \in Seq(S) /\ Len(c) = m + n
      /\ \A i \in 1 .. m + n : c[i] = IF i <= m THEN s[i] ELSE t[i - m]
  BY ConcatProperties
<1>3. /\ Range(s) = {s[i] : i \in 1 .. m} /\ Range(t) = {t[i] : i \in 1 .. n}
      /\ Range(c) = {c[i] : i \in 1 .. m + n}
  <2>1. Range(s) = {s[i] : i \in 1 .. m} /\ Range(t) = {t[i] : i \in 1 .. n}
    BY ElementsOfSeq
  <2>. HIDE DEF c
  <2>2. Range(c) = {c[i] : i \in 1 .. Len(c)}
    BY <1>2, ElementsOfSeq
  <2>. QED
    BY <1>2, <2>1, <2>2
<1>. HIDE DEF c, m, n
<1>4. \A i \in 1 .. m : i \in 1 .. m + n /\ c[i] = s[i]
  BY <1>1, <1>2
<1>5. \A i \in 1 .. n : m + i \in 1 .. m + n /\ c[m + i] = t[i]
  BY <1>1, <1>2
<1>6. ASSUME NEW i \in 1 .. m + n PROVE c[i] \in Range(s) \cup Range(t)
  <2>1. CASE i <= m
    BY <1>1, <1>2, <1>3, <2>1
  <2>2. CASE ~(i <= m)
    <3>1. i - m \in 1 .. n /\ c[i] = t[i - m]
      BY <1>1, <1>2, <2>2
    <3>. QED
      BY <1>3, <3>1
  <2>. QED
    BY <2>1, <2>2
<1>7. Range(c) = Range(s) \cup Range(t)
  BY <1>3, <1>4, <1>5, <1>6
<1>8. ASSUME m > 0 PROVE Head(c) = s[1]
  <2>1. 1 \in 1 .. m /\ c # << >>
    BY <1>1, <1>2, <1>8
  <2>2. Head(c) = c[1]
    BY <1>2, <2>1
  <2>. QED
    BY <1>4, <2>1, <2>2
<1>. QED
  BY <1>2, <1>7, <1>8 DEF c, m

LEMMA QueuesAreNumbers == Queues \in SUBSET Nat /\ 0 \notin Queues
BY InventoryAssumption DEF Queues

\* The keys of a fingerprint, and the strongest one of a device.
LEMMA IdentityKeysProperties ==
  ASSUME NEW fp \in Fingerprint
  PROVE  /\ IdentityKeys(fp) \in Seq(Ids)
         /\ \A k \in Range(IdentityKeys(fp)) :
              \/ k[1] = "uri" /\ fp.uri # "none"
              \/ k[1] = "network" /\ fp.host # "none"
              \/ k[1] = "queue" /\ fp.queue # 0
         /\ fp.uri # "none" =>
              Head(IdentityKeys(fp)) = <<"uri", fp.uri>> /\ <<"uri", fp.uri>> \in Ids
<1>. DEFINE e == << >>
            u == <<"uri", fp.uri>>
            h == <<"network", fp.host>>
            q == <<"queue", ToString(fp.queue)>>
            a == IF fp.uri = "none" THEN e ELSE <<u>>
            b == IF fp.host = "none" THEN e ELSE <<h>>
            c == IF fp.queue = 0 THEN e ELSE <<q>>
<1>1. /\ fp.uri # "none" => u \in Ids /\ u[1] = "uri"
      /\ fp.host # "none" => h \in Ids /\ h[1] = "network"
      /\ fp.queue # 0 => q \in Ids /\ q[1] = "queue"
  <2>1. fp.uri \in Uris \cup {"none"} /\ fp.host \in Names /\ fp.queue \in Queues \cup {0}
    BY DEF Fingerprint
  <2>. QED
    BY <2>1 DEF Ids, Names
<1>2. IdentityKeys(fp) = (a \o b) \o c
  BY DEF IdentityKeys
<1>3. e \in Seq(Ids) /\ Range(e) = {}
  BY DEF Range
<1>4. \A k \in Ids : <<k>> \in Seq(Ids) /\ Range(<<k>>) = {k} /\ Len(<<k>>) = 1 /\ <<k>>[1] = k
  BY DEF Range
<1>. HIDE DEF e, u, h, q
<1>5. /\ a \in Seq(Ids) /\ b \in Seq(Ids) /\ c \in Seq(Ids)
      /\ Range(a) = IF fp.uri = "none" THEN {} ELSE {u}
      /\ Range(b) = IF fp.host = "none" THEN {} ELSE {h}
      /\ Range(c) = IF fp.queue = 0 THEN {} ELSE {q}
      /\ fp.uri # "none" => Len(a) = 1 /\ a[1] = u
  BY <1>1, <1>3, <1>4
<1>. HIDE DEF a, b, c
<1>. DEFINE d == a \o b
<1>6. /\ d \in Seq(Ids) /\ Range(d) = Range(a) \cup Range(b)
      /\ fp.uri # "none" => Head(d) = u /\ Len(d) > 0
  <2>1. /\ d \in Seq(Ids) /\ Range(d) = Range(a) \cup Range(b)
        /\ Len(a) > 0 => Head(d) = a[1]
    BY <1>5, ConcatRange
  <2>2. Len(d) = Len(a) + Len(b) /\ Len(b) \in Nat
    BY <1>5, ConcatProperties, LenProperties
  <2>. QED
    BY <1>5, <2>1, <2>2
<1>. HIDE DEF d
<1>7. /\ d \o c \in Seq(Ids) /\ Range(d \o c) = Range(d) \cup Range(c)
      /\ Len(d) > 0 => Head(d \o c) = d[1]
  BY <1>5, <1>6, ConcatRange
<1>8. Len(d) > 0 => Head(d) = d[1]
  BY <1>6
<1>9. \A k \in Range(a) \cup Range(b) \cup Range(c) :
              \/ k[1] = "uri" /\ fp.uri # "none"
              \/ k[1] = "network" /\ fp.host # "none"
              \/ k[1] = "queue" /\ fp.queue # 0
  BY <1>1, <1>5
<1>. QED
  BY <1>1, <1>2, <1>6, <1>7, <1>8, <1>9 DEF u, d

\* A shared key or provider tells that the connections are of one kind.
LEMMA KeyKind ==
  ASSUME NEW x, x.fp \in Fingerprint, Evidence(x), x.via \in Vias,
         NEW k \in Range(IdentityKeys(x.fp))
  PROVE  \/ k[1] \in {"uri", "queue"} /\ x.via = "queue"
         \/ k[1] = "network" /\ x.via = "network"
BY IdentityKeysProperties DEF Evidence, Vias

LEMMA SharedEvidence ==
  ASSUME NEW x, NEW y, x.fp \in Fingerprint, y.fp \in Fingerprint,
         Evidence(x), Evidence(y), x.via \in Vias, y.via \in Vias
  PROVE  /\ Range(IdentityKeys(x.fp)) \cap Range(IdentityKeys(y.fp)) # {} => x.via = y.via
         /\ x.providers \cap y.providers # {} => x.via = y.via
         /\ ObservedKeys(x) \cap ObservedKeys(y) # {} => x.via = y.via
<1>1. \A k \in Range(IdentityKeys(x.fp)) : \/ k[1] \in {"uri", "queue"} /\ x.via = "queue"
                                           \/ k[1] = "network" /\ x.via = "network"
  BY KeyKind
<1>2. \A k \in Range(IdentityKeys(y.fp)) : \/ k[1] \in {"uri", "queue"} /\ y.via = "queue"
                                           \/ k[1] = "network" /\ y.via = "network"
  BY KeyKind
<1>3. /\ \A k \in ObservedKeys(x) : (k[1] \in {"uri", "queue"} /\ x.via = "queue") \/ k[1] = x.via
      /\ \A k \in ObservedKeys(y) : (k[1] \in {"uri", "queue"} /\ y.via = "queue") \/ k[1] = y.via
  BY <1>1, <1>2 DEF ObservedKeys
<1>4. ASSUME NEW s \in x.providers \cap y.providers PROVE x.via = y.via
  <2>1. Source(x.via) = Source(y.via)
    BY <1>4 DEF Evidence
  <2>. QED
    BY <2>1 DEF Source, Vias
<1>5. ASSUME NEW k \in ObservedKeys(x) \cap ObservedKeys(y) PROVE x.via = y.via
  BY <1>3, <1>5 DEF Vias
<1>. QED
  BY <1>1, <1>2, <1>4, <1>5

\* The identifier an observation brings or gets, and its kind.
LEMMA DiscoveredIdProperties ==
  ASSUME NEW o, ObservationOK(o)
  PROVE  /\ DiscoveredPrinterId(o) \in Ids
         /\ DiscoveredPrinterId(o)[1] = IF o.via = "queue" THEN "uri" ELSE "made"
         /\ o.via # "queue" => DiscoveredPrinterId(o) = o.id
<1>1. o.fp \in Fingerprint /\ o.via \in Vias
  BY DEF ObservationOK, Observation
<1>2. CASE o.via = "queue"
  <2>1. o.id = NoId /\ o.fp.uri # "none"
    BY <1>2 DEF ObservationOK, Evidence
  <2>. DEFINE d == <<"uri", o.fp.uri>>
  <2>2. DiscoveredPrinterId(o) = d /\ d \in Ids
    BY <1>1, <2>1, IdentityKeysProperties DEF DiscoveredPrinterId
  <2>3. d[1] = "uri"
    OBVIOUS
  <2>. QED
    BY <1>2, <2>2, <2>3
<1>3. CASE o.via # "queue"
  <2>1. o.id \in Ids /\ o.id[1] = "made"
    BY <1>3 DEF ObservationOK
  <2>2. o.id # NoId
    BY <2>1 DEF NoId
  <2>. QED
    BY <1>3, <2>1, <2>2 DEF DiscoveredPrinterId
<1>. QED
  BY <1>2, <1>3

-----------------------------------------------------------------------------
(* Merging of the observations of one pass.                                *)

\* merge_observation: the result is an observation of the same printer.
LEMMA MergeObservationOK ==
  ASSUME NEW a, NEW b, ObservationOK(a), ObservationOK(b), a.via = b.via
  PROVE  /\ ObservationOK(MergeObservation(a, b))
         /\ MergeObservation(a, b).via = a.via /\ MergeObservation(a, b).id = a.id
<1>. DEFINE f == MergeMissing(a.fp, b.fp)
            i == IF a.id = NoId THEN b.id ELSE a.id
            w == a.online \/ b.online
            s == a.providers \cup b.providers
            m == [a EXCEPT !.fp = f, !.id = i, !.online = w, !.providers = s]
<1>1. MergeObservation(a, b) = m
  BY DEF MergeObservation
<1>2. /\ a \in Observation /\ b \in Observation
      /\ a.fp \in Fingerprint /\ b.fp \in Fingerprint
      /\ a.via \in Vias
  BY DEF ObservationOK, Observation
<1>3. /\ f \in Fingerprint
      /\ f.uri = "none" <=> a.fp.uri = "none" /\ b.fp.uri = "none"
      /\ f.host = "none" <=> a.fp.host = "none" /\ b.fp.host = "none"
      /\ f.queue = 0 <=> a.fp.queue = 0 /\ b.fp.queue = 0
  BY <1>2, Zenon DEF Fingerprint, MergeMissing
<1>4. i = a.id
  <2>1. a.id \in Ids => a.id # NoId
    BY DEF Ids, NoId
  <2>. QED
    BY <2>1 DEF ObservationOK
<1>5. /\ i \in Ids \cup {NoId} /\ w \in BOOLEAN /\ s \in SUBSET Sources
      /\ \A t \in s : t[1] = Source(a.via)
  BY <1>2, <1>4 DEF ObservationOK, Observation, Evidence
<1>. HIDE DEF f, i, w, s
<1>6. /\ m \in Observation /\ m.via = a.via /\ m.id = i /\ m.fp = f /\ m.providers = s
  BY <1>2, <1>3, <1>5 DEF Observation
<1>. HIDE DEF m
<1>7. Evidence(m)
  BY <1>3, <1>5, <1>6 DEF ObservationOK, Evidence
<1>8. ObservationOK(m)
  BY <1>4, <1>6, <1>7 DEF ObservationOK
<1>. QED
  BY <1>1, <1>4, <1>6, <1>8

\* What a pass knows of a printer that has an identifier comes from an observation.
Traced(merged, observations) ==
  \A i \in 1 .. Len(merged) : merged[i].via # "queue" =>
    \E j \in 1 .. Len(observations) :
      observations[j].id = merged[i].id /\ observations[j].via = merged[i].via

ObservationsOK(s) == s \in Seq(Observation) /\ \A i \in 1 .. Len(s) : ObservationOK(s[i])

LEMMA AddObservationOK ==
  ASSUME NEW merged, NEW o, NEW observations,
         ObservationsOK(merged), ObservationOK(o), Traced(merged, observations),
         \E j \in 1 .. Len(observations) : observations[j] = o
  PROVE  /\ ObservationsOK(AddObservation(merged, o))
         /\ Traced(AddObservation(merged, o), observations)
<1>. DEFINE n == Len(merged)
            same == {i \in 1 .. n : ObservedKeys(merged[i]) \cap ObservedKeys(o) # {}}
<1>1. /\ merged \in Seq(Observation) /\ n \in Nat /\ o \in Observation
      /\ \A i \in 1 .. n : ObservationOK(merged[i])
  BY LenProperties DEF ObservationsOK, ObservationOK
<1>2. CASE same = {}
  <2>. DEFINE r == Append(merged, o)
  <2>1. AddObservation(merged, o) = r
    BY <1>2 DEF AddObservation
  <2>2. /\ r \in Seq(Observation) /\ Len(r) = n + 1 /\ r[n + 1] = o
        /\ \A i \in 1 .. n : r[i] = merged[i]
    BY <1>1, AppendProperties
  <2>3. \A i \in 1 .. n + 1 : i \in 1 .. n \/ i = n + 1
    BY <1>1
  <2>. HIDE DEF r, n
  <2>4. ObservationsOK(r)
    BY <1>1, <2>2, <2>3 DEF ObservationsOK
  <2>5. \A i \in 1 .. n : merged[i].via # "queue" =>
          \E j \in 1 .. Len(observations) :
            observations[j].id = merged[i].id /\ observations[j].via = merged[i].via
    BY DEF Traced, n
  <2>6. Traced(r, observations)
    BY <2>2, <2>3, <2>5 DEF Traced
  <2>. QED
    BY <2>1, <2>4, <2>6
<1>3. CASE same # {}
  <2>. DEFINE k == First(same)
              e == MergeObservation(merged[k], o)
              r == [merged EXCEPT ![k] = e]
  <2>1. AddObservation(merged, o) = r
    BY <1>3 DEF AddObservation
  <2>2. same \in SUBSET Nat
    BY <1>1
  <2>3. k \in same
    BY <1>3, <2>2, FirstProperties
  <2>4. k \in 1 .. n /\ ObservationOK(merged[k]) /\ merged[k].via = o.via
    <3>1. k \in 1 .. n /\ ObservedKeys(merged[k]) \cap ObservedKeys(o) # {}
      BY <2>3
    <3>2. ObservationOK(merged[k])
      BY <1>1, <3>1
    <3>. DEFINE x == merged[k]
    <3>. HIDE DEF x
    <3>3. x.fp \in Fingerprint /\ o.fp \in Fingerprint /\ Evidence(x) /\ Evidence(o)
          /\ x.via \in Vias /\ o.via \in Vias
      BY <3>2 DEF ObservationOK, Observation, x
    <3>4. ObservedKeys(x) \cap ObservedKeys(o) # {}
      BY <3>1 DEF x
    <3>5. x.via = o.via
      BY <3>3, <3>4, SharedEvidence
    <3>. QED
      BY <3>1, <3>2, <3>5 DEF x
  <2>5. ObservationOK(e) /\ e.via = merged[k].via /\ e.id = merged[k].id /\ e \in Observation
    BY <2>4, MergeObservationOK DEF ObservationOK
  <2>. HIDE DEF e, k
  <2>6. /\ r \in Seq(Observation) /\ Len(r) = n
        /\ \A j \in 1 .. n : r[j] = IF j = k THEN e ELSE merged[j]
    BY <1>1, <2>4, <2>5, ExceptSeq
  <2>. HIDE DEF r, same
  <2>7. ObservationsOK(r)
    BY <1>1, <2>5, <2>6 DEF ObservationsOK
  <2>8. \A i \in 1 .. n : r[i].via = merged[i].via /\ r[i].id = merged[i].id
    BY <2>5, <2>6
  <2>9. Traced(r, observations)
    BY <2>6, <2>8 DEF Traced
  <2>. QED
    BY <2>1, <2>7, <2>9
<1>. QED
  BY <1>2, <1>3

\* The recursion of Deduplicate, up to the n-th observation.
MergeRun(u, s, n) ==
  u = [i \in 0 .. n |-> IF i = 0 THEN <<>> ELSE AddObservation(u[i - 1], s[i])]

LEMMA MergeRunExists == ASSUME NEW s, NEW n \in Nat PROVE \E u : MergeRun(u, s, n)
<1>. DEFINE T == {k \in Nat : \E u : MergeRun(u, s, k)}
<1>1. 0 \in T
  <2>. DEFINE u == [i \in 0 .. 0 |-> <<>>]
  <2>1. MergeRun(u, s, 0)
    BY DEF MergeRun
  <2>. QED
    BY <2>1
<1>2. ASSUME NEW k \in T PROVE k + 1 \in T
  <2>1. PICK u : MergeRun(u, s, k)
    OBVIOUS
  <2>2. \A i \in 0 .. k : u[i] = IF i = 0 THEN <<>> ELSE AddObservation(u[i - 1], s[i])
    BY <2>1 DEF MergeRun
  <2>. DEFINE last == AddObservation(u[k], s[k + 1])
              v == [i \in 0 .. k + 1 |-> IF i = k + 1 THEN last ELSE u[i]]
  <2>3. \A i \in 0 .. k + 1 : v[i] = IF i = 0 THEN <<>> ELSE AddObservation(v[i - 1], s[i])
    BY <2>2
  <2>4. MergeRun(v, s, k + 1)
    BY <2>3 DEF MergeRun
  <2>. QED
    BY <2>4
<1>. HIDE DEF T
<1>3. T \in SUBSET Nat
  BY DEF T
<1>4. T = Nat
  BY <1>1, <1>2, <1>3, EveryNatural
<1>. QED
  BY <1>4 DEF T

LEMMA DeduplicateOK ==
  ASSUME NEW s, ObservationsOK(s)
  PROVE  ObservationsOK(Deduplicate(s)) /\ Traced(Deduplicate(s), s)
<1>. DEFINE N == Len(s)
            u == CHOOSE w : w = [i \in 0 .. N |->
                   IF i = 0 THEN <<>> ELSE AddObservation(w[i - 1], s[i])]
<1>1. N \in Nat /\ \A i \in 1 .. N : ObservationOK(s[i])
  BY LenProperties DEF ObservationsOK
<1>2. \E w : w = [i \in 0 .. N |-> IF i = 0 THEN <<>> ELSE AddObservation(w[i - 1], s[i])]
  <2>1. \E w : MergeRun(w, s, N)
    BY <1>1, MergeRunExists
  <2>. QED
    BY <2>1 DEF MergeRun
<1>3. u = [i \in 0 .. N |-> IF i = 0 THEN <<>> ELSE AddObservation(u[i - 1], s[i])]
  BY <1>2
<1>4. Deduplicate(s) = u[N]
  BY DEF Deduplicate
<1>. HIDE DEF u
<1>5. \A i \in 0 .. N : u[i] = IF i = 0 THEN <<>> ELSE AddObservation(u[i - 1], s[i])
  BY <1>1, <1>3
<1>. HIDE DEF N
<1>. DEFINE T == {n \in Nat : n <= N => ObservationsOK(u[n]) /\ Traced(u[n], s)}
<1>6. 0 \in T
  <2>. DEFINE e == << >>
  <2>1. u[0] = e /\ e \in Seq(Observation) /\ Len(e) = 0
    BY <1>1, <1>5
  <2>. HIDE DEF e
  <2>2. \A j \in 1 .. Len(e) : FALSE
    BY <2>1
  <2>3. ObservationsOK(e) /\ Traced(e, s)
    BY <2>1, <2>2 DEF ObservationsOK, Traced
  <2>. QED
    BY <2>1, <2>3
<1>7. ASSUME NEW n \in T PROVE n + 1 \in T
  <2>. SUFFICES ASSUME n + 1 <= N
                PROVE  ObservationsOK(u[n + 1]) /\ Traced(u[n + 1], s)
    OBVIOUS
  <2>1. /\ n \in Nat /\ n + 1 \in 0 .. N /\ n + 1 # 0 /\ n + 1 \in 1 .. N /\ (n + 1) - 1 = n
        /\ ObservationsOK(u[n]) /\ Traced(u[n], s)
    BY <1>1
  <2>2. u[n + 1] = AddObservation(u[n], s[n + 1])
    BY <1>5, <2>1
  <2>. DEFINE o == s[n + 1]
  <2>3. ObservationOK(o) /\ \E j \in 1 .. Len(s) : s[j] = o
    BY <1>1, <2>1 DEF N
  <2>. HIDE DEF o
  <2>4. ObservationsOK(AddObservation(u[n], o)) /\ Traced(AddObservation(u[n], o), s)
    BY <2>1, <2>3, AddObservationOK
  <2>. QED
    BY <2>2, <2>4 DEF o
<1>8. T \in SUBSET Nat
  OBVIOUS
<1>. HIDE DEF T
<1>9. N \in T
  BY <1>1, <1>6, <1>7, <1>8, EveryNatural
<1>. QED
  BY <1>1, <1>4, <1>9 DEF T

-----------------------------------------------------------------------------
(* Reconciliation of observations with the catalog.                        *)

\* matching_printer_index finds a printer of the kind that was observed, and misses none
\* with the identifier.
LEMMA MatchProperties ==
  ASSUME NEW ps, NEW id, NEW o, PrintersOK(ps), ObservationOK(o),
         \A i \in 1 .. Len(ps) : ps[i].id = id => ps[i].via = o.via
  PROVE  LET m == MatchingPrinterIndex(ps, id, o)
         IN  /\ m \in 0 .. Len(ps)
             /\ m = 0 => id \notin IdsOf(ps)
             /\ m # 0 => ps[m].via = o.via
<1>. DEFINE n == Len(ps)
            byId == {i \in 1 .. n : ps[i].id = id}
            byEvidence == {i \in 1 .. n :
                             \/ Range(IdentityKeys(ps[i].fp)) \cap Range(IdentityKeys(o.fp)) # {}
                             \/ ps[i].providers \cap o.providers # {}}
            m == MatchingPrinterIndex(ps, id, o)
<1>1. n \in Nat /\ \A i \in 1 .. n : PrinterOK(ps[i])
  BY LenProperties DEF PrintersOK
<1>2. m = IF byId # {} THEN First(byId) ELSE IF byEvidence # {} THEN First(byEvidence) ELSE 0
  BY DEF MatchingPrinterIndex
<1>3. byId \in SUBSET Nat /\ byEvidence \in SUBSET Nat
  BY <1>1
<1>4. (byId # {} => First(byId) \in byId) /\ (byEvidence # {} => First(byEvidence) \in byEvidence)
  BY <1>3, FirstProperties
<1>5. \A i \in byId : i \in 1 .. n /\ ps[i].via = o.via
  OBVIOUS
<1>6. ASSUME NEW i \in byEvidence PROVE i \in 1 .. n /\ ps[i].via = o.via
  <2>. DEFINE x == ps[i]
  <2>1. i \in 1 .. n /\ PrinterOK(x)
    BY <1>1
  <2>2. \/ Range(IdentityKeys(x.fp)) \cap Range(IdentityKeys(o.fp)) # {}
        \/ x.providers \cap o.providers # {}
    OBVIOUS
  <2>. HIDE DEF x
  <2>3. x.fp \in Fingerprint /\ o.fp \in Fingerprint /\ Evidence(x) /\ Evidence(o)
        /\ x.via \in Vias /\ o.via \in Vias
    BY <2>1 DEF ObservationOK, Observation, PrinterOK, Printer
  <2>4. x.via = o.via
    BY <2>2, <2>3, SharedEvidence
  <2>. QED
    BY <2>1, <2>4 DEF x
<1>7. byId = {} => id \notin IdsOf(ps)
  BY DEF IdsOf
<1>. HIDE DEF byId, byEvidence, m
<1>8. CASE byId # {}
  BY <1>1, <1>2, <1>4, <1>5, <1>8 DEF m, n
<1>9. CASE byId = {} /\ byEvidence # {}
  BY <1>1, <1>2, <1>4, <1>6, <1>7, <1>9 DEF m, n
<1>10. CASE byId = {} /\ byEvidence = {}
  BY <1>1, <1>2, <1>7, <1>10 DEF m, n
<1>. QED
  BY <1>8, <1>9, <1>10

LEMMA NewPrinterOK ==
  ASSUME NEW o, ObservationOK(o)
  PROVE  LET p == NewPrinter(DiscoveredPrinterId(o), o)
         IN  PrinterOK(p) /\ p.id = DiscoveredPrinterId(o) /\ p.via = o.via
<1>. DEFINE id == DiscoveredPrinterId(o)
            p == NewPrinter(id, o)
<1>1. id \in Ids /\ id[1] = IF o.via = "queue" THEN "uri" ELSE "made"
  BY DiscoveredIdProperties
<1>. HIDE DEF id
<1>2. o \in Observation /\ Evidence(o)
  BY DEF ObservationOK
<1>3. /\ p \in Printer /\ p.id = id /\ p.via = o.via /\ p.fp = o.fp /\ p.providers = o.providers
      /\ p.mode = IF o.via = "queue" THEN "driver" ELSE "raw"
      /\ p.profile = IF o.via = "virtual" THEN "receipt" ELSE "none"
  BY <1>1, <1>2 DEF NewPrinter, Printer, Observation
<1>. HIDE DEF p
<1>4. Evidence(p)
  BY <1>2, <1>3 DEF Evidence
<1>5. ValidReference(Reference(p))
  BY <1>3 DEF ValidReference, Reference
<1>6. PrinterOK(p)
  BY <1>1, <1>3, <1>4, <1>5 DEF PrinterOK
<1>. QED
  BY <1>3, <1>6 DEF p, id

\* What a scan leaves alone in a printer it observed.
SameChoices(p, q) ==
  p.id = q.id /\ p.via = q.via /\ p.enabled = q.enabled /\ p.mode = q.mode /\ p.profile = q.profile

LEMMA UpdatedPrinterOK ==
  ASSUME NEW p, NEW o, PrinterOK(p), ObservationOK(o), p.via = o.via
  PROVE  PrinterOK(Updated(p, o)) /\ SameChoices(p, Updated(p, o))
<1>. DEFINE f == MergeMissing(o.fp, p.fp)
            q1 == [p EXCEPT !.via = o.via, !.addr = o.addr, !.online = o.online]
            q2 == [q1 EXCEPT !.fp = f, !.providers = o.providers]
            q == Updated(p, o)
<1>1. /\ p \in Printer /\ o \in Observation /\ o.fp \in Fingerprint /\ p.fp \in Fingerprint
      /\ o.via \in Vias /\ o.addr \in Names /\ o.online \in BOOLEAN /\ o.providers \in SUBSET Sources
  BY DEF PrinterOK, ObservationOK, Observation, Printer
<1>2. /\ f \in Fingerprint
      /\ f.uri = "none" <=> o.fp.uri = "none" /\ p.fp.uri = "none"
      /\ f.host = "none" <=> o.fp.host = "none" /\ p.fp.host = "none"
      /\ f.queue = 0 <=> o.fp.queue = 0 /\ p.fp.queue = 0
  BY <1>1, Zenon DEF Fingerprint, MergeMissing
<1>. HIDE DEF f
<1>3. /\ q1 \in Printer /\ SameChoices(p, q1) /\ q1.fp = p.fp
  BY <1>1 DEF Printer, SameChoices
<1>4. q = q2
  BY <1>1 DEF Printer, Updated, f
<1>. HIDE DEF q1
<1>5. /\ q2 \in Printer /\ SameChoices(p, q2) /\ q2.fp = f /\ q2.providers = o.providers
      /\ q2.via = o.via
  BY <1>1, <1>2, <1>3 DEF Printer, SameChoices
<1>. HIDE DEF q2, q
<1>6. Evidence(q2)
  BY <1>2, <1>5 DEF PrinterOK, ObservationOK, Evidence
<1>7. ValidReference(Reference(q2))
  BY <1>5 DEF PrinterOK, SameChoices, ValidReference, Reference
<1>8. PrinterOK(q2)
  BY <1>5, <1>6, <1>7 DEF PrinterOK, SameChoices
<1>. QED
  BY <1>4, <1>5, <1>8 DEF q

\* What reconciliation makes of a list: printers keep their places and the user's
\* choices, and a printer that is added comes from an observation.
Grown(r, ps, observations) ==
  /\ PrintersOK(r) /\ UniqueIds(r) /\ Len(ps) <= Len(r)
  /\ \A i \in 1 .. Len(ps) : SameChoices(ps[i], r[i])
  /\ \A i \in 1 .. Len(r) : i \in 1 .. Len(ps) \/
       \E j \in 1 .. Len(observations) :
         r[i].id = DiscoveredPrinterId(observations[j]) /\ r[i].via = observations[j].via

\* An identifier has one kind in the list and in the observations.
Consistent(ps, observations) ==
  \A j \in 1 .. Len(observations) :
    /\ \A i \in 1 .. Len(ps) :
         ps[i].id = DiscoveredPrinterId(observations[j]) => ps[i].via = observations[j].via
    /\ \A k \in 1 .. Len(observations) :
         DiscoveredPrinterId(observations[k]) = DiscoveredPrinterId(observations[j])
           => observations[k].via = observations[j].via

LEMMA ReconcileOK ==
  ASSUME NEW ps, NEW r, NEW observations, NEW o, PrintersOK(ps),
         Grown(r, ps, observations), Consistent(ps, observations), ObservationOK(o),
         \E j \in 1 .. Len(observations) : observations[j] = o
  PROVE  Grown(Reconcile(r, o), ps, observations)
<1>. DEFINE id == DiscoveredPrinterId(o)
            n == Len(r)
            m == MatchingPrinterIndex(r, id, o)
<1>1. /\ r \in Seq(Printer) /\ n \in Nat /\ Len(ps) \in Nat /\ PrintersOK(r) /\ UniqueIds(r)
      /\ \A i \in 1 .. n : PrinterOK(r[i])
      /\ Len(ps) <= n
  BY LenProperties DEF Grown, PrintersOK
<1>2. \A i \in 1 .. n : r[i].id = id => r[i].via = o.via
  <2>1. PICK j \in 1 .. Len(observations) : observations[j] = o
    OBVIOUS
  <2>. SUFFICES ASSUME NEW i \in 1 .. n, r[i].id = id PROVE r[i].via = o.via
    OBVIOUS
  <2>2. CASE i \in 1 .. Len(ps)
    BY <2>1, <2>2 DEF Grown, Consistent, SameChoices
  <2>3. CASE i \notin 1 .. Len(ps)
    BY <2>1, <2>3 DEF Grown, Consistent
  <2>. QED
    BY <2>2, <2>3
<1>3. /\ m \in 0 .. n
      /\ m = 0 => id \notin IdsOf(r)
      /\ m # 0 => r[m].via = o.via
  BY <1>1, <1>2, MatchProperties
<1>4. /\ \A i \in 1 .. Len(ps) : SameChoices(ps[i], r[i])
      /\ \A i \in 1 .. n : i \in 1 .. Len(ps) \/
           \E j \in 1 .. Len(observations) :
             r[i].id = DiscoveredPrinterId(observations[j]) /\ r[i].via = observations[j].via
  BY DEF Grown
<1>5. CASE m = 0
  <2>. DEFINE p == NewPrinter(id, o)
              a == Append(r, p)
  <2>1. Reconcile(r, o) = a
    BY <1>5 DEF Reconcile
  <2>2. PrinterOK(p) /\ p \in Printer /\ p.id = id /\ p.via = o.via
    BY NewPrinterOK DEF PrinterOK
  <2>. HIDE DEF p
  <2>3. a \in Seq(Printer) /\ Len(a) = n + 1 /\ a[n + 1] = p /\ \A i \in 1 .. n : a[i] = r[i]
    BY <1>1, <2>2, AppendProperties
  <2>4. \A i \in 1 .. n + 1 : i \in 1 .. n \/ i = n + 1
    BY <1>1
  <2>5. \A i \in 1 .. n : r[i].id # id
    BY <1>3, <1>5 DEF IdsOf
  <2>6. \E j \in 1 .. Len(observations) :
          p.id = DiscoveredPrinterId(observations[j]) /\ p.via = observations[j].via
    BY <2>2
  <2>7. \A i \in 1 .. Len(ps) : i \in 1 .. n
    BY <1>1
  <2>. HIDE DEF a, n, id, m
  <2>8. PrintersOK(a)
    BY <1>1, <2>2, <2>3, <2>4 DEF PrintersOK
  <2>9. UniqueIds(a)
    <3>1. \A i, j \in 1 .. n : r[i].id = r[j].id => i = j
      BY <1>1 DEF UniqueIds, n
    <3>. QED
      BY <2>2, <2>3, <2>4, <2>5, <3>1 DEF UniqueIds
  <2>10. \A i \in 1 .. Len(ps) : SameChoices(ps[i], a[i])
    BY <1>4, <2>3, <2>7
  <2>11. \A i \in 1 .. n + 1 : i \in 1 .. Len(ps) \/
           \E j \in 1 .. Len(observations) :
             a[i].id = DiscoveredPrinterId(observations[j]) /\ a[i].via = observations[j].via
    BY <1>4, <2>3, <2>4, <2>6
  <2>12. Len(ps) <= Len(a)
    BY <1>1, <2>3
  <2>. QED
    BY <2>1, <2>3, <2>8, <2>9, <2>10, <2>11, <2>12 DEF Grown
<1>6. CASE m # 0
  <2>. DEFINE p == r[m]
              q == Updated(p, o)
              a == [r EXCEPT ![m] = q]
  <2>1. Reconcile(r, o) = a
    BY <1>6 DEF Reconcile
  <2>2. m \in 1 .. n
    BY <1>1, <1>3, <1>6
  <2>3. PrinterOK(p) /\ p.via = o.via
    BY <1>1, <1>3, <1>6, <2>2
  <2>. HIDE DEF p
  <2>4. PrinterOK(q) /\ SameChoices(p, q)
    BY <2>3, UpdatedPrinterOK
  <2>. HIDE DEF q
  <2>5. q \in Printer
    BY <2>4 DEF PrinterOK
  <2>. HIDE DEF m
  <2>6. a \in Seq(Printer) /\ Len(a) = n /\ \A i \in 1 .. n : a[i] = IF i = m THEN q ELSE r[i]
    BY <1>1, <2>2, <2>5, ExceptSeq
  <2>7. \A i \in 1 .. n : SameChoices(r[i], a[i])
    BY <2>4, <2>6 DEF SameChoices, p
  <2>8. \A i \in 1 .. Len(ps) : i \in 1 .. n
    BY <1>1
  <2>. HIDE DEF a, n, id
  <2>9. PrintersOK(a)
    BY <1>1, <2>4, <2>6 DEF PrintersOK
  <2>10. UniqueIds(a)
    <3>1. \A i, j \in 1 .. n : r[i].id = r[j].id => i = j
      BY <1>1 DEF UniqueIds, n
    <3>. QED
      BY <2>6, <2>7, <3>1 DEF UniqueIds, SameChoices
  <2>11. \A i \in 1 .. Len(ps) : SameChoices(ps[i], a[i])
    BY <1>4, <2>7, <2>8 DEF SameChoices
  <2>12. \A i \in 1 .. n : i \in 1 .. Len(ps) \/
           \E j \in 1 .. Len(observations) :
             a[i].id = DiscoveredPrinterId(observations[j]) /\ a[i].via = observations[j].via
    BY <1>4, <2>7 DEF SameChoices
  <2>. QED
    BY <1>1, <2>1, <2>6, <2>9, <2>10, <2>11, <2>12 DEF Grown
<1>. QED
  BY <1>5, <1>6

\* The recursion of ReconcileAll, up to the n-th observation.
ReconcileRun(u, ps, s, n) ==
  u = [i \in 0 .. n |-> IF i = 0 THEN ps ELSE Reconcile(u[i - 1], s[i])]

LEMMA ReconcileRunExists ==
  ASSUME NEW ps, NEW s, NEW n \in Nat PROVE \E u : ReconcileRun(u, ps, s, n)
<1>. DEFINE T == {k \in Nat : \E u : ReconcileRun(u, ps, s, k)}
<1>1. 0 \in T
  <2>. DEFINE u == [i \in 0 .. 0 |-> ps]
  <2>1. ReconcileRun(u, ps, s, 0)
    BY DEF ReconcileRun
  <2>. QED
    BY <2>1
<1>2. ASSUME NEW k \in T PROVE k + 1 \in T
  <2>1. PICK u : ReconcileRun(u, ps, s, k)
    OBVIOUS
  <2>2. \A i \in 0 .. k : u[i] = IF i = 0 THEN ps ELSE Reconcile(u[i - 1], s[i])
    BY <2>1 DEF ReconcileRun
  <2>. DEFINE last == Reconcile(u[k], s[k + 1])
              v == [i \in 0 .. k + 1 |-> IF i = k + 1 THEN last ELSE u[i]]
  <2>3. \A i \in 0 .. k + 1 : v[i] = IF i = 0 THEN ps ELSE Reconcile(v[i - 1], s[i])
    BY <2>2
  <2>4. ReconcileRun(v, ps, s, k + 1)
    BY <2>3 DEF ReconcileRun
  <2>. QED
    BY <2>4
<1>. HIDE DEF T
<1>3. T \in SUBSET Nat
  BY DEF T
<1>4. T = Nat
  BY <1>1, <1>2, <1>3, EveryNatural
<1>. QED
  BY <1>4 DEF T

LEMMA ReconcileAllOK ==
  ASSUME NEW ps, NEW s, PrintersOK(ps), UniqueIds(ps), ObservationsOK(s), Consistent(ps, s)
  PROVE  Grown(ReconcileAll(ps, s), ps, s)
<1>. DEFINE N == Len(s)
            u == CHOOSE w : w = [i \in 0 .. N |-> IF i = 0 THEN ps ELSE Reconcile(w[i - 1], s[i])]
<1>1. N \in Nat /\ \A i \in 1 .. N : ObservationOK(s[i])
  BY LenProperties DEF ObservationsOK
<1>2. \E w : w = [i \in 0 .. N |-> IF i = 0 THEN ps ELSE Reconcile(w[i - 1], s[i])]
  <2>1. \E w : ReconcileRun(w, ps, s, N)
    BY <1>1, ReconcileRunExists
  <2>. QED
    BY <2>1 DEF ReconcileRun
<1>3. u = [i \in 0 .. N |-> IF i = 0 THEN ps ELSE Reconcile(u[i - 1], s[i])]
  BY <1>2
<1>4. ReconcileAll(ps, s) = u[N]
  BY DEF ReconcileAll
<1>. HIDE DEF u
<1>5. \A i \in 0 .. N : u[i] = IF i = 0 THEN ps ELSE Reconcile(u[i - 1], s[i])
  BY <1>1, <1>3
<1>. HIDE DEF N
<1>. DEFINE T == {n \in Nat : n <= N => Grown(u[n], ps, s)}
<1>6. 0 \in T
  <2>1. u[0] = ps
    BY <1>1, <1>5
  <2>2. Len(ps) \in Nat
    BY LenProperties DEF PrintersOK
  <2>3. Grown(ps, ps, s)
    BY <2>2 DEF Grown, SameChoices
  <2>. QED
    BY <2>1, <2>3
<1>7. ASSUME NEW n \in T PROVE n + 1 \in T
  <2>. SUFFICES ASSUME n + 1 <= N PROVE Grown(u[n + 1], ps, s)
    OBVIOUS
  <2>1. /\ n \in Nat /\ n + 1 \in 0 .. N /\ n + 1 # 0 /\ n + 1 \in 1 .. N /\ (n + 1) - 1 = n
        /\ Grown(u[n], ps, s)
    BY <1>1
  <2>2. u[n + 1] = Reconcile(u[n], s[n + 1])
    BY <1>5, <2>1
  <2>. DEFINE o == s[n + 1]
  <2>3. ObservationOK(o) /\ \E j \in 1 .. Len(s) : s[j] = o
    BY <1>1, <2>1 DEF N
  <2>. HIDE DEF o
  <2>4. Grown(Reconcile(u[n], o), ps, s)
    BY <2>1, <2>3, ReconcileOK
  <2>. QED
    BY <2>2, <2>4 DEF o
<1>8. T \in SUBSET Nat
  OBVIOUS
<1>. HIDE DEF T
<1>9. N \in T
  BY <1>1, <1>6, <1>7, <1>8, EveryNatural
<1>. QED
  BY <1>1, <1>4, <1>9 DEF T

\* The second half of refresh.  It grows the catalog of the moment by what was observed,
\* and adds nothing under a suppressed identifier.
LEMMA ApplyObservationsOK ==
  ASSUME NEW c, NEW s, CatalogOK(c), ObservationsOK(s), Consistent(c.printers, s)
  PROVE  LET a == ApplyObservations(c, s)
         IN  /\ CatalogOK(a) /\ a.suppressed = c.suppressed
             /\ Grown(a.printers, c.printers, s)
<1>. DEFINE ps == c.printers
            n == Len(ps)
            faded == [i \in DOMAIN ps |-> [ps[i] EXCEPT !.online = @ /\ ps[i].via # "queue"]]
            wanted == {i \in DOMAIN s : DiscoveredPrinterId(s[i]) \notin c.suppressed}
            k == Kept(s, wanted)
            r == ReconcileAll(faded, k)
            a == ApplyObservations(c, s)
<1>1. /\ c \in [printers : Seq(Printer), suppressed : SUBSET Ids]
      /\ ps \in Seq(Printer) /\ n \in Nat /\ DOMAIN ps = 1 .. n
      /\ \A i \in 1 .. n : PrinterOK(ps[i]) /\ ps[i] \in Printer
      /\ UniqueIds(ps)
      /\ \A id \in c.suppressed : id[1] = "uri" /\ id \notin IdsOf(ps)
  BY LenProperties DEF CatalogOK, PrintersOK, PrinterOK
<1>2. a = [c EXCEPT !.printers = r]
  BY DEF ApplyObservations
<1>. HIDE DEF ps
<1>3. \A i \in 1 .. n : /\ faded[i] \in Printer /\ SameChoices(ps[i], faded[i])
                        /\ faded[i].fp = ps[i].fp /\ faded[i].providers = ps[i].providers
  <2>. SUFFICES ASSUME NEW i \in 1 .. n
                PROVE  /\ faded[i] \in Printer /\ SameChoices(ps[i], faded[i])
                       /\ faded[i].fp = ps[i].fp /\ faded[i].providers = ps[i].providers
    OBVIOUS
  <2>. DEFINE p == ps[i]
              b == p.online /\ p.via # "queue"
  <2>1. faded[i] = [p EXCEPT !.online = b]
    BY <1>1
  <2>2. p \in Printer /\ b \in BOOLEAN
    BY <1>1
  <2>. HIDE DEF p, b
  <2>. DEFINE q == [p EXCEPT !.online = b]
  <2>3. q \in Printer /\ SameChoices(p, q) /\ q.fp = p.fp /\ q.providers = p.providers
    BY <2>2 DEF Printer, SameChoices
  <2>. HIDE DEF q
  <2>. QED
    BY <2>1, <2>3 DEF p, q
<1>4. faded \in Seq(Printer) /\ Len(faded) = n
  <2>1. faded \in [1 .. n -> Printer]
    BY <1>1, <1>3
  <2>. HIDE DEF faded, n
  <2>. QED
    BY <1>1, <2>1
<1>. HIDE DEF faded
<1>5. \A i \in 1 .. n : PrinterOK(faded[i])
  <2>. SUFFICES ASSUME NEW i \in 1 .. n PROVE PrinterOK(faded[i])
    OBVIOUS
  <2>. DEFINE p == ps[i]
              q == faded[i]
  <2>1. PrinterOK(p) /\ q \in Printer /\ SameChoices(p, q) /\ q.fp = p.fp
        /\ q.providers = p.providers
    BY <1>1, <1>3
  <2>. HIDE DEF p, q
  <2>2. PrinterOK(q)
    BY <2>1 DEF PrinterOK, SameChoices, Evidence, ValidReference, Reference
  <2>. QED
    BY <2>2 DEF q
<1>6. PrintersOK(faded) /\ UniqueIds(faded)
  BY <1>1, <1>3, <1>4, <1>5 DEF PrintersOK, UniqueIds, SameChoices
<1>7. s \in Seq(Observation) /\ DOMAIN s = 1 .. Len(s) /\ Len(s) \in Nat
      /\ \A j \in 1 .. Len(s) : ObservationOK(s[j])
  BY LenProperties DEF ObservationsOK
<1>8. k \in Seq(Observation) /\ \A j \in 1 .. Len(k) : \E b \in 1 .. Len(s) : b \in wanted /\ k[j] = s[b]
  <2>. HIDE DEF wanted
  <2>. QED
    BY <1>7, KeptProperties DEF Filtered
<1>. HIDE DEF k
<1>9. ObservationsOK(k)
  BY <1>7, <1>8 DEF ObservationsOK
<1>10. Consistent(faded, k)
  <2>1. \A j \in 1 .. Len(k) : \E b \in 1 .. Len(s) : k[j] = s[b]
    BY <1>8
  <2>2. Consistent(ps, s)
    BY DEF ps
  <2>3. \A i \in 1 .. n : faded[i].id = ps[i].id /\ faded[i].via = ps[i].via
    BY <1>3 DEF SameChoices
  <2>. HIDE DEF n
  <2>4. /\ \A j \in 1 .. Len(s) : \A i \in 1 .. n :
             ps[i].id = DiscoveredPrinterId(s[j]) => ps[i].via = s[j].via
        /\ \A j \in 1 .. Len(s), i \in 1 .. Len(s) :
             DiscoveredPrinterId(s[i]) = DiscoveredPrinterId(s[j]) => s[i].via = s[j].via
    BY <2>2 DEF Consistent, n
  <2>5. \A j \in 1 .. Len(k) : \A i \in 1 .. n :
             faded[i].id = DiscoveredPrinterId(k[j]) => faded[i].via = k[j].via
    BY <2>1, <2>3, <2>4
  <2>6. \A j \in 1 .. Len(k), i \in 1 .. Len(k) :
             DiscoveredPrinterId(k[i]) = DiscoveredPrinterId(k[j]) => k[i].via = k[j].via
    BY <2>1, <2>4
  <2>. QED
    BY <1>4, <2>5, <2>6 DEF Consistent
<1>11. Grown(r, faded, k)
  BY <1>6, <1>9, <1>10, ReconcileAllOK
<1>. HIDE DEF r
<1>12. /\ PrintersOK(r) /\ UniqueIds(r) /\ n <= Len(r)
       /\ \A i \in 1 .. n : SameChoices(faded[i], r[i])
       /\ \A i \in 1 .. Len(r) : i \in 1 .. n \/
            \E j \in 1 .. Len(k) : r[i].id = DiscoveredPrinterId(k[j]) /\ r[i].via = k[j].via
  BY <1>4, <1>11 DEF Grown
<1>13. \A i \in 1 .. n : SameChoices(ps[i], r[i])
  BY <1>3, <1>12 DEF SameChoices
<1>14. \A i \in 1 .. Len(r) : i \in 1 .. n \/
          \E j \in 1 .. Len(s) : /\ r[i].id = DiscoveredPrinterId(s[j]) /\ r[i].via = s[j].via
                                 /\ r[i].id \notin c.suppressed
  BY <1>8, <1>12
<1>15. Grown(r, ps, s)
  BY <1>12, <1>13, <1>14 DEF Grown, n
<1>16. \A id \in c.suppressed : id \notin IdsOf(r)
  <2>1. \A i \in 1 .. n : ps[i].id \notin c.suppressed
    BY <1>1 DEF IdsOf, n
  <2>2. \A i \in 1 .. Len(r) : r[i].id \notin c.suppressed
    BY <1>13, <1>14, <2>1 DEF SameChoices
  <2>. QED
    BY <2>2 DEF IdsOf
<1>17. a \in [printers : Seq(Printer), suppressed : SUBSET Ids] /\ a.printers = r
       /\ a.suppressed = c.suppressed
  BY <1>1, <1>2, <1>12 DEF PrintersOK
<1>. HIDE DEF a
<1>18. CatalogOK(a)
  BY <1>1, <1>12, <1>16, <1>17 DEF CatalogOK
<1>. QED
  BY <1>15, <1>17, <1>18 DEF a, ps

-----------------------------------------------------------------------------
(* What the providers of a scan report.                                    *)

\* An observation is in order, and has its identifier from the snapshot or has none.
ObservedFrom(o, snapshot) ==
  /\ ObservationOK(o)
  /\ o.via # "queue" => \E p \in Range(snapshot) : p.id = o.id /\ p.via = o.via

LEMMA NoFingerprintType == NoFingerprint \in Fingerprint /\ "none" \in Names /\ "host" \in Names
BY DEF NoFingerprint, Fingerprint, Names

LEMMA QueueObservationOK ==
  ASSUME NEW q \in Queues, NEW uri \in Uris \cup {"none"}
  PROVE  /\ QueueObservation(q, uri) \in Observation
         /\ QueueObservation(q, uri).via = "queue"
         /\ uri # "none" => ObservationOK(QueueObservation(q, uri))
<1>. DEFINE f == [NoFingerprint EXCEPT !.uri = uri, !.queue = q]
            n == ToString(q)
            src == <<"system-queue", n>>
            o == QueueObservation(q, uri)
<1>1. f \in Fingerprint /\ f.uri = uri /\ f.host = "none"
  BY NoFingerprintType DEF NoFingerprint, Fingerprint
<1>2. n \in Names
  BY DEF Names
<1>. HIDE DEF n
<1>3. src \in Sources /\ src[1] = "system-queue"
  BY <1>2 DEF Sources
<1>4. o = [id |-> NoId, via |-> "queue", addr |-> n, online |-> TRUE, fp |-> f, providers |-> {src}]
  BY DEF QueueObservation, n
<1>. HIDE DEF f, src, o
<1>5. /\ o \in Observation /\ o.via = "queue" /\ o.id = NoId /\ o.fp = f /\ o.providers = {src}
  BY <1>1, <1>2, <1>3, <1>4 DEF Observation, Vias
<1>6. uri # "none" => ObservationOK(o)
  BY <1>1, <1>3, <1>5 DEF ObservationOK, Evidence, Source
<1>. QED
  BY <1>5, <1>6 DEF o

LEMMA IdParts == \A id \in Ids : id[2] \in Names
BY DEF Ids

LEMMA ManualObservationOK ==
  ASSUME NEW p, PrinterOK(p), p.via = "network", NEW b \in BOOLEAN
  PROVE  /\ ObservationOK(ManualObservation(p, b))
         /\ ManualObservation(p, b).id = p.id /\ ManualObservation(p, b).via = p.via
<1>. DEFINE f == FingerprintForConnection("network", p.addr)
            src == <<"manual-network", p.id[2]>>
            o == ManualObservation(p, b)
<1>1. p.id \in Ids /\ p.id[1] = "made" /\ p.addr \in Names /\ p.id[2] \in Names
  BY IdParts DEF PrinterOK, Printer
<1>2. f \in Fingerprint /\ f.uri = "none" /\ f.queue = 0
  BY <1>1, NoFingerprintType DEF FingerprintForConnection, NoFingerprint, Fingerprint
<1>3. src \in Sources /\ src[1] = "manual-network"
  BY <1>1 DEF Sources
<1>4. o = [id |-> p.id, via |-> "network", addr |-> p.addr, online |-> b, fp |-> f,
           providers |-> {src}]
  BY DEF ManualObservation
<1>. HIDE DEF f, src, o
<1>5. /\ o \in Observation /\ o.via = "network" /\ o.id = p.id /\ o.fp = f /\ o.providers = {src}
  BY <1>1, <1>2, <1>3, <1>4 DEF Observation, Vias
<1>6. ObservationOK(o)
  BY <1>1, <1>2, <1>3, <1>5 DEF ObservationOK, Evidence, Source
<1>. QED
  BY <1>5, <1>6 DEF o

LEMMA VirtualObservationOK ==
  ASSUME NEW p, PrinterOK(p), p.via = "virtual"
  PROVE  /\ ObservationOK(VirtualObservation(p))
         /\ VirtualObservation(p).id = p.id /\ VirtualObservation(p).via = p.via
<1>. DEFINE src == <<"virtual", p.id[2]>>
            b == ~p.offline
            o == VirtualObservation(p)
<1>1. /\ p.id \in Ids /\ p.id[1] = "made" /\ p.addr \in Names /\ p.id[2] \in Names
      /\ b \in BOOLEAN
  BY IdParts DEF PrinterOK, Printer
<1>2. NoFingerprint \in Fingerprint /\ NoFingerprint.uri = "none" /\ NoFingerprint.queue = 0
      /\ NoFingerprint.host = "none"
  BY NoFingerprintType DEF NoFingerprint
<1>3. src \in Sources /\ src[1] = "virtual"
  BY <1>1 DEF Sources
<1>4. o = [id |-> p.id, via |-> "virtual", addr |-> p.addr, online |-> b, fp |-> NoFingerprint,
           providers |-> {src}]
  BY DEF VirtualObservation
<1>. HIDE DEF src, o, b
<1>5. /\ o \in Observation /\ o.via = "virtual" /\ o.id = p.id /\ o.fp = NoFingerprint
      /\ o.providers = {src}
  BY <1>1, <1>2, <1>3, <1>4 DEF Observation, Vias
<1>6. ObservationOK(o)
  BY <1>1, <1>2, <1>3, <1>5 DEF ObservationOK, Evidence, Source
<1>. QED
  BY <1>5, <1>6 DEF o

LEMMA ObservationsProperties ==
  ASSUME NEW snapshot, PrintersOK(snapshot), world.uri \in [Queues -> Uris \cup {"none"}],
         NEW queried \in BOOLEAN, NEW reachable \in BOOLEAN
  PROVE  LET s == Observations(snapshot, queried, reachable)
         IN  ObservationsOK(s) /\ \A j \in 1 .. Len(s) : ObservedFrom(s[j], snapshot)
<1>. DEFINE all == [q \in Queues |-> QueueObservation(q, world.uri[q])]
            visible == {q \in Queues : world.uri[q] # "none"}
            System == Kept(all, visible)
            Provided(via) == Kept(snapshot, {i \in DOMAIN snapshot : snapshot[i].via = via})
            Manual == Provided("network")
            Virtual == Provided("virtual")
            e == << >>
            a == IF queried /\ "queue" \in Features THEN System ELSE e
            b == IF "network" \in Features
                 THEN [i \in DOMAIN Manual |-> ManualObservation(Manual[i], reachable)] ELSE e
            c == IF "virtual" \in Features
                 THEN [i \in DOMAIN Virtual |-> VirtualObservation(Virtual[i])] ELSE e
            s == Observations(snapshot, queried, reachable)
            Good(t) == t \in Seq(Observation) /\ \A o \in Range(t) : ObservedFrom(o, snapshot)
<1>1. s = (a \o b) \o c
  BY DEF Observations
<1>2. /\ snapshot \in Seq(Printer) /\ Len(snapshot) \in Nat /\ DOMAIN snapshot = 1 .. Len(snapshot)
      /\ Range(snapshot) = {snapshot[i] : i \in 1 .. Len(snapshot)}
      /\ \A i \in 1 .. Len(snapshot) : PrinterOK(snapshot[i])
  BY ElementsOfSeq DEF PrintersOK
<1>3. Good(e)
  BY DEF Range
<1>4. Good(System)
  <2>1. \A q \in Queues : all[q] \in Observation /\ all[q].via = "queue"
                          /\ (q \in visible => ObservationOK(all[q]))
    BY QueueObservationOK
  <2>2. all \in Seq(Observation) /\ Len(all) = QueueCount
    <3>1. all \in [1 .. QueueCount -> Observation] /\ QueueCount \in Nat
      BY <2>1, InventoryAssumption DEF Queues
    <3>. HIDE DEF all
    <3>. QED
      BY <3>1
  <2>. HIDE DEF all, visible
  <2>3. /\ System \in Seq(Observation)
        /\ \A j \in 1 .. Len(System) : \E q \in 1 .. Len(all) : q \in visible /\ System[j] = all[q]
    BY <2>2, KeptProperties DEF Filtered
  <2>. HIDE DEF System
  <2>4. Range(System) = {System[j] : j \in 1 .. Len(System)}
    BY <2>3, ElementsOfSeq
  <2>5. \A j \in 1 .. Len(System) : ObservedFrom(System[j], snapshot)
    BY <2>1, <2>2, <2>3 DEF ObservedFrom, Queues
  <2>. QED
    BY <2>3, <2>4, <2>5
<1>5. ASSUME NEW via
      PROVE  /\ Provided(via) \in Seq(Printer)
             /\ \A j \in 1 .. Len(Provided(via)) :
                  /\ Provided(via)[j] \in Range(snapshot) /\ Provided(via)[j].via = via
                  /\ PrinterOK(Provided(via)[j])
  <2>. DEFINE keep == {i \in DOMAIN snapshot : snapshot[i].via = via}
              k == Kept(snapshot, keep)
  <2>1. \A i \in keep : i \in 1 .. Len(snapshot) /\ snapshot[i].via = via
    BY <1>2
  <2>. HIDE DEF keep
  <2>2. /\ k \in Seq(Printer)
        /\ \A j \in 1 .. Len(k) : \E i \in 1 .. Len(snapshot) : i \in keep /\ k[j] = snapshot[i]
    BY <1>2, KeptProperties DEF Filtered
  <2>. HIDE DEF k
  <2>3. \A j \in 1 .. Len(k) : k[j] \in Range(snapshot) /\ k[j].via = via /\ PrinterOK(k[j])
    BY <1>2, <2>1, <2>2
  <2>. QED
    BY <2>2, <2>3 DEF k, keep
<1>6. /\ Manual \in Seq(Printer)
      /\ \A j \in 1 .. Len(Manual) : /\ Manual[j] \in Range(snapshot) /\ Manual[j].via = "network"
                                     /\ PrinterOK(Manual[j])
  BY <1>5
<1>7. /\ Virtual \in Seq(Printer)
      /\ \A j \in 1 .. Len(Virtual) : /\ Virtual[j] \in Range(snapshot) /\ Virtual[j].via = "virtual"
                                      /\ PrinterOK(Virtual[j])
  BY <1>5
<1>. HIDE DEF System, Manual, Virtual
<1>8. Good([i \in DOMAIN Manual |-> ManualObservation(Manual[i], reachable)])
  <2>. DEFINE t == [i \in DOMAIN Manual |-> ManualObservation(Manual[i], reachable)]
              n == Len(Manual)
  <2>1. n \in Nat /\ DOMAIN Manual = 1 .. n
    BY <1>6, LenProperties
  <2>2. \A i \in 1 .. n : /\ ObservationOK(t[i]) /\ t[i] \in Observation
                          /\ t[i].id = Manual[i].id /\ t[i].via = Manual[i].via
    BY <1>6, <2>1, ManualObservationOK DEF ObservationOK
  <2>3. t \in Seq(Observation) /\ Len(t) = n
    <3>1. t \in [1 .. n -> Observation]
      BY <2>1, <2>2
    <3>. HIDE DEF t, n
    <3>. QED
      BY <2>1, <3>1
  <2>. HIDE DEF t
  <2>4. Range(t) = {t[i] : i \in 1 .. n}
    BY <2>3, ElementsOfSeq
  <2>5. \A i \in 1 .. n : ObservedFrom(t[i], snapshot)
    BY <1>6, <2>2 DEF ObservedFrom
  <2>6. Good(t)
    BY <2>3, <2>4, <2>5
  <2>. QED
    BY <2>6 DEF t
<1>9. Good([i \in DOMAIN Virtual |-> VirtualObservation(Virtual[i])])
  <2>. DEFINE t == [i \in DOMAIN Virtual |-> VirtualObservation(Virtual[i])]
              n == Len(Virtual)
  <2>1. n \in Nat /\ DOMAIN Virtual = 1 .. n
    BY <1>7, LenProperties
  <2>2. \A i \in 1 .. n : /\ ObservationOK(t[i]) /\ t[i] \in Observation
                          /\ t[i].id = Virtual[i].id /\ t[i].via = Virtual[i].via
    BY <1>7, <2>1, VirtualObservationOK DEF ObservationOK
  <2>3. t \in Seq(Observation) /\ Len(t) = n
    <3>1. t \in [1 .. n -> Observation]
      BY <2>1, <2>2
    <3>. HIDE DEF t, n
    <3>. QED
      BY <2>1, <3>1
  <2>. HIDE DEF t
  <2>4. Range(t) = {t[i] : i \in 1 .. n}
    BY <2>3, ElementsOfSeq
  <2>5. \A i \in 1 .. n : ObservedFrom(t[i], snapshot)
    BY <1>7, <2>2 DEF ObservedFrom
  <2>6. Good(t)
    BY <2>3, <2>4, <2>5
  <2>. QED
    BY <2>6 DEF t
<1>10. Good(a) /\ Good(b) /\ Good(c)
  BY <1>3, <1>4, <1>8, <1>9
<1>. HIDE DEF a, b, c
<1>11. Good(a \o b)
  BY <1>10, ConcatRange
<1>12. Good((a \o b) \o c)
  <2>. DEFINE d == a \o b
  <2>1. Good(d)
    BY <1>11
  <2>. HIDE DEF d
  <2>2. Good(d \o c)
    BY <1>10, <2>1, ConcatRange
  <2>. QED
    BY <2>2 DEF d
<1>13. Good(s)
  BY <1>1, <1>12
<1>. HIDE DEF s
<1>14. Range(s) = {s[j] : j \in 1 .. Len(s)}
  BY <1>13, ElementsOfSeq
<1>. QED
  BY <1>13, <1>14 DEF ObservationsOK, ObservedFrom, s

-----------------------------------------------------------------------------
(* The progress of a command.                                              *)

LEMMA RestsType ==
  ASSUME NEW op \in Ops, NEW rest \in Rests(op)
  PROVE  rest \in {<<"resolve">>, <<"register", "resolve">>, <<"register">>, <<"resolve", "forget">>}
BY DEF Rests, Ops

LEMMA Prefixed ==
  ASSUME NEW S, NEW a \in S, NEW t \in Seq(S)
  PROVE  LET plan == <<a>> \o t
         IN  plan \in Seq(S) /\ plan # <<>> /\ Head(plan) = a /\ Tail(plan) = t
<1>. DEFINE one == <<a>>
            plan == one \o t
            n == Len(t)
<1>1. one \in Seq(S) /\ Len(one) = 1 /\ one[1] = a /\ n \in Nat
  BY LenProperties
<1>. HIDE DEF one
<1>2. /\ plan \in Seq(S) /\ Len(plan) = n + 1 /\ plan[1] = a
      /\ \A i \in 1 .. n : plan[i + 1] = t[i]
  <2>1. /\ plan \in Seq(S) /\ Len(plan) = Len(one) + Len(t)
        /\ \A i \in 1 .. Len(one) + Len(t) :
             plan[i] = IF i <= Len(one) THEN one[i] ELSE t[i - Len(one)]
    BY <1>1, ConcatProperties
  <2>. HIDE DEF plan
  <2>. QED
    BY <1>1, <2>1
<1>. HIDE DEF plan
<1>3. plan # <<>>
  BY <1>1, <1>2
<1>4. Head(plan) = a
  BY <1>2, <1>3
<1>5. /\ Tail(plan) \in Seq(S) /\ Len(Tail(plan)) = n
      /\ \A i \in 1 .. n : Tail(plan)[i] = plan[i + 1]
  BY <1>1, <1>2, <1>3, HeadTailProperties
<1>6. Tail(plan) = t
  BY <1>2, <1>5, SeqEqual
<1>. QED
  BY <1>2, <1>3, <1>4, <1>6 DEF plan, one

LEMMA ShortSequences ==
  ASSUME NEW S, NEW a \in S, NEW b \in S
  PROVE  /\ <<a>> \in Seq(S) /\ <<b>> \in Seq(S) /\ <<a, b>> \in Seq(S)
         /\ <<a, b>> = <<a>> \o <<b>>
<1>1. <<a>> \in Seq(S) /\ <<b>> \in Seq(S) /\ <<a, b>> \in Seq(S)
  OBVIOUS
<1>. DEFINE p == <<a>>
            q == <<b>>
            r == <<a, b>>
            c == p \o q
<1>2. Len(p) = 1 /\ Len(q) = 1 /\ Len(r) = 2 /\ p[1] = a /\ q[1] = b /\ r[1] = a /\ r[2] = b
      /\ p \in Seq(S) /\ q \in Seq(S) /\ r \in Seq(S)
  BY <1>1
<1>. HIDE DEF p, q, r
<1>3. /\ c \in Seq(S) /\ Len(c) = Len(p) + Len(q)
      /\ \A i \in 1 .. Len(p) + Len(q) : c[i] = IF i <= Len(p) THEN p[i] ELSE q[i - Len(p)]
  BY <1>2, ConcatProperties
<1>. HIDE DEF c
<1>4. Len(c) = 2 /\ c[1] = a /\ c[2] = b
  BY <1>2, <1>3
<1>5. \A i \in 1 .. 2 : i = 1 \/ i = 2
  OBVIOUS
<1>6. r = c
  BY <1>2, <1>3, <1>4, <1>5, SeqEqual
<1>. QED
  BY <1>1, <1>6 DEF c, p, q, r

LEMMA PlanSteps ==
  ASSUME NEW rest, rest \in {<<"resolve">>, <<"register", "resolve">>, <<"register">>,
                             <<"resolve", "forget">>}
  PROVE  /\ LET plan == <<"persist", "publish">> \o rest
            IN  /\ plan \in Seq(Awaits) /\ plan # <<>> /\ Head(plan) = "persist"
                /\ Tail(plan) = <<"publish">> \o rest
         /\ LET plan == <<"publish">> \o rest
            IN  plan \in Seq(Awaits) /\ plan # <<>> /\ Head(plan) = "publish" /\ Tail(plan) = rest
<1>. DEFINE a == "persist"
            b == "publish"
            late == <<b>> \o rest
<1>0. a \in Awaits /\ b \in Awaits
  BY DEF Awaits
<1>1. rest \in Seq(Awaits)
  <2>1. {"register", "resolve", "forget"} \subseteq Awaits
    BY DEF Awaits
  <2>. QED
    BY <2>1, ShortSequences
<1>. HIDE DEF a, b
<1>2. <<a, b>> = <<a>> \o <<b>> /\ <<a>> \in Seq(Awaits) /\ <<b>> \in Seq(Awaits)
  BY <1>0, ShortSequences
<1>3. <<a, b>> \o rest = <<a>> \o late
  BY <1>0, <1>1, <1>2, ConcatAssociative
<1>4. late \in Seq(Awaits) /\ late # <<>> /\ Head(late) = b /\ Tail(late) = rest
  BY <1>0, <1>1, Prefixed
<1>. HIDE DEF late
<1>5. /\ <<a>> \o late \in Seq(Awaits) /\ <<a>> \o late # <<>>
      /\ Head(<<a>> \o late) = a /\ Tail(<<a>> \o late) = late
  BY <1>0, <1>4, Prefixed
<1>. QED
  BY <1>3, <1>4, <1>5 DEF a, b, late

\* What the next await of a command is, and what is left after it.
LEMMA PhaseSteps ==
  ASSUME mutation.op \in Ops \cup {"none"}
  PROVE  /\ mutation = Free => mutation.op = "none" /\ mutation.todo = <<>>
         /\ Storing => /\ mutation.op \in Ops /\ mutation.todo # <<>> /\ Step = "persist"
                       /\ \E rest \in Rests(mutation.op) : Tail(mutation.todo) = <<"publish">> \o rest
         /\ Publishing => /\ mutation.op \in Ops /\ mutation.todo # <<>> /\ Step = "publish"
                          /\ Tail(mutation.todo) \in Rests(mutation.op)
         /\ Resolving => /\ mutation.op \in Ops /\ mutation.todo # <<>>
                         /\ Step \in {"resolve", "register"}
         /\ Registering => mutation.op \in Ops /\ mutation.todo # <<>> /\ Step = "register"
         /\ Forgetting => mutation.op \in Ops /\ mutation.todo # <<>> /\ Step = "forget"
<1>1. mutation = Free => mutation.op = "none" /\ mutation.todo = <<>>
  BY DEF Free
<1>2. Rests("none") = {}
  BY DEF Rests
<1>3. ASSUME Storing
      PROVE  /\ mutation.op \in Ops /\ mutation.todo # <<>> /\ Step = "persist"
             /\ \E rest \in Rests(mutation.op) : Tail(mutation.todo) = <<"publish">> \o rest
  <2>1. mutation.op \in Ops
    BY <1>2, <1>3 DEF Storing
  <2>2. PICK rest \in Rests(mutation.op) : mutation.todo = <<"persist", "publish">> \o rest
    BY <1>3 DEF Storing
  <2>. QED
    BY <2>1, <2>2, RestsType, PlanSteps DEF Step
<1>4. ASSUME Publishing
      PROVE  /\ mutation.op \in Ops /\ mutation.todo # <<>> /\ Step = "publish"
             /\ Tail(mutation.todo) \in Rests(mutation.op)
  <2>1. mutation.op \in Ops
    BY <1>2, <1>4 DEF Publishing
  <2>2. PICK rest \in Rests(mutation.op) : mutation.todo = <<"publish">> \o rest
    BY <1>4 DEF Publishing
  <2>. QED
    BY <2>1, <2>2, RestsType, PlanSteps DEF Step
<1>5. ASSUME Resolving
      PROVE  mutation.op \in Ops /\ mutation.todo # <<>> /\ Step \in {"resolve", "register"}
  BY <1>5 DEF Resolving, Step, Ops
<1>6. ASSUME Registering PROVE mutation.op \in Ops /\ mutation.todo # <<>> /\ Step = "register"
  BY <1>6 DEF Registering, Step, Ops
<1>7. ASSUME Forgetting PROVE mutation.op \in Ops /\ mutation.todo # <<>> /\ Step = "forget"
  BY <1>7 DEF Forgetting, Step, Ops
<1>. QED
  BY <1>1, <1>3, <1>4, <1>5, <1>6, <1>7

\* What the invariant says of the copies when the next await is the given one.
LEMMA WhenFree ==
  ASSUME Typed, Copies, mutation = Free
  PROVE  disk = state /\ resolver = Refs /\ mutation.op = "none" /\ ~Published
<1>1. mutation.op = "none"
  BY DEF Free
<1>2. mutation.op \in Ops \cup {"none"} /\ "none" \notin Ops
  BY <1>1 DEF Ops
<1>. QED
  BY <1>1, <1>2, PhaseSteps DEF Copies, Published

LEMMA WhenStoring ==
  ASSUME Typed, Copies, mutation.todo # <<>>, Step = "persist"
  PROVE  /\ mutation # Free /\ mutation.op \in Ops /\ ~Published
         /\ mutation.op = "remove" => mutation.id \in world.removed
         /\ Storing /\ disk = state /\ resolver = Refs /\ Prepared
         /\ \E rest \in Rests(mutation.op) : Tail(mutation.todo) = <<"publish">> \o rest
<1>1. mutation.op \in Ops \cup {"none"}
  BY DEF Typed, MutationType
<1>. QED
  BY <1>1, PhaseSteps DEF Copies, Published

LEMMA WhenPublishing ==
  ASSUME Typed, Copies, mutation.todo # <<>>, Step = "publish"
  PROVE  /\ mutation # Free /\ mutation.op \in Ops /\ ~Published
         /\ mutation.op = "remove" => mutation.id \in world.removed
         /\ Publishing /\ disk = mutation.next /\ resolver = Refs /\ Prepared
         /\ Tail(mutation.todo) \in Rests(mutation.op)
<1>1. mutation.op \in Ops \cup {"none"}
  BY DEF Typed, MutationType
<1>. QED
  BY <1>1, PhaseSteps DEF Copies, Published

LEMMA WhenPublished ==
  ASSUME Typed, Copies, mutation.todo # <<>>, Step \in {"register", "resolve", "forget"}
  PROVE  /\ mutation # Free /\ mutation.op \in Ops /\ Published /\ ~Storing /\ ~Publishing
         /\ mutation.op = "remove" => mutation.id \in world.removed
         /\ disk = state /\ mutation.next = state
<1>1. mutation.op \in Ops \cup {"none"}
  BY DEF Typed, MutationType
<1>. QED
  BY <1>1, PhaseSteps DEF Copies, Published

\* Where a step that tells the session nothing new leaves the server.
LEMMA ToldKept ==
  ASSUME Told, UNCHANGED <<state, revision, link>>, world.removed \subseteq world'.removed,
         Published => Published'
  PROVE  Told'
<1>1. Descriptors' = Descriptors
  BY DEF Descriptors, Active
<1>. QED
  BY <1>1 DEF Told

\* Fewer copies, and more identifiers used up, do no harm.
LEMMA IdentifiedKept ==
  ASSUME Identified, Seen' \subseteq Seen, world.used \subseteq world'.used
  PROVE  Identified'
BY DEF Identified

LEMMA IdsOfRange ==
  ASSUME NEW ps \in Seq(Printer)
  PROVE  /\ IdsOf(ps) = {p.id : p \in Range(ps)}
         /\ Range(ps) = {ps[i] : i \in 1 .. Len(ps)} /\ Range(ps) \subseteq Printer
<1>1. Range(ps) = {ps[i] : i \in 1 .. Len(ps)} /\ Range(ps) \subseteq Printer
  BY ElementsOfSeq
<1>. QED
  BY <1>1 DEF IdsOf

\* Catalogs by their elements.
LEMMA CatalogElements ==
  ASSUME NEW c, CatalogOK(c)
  PROVE  /\ c.printers \in Seq(Printer) /\ c.suppressed \in SUBSET Ids
         /\ \A p \in Range(c.printers) : PrinterOK(p)
         /\ \A p, q \in Range(c.printers) : p.id = q.id => p = q
         /\ \A p \in Range(c.printers) : p.id \notin c.suppressed
         /\ IdsOf(c.printers) = {p.id : p \in Range(c.printers)}
         /\ Len(c.printers) \in Nat /\ DOMAIN c.printers = 1 .. Len(c.printers)
         /\ Range(c.printers) = {c.printers[i] : i \in 1 .. Len(c.printers)}
<1>1. c.printers \in Seq(Printer) /\ c.suppressed \in SUBSET Ids
  BY DEF CatalogOK
<1>2. /\ Range(c.printers) = {c.printers[i] : i \in 1 .. Len(c.printers)}
      /\ IdsOf(c.printers) = {p.id : p \in Range(c.printers)}
      /\ Len(c.printers) \in Nat /\ DOMAIN c.printers = 1 .. Len(c.printers)
  BY <1>1, IdsOfRange, ElementsOfSeq
<1>. QED
  BY <1>1, <1>2 DEF CatalogOK, PrintersOK, UniqueIds

-----------------------------------------------------------------------------
(* Commands: what they prepare under the mutation lock.                    *)

\* The kinds and the names of the printers a command prepares are known, or new.
IdentifiedPrinters(printers, used) ==
  /\ \A p \in Range(printers) : \A q \in Seen : q.id = p.id => q.via = p.via
  /\ \A p \in Range(printers) : p.id[1] = "made" => p.id[2] \in used \cup {"old"}

ScansReset ==
  \/ scans' = scans
  \/ \E s \in Scans : scans' = [scans EXCEPT ![s] = [running |-> FALSE, printers |-> <<>>]]

LEMMA ScansResetOK ==
  ASSUME Typed, ScansReset
  PROVE  /\ scans' \in [Scans -> [running : BOOLEAN, printers : Seq(Printer)]]
         /\ \A s \in Scans : PrintersOK(scans'[s].printers)
         /\ \A s \in Scans : Range(scans'[s].printers) \subseteq Range(scans[s].printers)
<1>1. CASE scans' = scans
  BY <1>1 DEF Typed
<1>2. ASSUME NEW s \in Scans, scans' = [scans EXCEPT ![s] = [running |-> FALSE, printers |-> <<>>]]
      PROVE  /\ scans' \in [Scans -> [running : BOOLEAN, printers : Seq(Printer)]]
             /\ \A t \in Scans : PrintersOK(scans'[t].printers)
             /\ \A t \in Scans : Range(scans'[t].printers) \subseteq Range(scans[t].printers)
  <2>. DEFINE e == << >>
              r == [running |-> FALSE, printers |-> e]
  <2>1. e \in Seq(Printer) /\ Len(e) = 0 /\ Range(e) = {}
    BY DEF Range
  <2>2. scans' = [scans EXCEPT ![s] = r]
    BY <1>2
  <2>. HIDE DEF e
  <2>3. r \in [running : BOOLEAN, printers : Seq(Printer)] /\ r.printers = e
    BY <2>1
  <2>. HIDE DEF r
  <2>4. /\ scans \in [Scans -> [running : BOOLEAN, printers : Seq(Printer)]]
        /\ \A t \in Scans : PrintersOK(scans[t].printers)
    BY DEF Typed
  <2>5. /\ scans' \in [Scans -> [running : BOOLEAN, printers : Seq(Printer)]]
        /\ \A t \in Scans : scans'[t] = IF t = s THEN r ELSE scans[t]
    BY <2>2, <2>3, <2>4
  <2>6. PrintersOK(e)
    BY <2>1 DEF PrintersOK
  <2>. QED
    BY <2>1, <2>3, <2>4, <2>5, <2>6
<1>. QED
  BY <1>1, <1>2 DEF ScansReset

LEMMA BeginStep ==
  ASSUME Invariant, NEW op \in Ops, NEW id \in Ids \cup {NoId}, NEW printers, NEW suppressed,
         NEW rest \in Rests(op), Begin(op, id, printers, suppressed, rest),
         CatalogOK([printers |-> printers, suppressed |-> suppressed]),
         IdentifiedPrinters(printers, world'.used),
         PreparedBy(op, id, printers),
         \A p \in Range(printers) : Expected(p, Bringing(op, id)),
         op = "remove" => id \in world'.removed,
         world' \in WorldType, world.removed \subseteq world'.removed,
         world.used \subseteq world'.used,
         ScansReset
  PROVE  Invariant'
<1>. DEFINE c == [printers |-> printers, suppressed |-> suppressed]
            plan == <<"persist", "publish">> \o rest
            m == [op |-> op, id |-> id, todo |-> plan, next |-> c]
<1>0. Typed /\ Identified /\ Copies /\ Listed /\ Told
  BY DEF Invariant
<1>1. /\ mutation = Free /\ UNCHANGED <<state, disk, resolver, spoolers, revision, link>>
      /\ mutation' = m
  BY DEF Begin
<1>2. disk = state /\ resolver = Refs /\ mutation.op = "none" /\ ~Published
  BY <1>0, <1>1, WhenFree
<1>3. plan \in Seq(Awaits) /\ plan # <<>> /\ Head(plan) = "persist"
  BY RestsType, PlanSteps
<1>4. CatalogOK(c) /\ c.printers = printers
  OBVIOUS
<1>5. c \in [printers : Seq(Printer), suppressed : SUBSET Ids]
  BY <1>4 DEF CatalogOK
<1>. HIDE DEF c
<1>6. plan = <<"persist", "publish">> \o rest
  OBVIOUS
<1>. HIDE DEF plan
<1>7. /\ m \in MutationType /\ m.op = op /\ m.id = id /\ m.todo = plan /\ m.next = c
  BY <1>3, <1>5 DEF MutationType
<1>. HIDE DEF m
<1>8. mutation'.op = op /\ mutation'.id = id /\ mutation'.todo = plan /\ mutation'.next = c
  BY <1>1, <1>7
<1>9. Typed'
  BY <1>0, <1>1, <1>4, <1>7, ScansResetOK DEF Typed
<1>10. Storing'
  BY <1>6, <1>8 DEF Storing
<1>11. ~Published'
  <2>1. plan \notin {<<"resolve">>, <<"register", "resolve">>, <<"resolve", "forget">>,
                     <<"register">>, <<"forget">>}
    BY <1>3
  <2>. QED
    BY <1>8, <2>1 DEF Published, Resolving, Registering, Forgetting
<1>12. Identified'
  <2>1. \A p \in Seen' : p \in Seen \/ p \in Range(printers)
    <3>1. Seen' = Range(state.printers) \cup Range(disk.printers) \cup Range(printers)
                    \cup UNION {Range(scans'[s].printers) : s \in Scans}
      BY <1>1, <1>4, <1>8 DEF Seen
    <3>2. \A s \in Scans : Range(scans'[s].printers) \subseteq Range(scans[s].printers)
      BY <1>0, ScansResetOK
    <3>. QED
      BY <3>1, <3>2 DEF Seen
  <2>2. \A p, q \in Range(printers) : p.id = q.id => p = q
    BY <1>4, CatalogElements
  <2>. QED
    BY <1>0, <2>1, <2>2 DEF Identified, IdentifiedPrinters
<1>13. Copies'
  <2>1. Refs' = Refs
    BY <1>1 DEF Refs, Active
  <2>2. Prepared'
    BY <1>1, <1>4, <1>8 DEF Prepared, PreparedBy, Active
  <2>3. mutation'.op # "none"
    BY <1>8 DEF Ops
  <2>. QED
    BY <1>1, <1>2, <1>8, <1>10, <2>1, <2>2, <2>3 DEF Copies
<1>14. Listed'
  <2>1. plan # <<"resolve">>
    BY <1>3
  <2>2. Coming' = Bringing(op, id)
    BY <1>8, <2>1 DEF Coming, Bringing
  <2>. DEFINE new == Bringing(op, id)
  <2>3. \A p \in Range(printers) :
          p.via = "virtual" /\ "virtual" \in Features => p.id \in spoolers \cup world'.removed \cup new
    BY DEF Expected
  <2>4. \A p \in Range(state.printers) \cup UNION {Range(scans[s].printers) : s \in Scans} :
          p.via = "virtual" /\ "virtual" \in Features => p.id \in spoolers \cup world'.removed
    BY <1>0, <1>2 DEF Listed, Expected
  <2>5. \A p \in UNION {Range(scans'[s].printers) : s \in Scans} :
           p \in UNION {Range(scans[s].printers) : s \in Scans}
    BY <1>0, ScansResetOK
  <2>6. \A p \in Range(state'.printers) \cup UNION {Range(scans'[s].printers) : s \in Scans} :
          p.via = "virtual" /\ "virtual" \in Features => p.id \in spoolers \cup world'.removed
    BY <1>1, <2>4, <2>5
  <2>. HIDE DEF new
  <2>7. \A p \in Range(mutation'.next.printers) :
          p.via = "virtual" /\ "virtual" \in Features => p.id \in spoolers \cup world'.removed \cup new
    BY <1>4, <1>8, <2>3
  <2>8. Coming' = new
    BY <2>2 DEF new
  <2>. QED
    BY <1>1, <1>11, <2>6, <2>7, <2>8 DEF Listed, Expected
<1>15. Told'
  BY <1>0, <1>1, <1>2, ToldKept
<1>. QED
  BY <1>9, <1>12, <1>13, <1>14, <1>15 DEF Invariant

\* Replacing one printer of the catalog by another of the same identifier and kind.
LEMMA ReplaceStep ==
  ASSUME Typed, Identified, NEW i \in 1 .. Len(state.printers), NEW q, PrinterOK(q),
         q.id = state.printers[i].id, q.via = state.printers[i].via
  PROVE  LET ps == [state.printers EXCEPT ![i] = q]
         IN  /\ CatalogOK([printers |-> ps, suppressed |-> state.suppressed])
             /\ IdentifiedPrinters(ps, world.used)
             /\ q \in Range(ps)
             /\ \A p \in Range(ps) : p = q \/ (p \in Range(state.printers) /\ p.id # q.id)
             /\ \A p \in Range(state.printers) : p.id # q.id => p \in Range(ps)
<1>. DEFINE old == state.printers
            ps == [old EXCEPT ![i] = q]
            c == [printers |-> ps, suppressed |-> state.suppressed]
            n == Len(old)
<1>0. CatalogOK(state)
  BY DEF Typed
<1>1. /\ old \in Seq(Printer) /\ n \in Nat /\ PrintersOK(old) /\ UniqueIds(old)
      /\ Range(old) = {old[j] : j \in 1 .. n}
      /\ state.suppressed \in SUBSET Ids
      /\ \A id \in state.suppressed : id[1] = "uri" /\ id \notin IdsOf(old)
      /\ \A j \in 1 .. n : PrinterOK(old[j])
  BY <1>0, CatalogElements DEF CatalogOK, PrintersOK
<1>2. q \in Printer
  BY DEF PrinterOK
<1>3. q.id = old[i].id /\ q.via = old[i].via /\ i \in 1 .. n
  OBVIOUS
<1>. HIDE DEF old
<1>4. /\ ps \in Seq(Printer) /\ Len(ps) = n
      /\ \A j \in 1 .. n : ps[j] = IF j = i THEN q ELSE old[j]
  BY <1>1, <1>2, <1>3, ExceptSeq
<1>. HIDE DEF ps
<1>5. Range(ps) = {ps[j] : j \in 1 .. n}
  BY <1>4, ElementsOfSeq
<1>6. PrintersOK(ps)
  BY <1>1, <1>4 DEF PrintersOK
<1>7. \A j \in 1 .. n : ps[j].id = old[j].id /\ ps[j].via = old[j].via
  BY <1>3, <1>4
<1>8. UniqueIds(ps)
  BY <1>1, <1>4, <1>7 DEF UniqueIds
<1>9. IdsOf(ps) = IdsOf(old)
  BY <1>4, <1>7 DEF IdsOf
<1>10. CatalogOK(c)
  BY <1>1, <1>4, <1>6, <1>8, <1>9 DEF CatalogOK
<1>11. IdentifiedPrinters(ps, world.used)
  <2>1. \A j \in 1 .. n : old[j] \in Seen
    BY <1>1 DEF Seen, old
  <2>2. \A p \in Range(ps) : \E r \in Seen : r.id = p.id /\ r.via = p.via
    BY <1>5, <1>7, <2>1
  <2>. QED
    BY <2>2 DEF Identified, IdentifiedPrinters
<1>12. \A j \in 1 .. n : j # i => old[j].id # q.id
  BY <1>1, <1>3 DEF UniqueIds
<1>13. \A p \in Range(ps) : p = q \/ (p \in Range(old) /\ p.id # q.id)
  BY <1>1, <1>4, <1>5, <1>12
<1>14. \A p \in Range(old) : p.id # q.id => p \in Range(ps)
  BY <1>1, <1>3, <1>4, <1>5
<1>15. q \in Range(ps)
  BY <1>3, <1>4, <1>5
<1>. QED
  BY <1>10, <1>11, <1>13, <1>14, <1>15 DEF ps, old

\* Adding a printer under an identifier that was never used.
LEMMA AddStep ==
  ASSUME Typed, Identified, NEW x \in Fresh, x \notin world.used, NEW q, PrinterOK(q),
         q.id = Made(x), NEW used, used = world.used \cup {x}
  PROVE  LET ps == Append(state.printers, q)
         IN  /\ CatalogOK([printers |-> ps, suppressed |-> state.suppressed])
             /\ IdentifiedPrinters(ps, used)
             /\ \A p \in Range(ps) : p = q \/ (p \in Range(state.printers) /\ p.id # q.id)
             /\ \A p \in Range(state.printers) : p \in Range(ps)
<1>. DEFINE old == state.printers
            ps == Append(old, q)
            c == [printers |-> ps, suppressed |-> state.suppressed]
            n == Len(old)
<1>0. CatalogOK(state)
  BY DEF Typed
<1>1. /\ old \in Seq(Printer) /\ n \in Nat /\ PrintersOK(old) /\ UniqueIds(old)
      /\ Range(old) = {old[j] : j \in 1 .. n}
      /\ state.suppressed \in SUBSET Ids
      /\ \A id \in state.suppressed : id[1] = "uri" /\ id \notin IdsOf(old)
      /\ \A j \in 1 .. n : PrinterOK(old[j])
  BY <1>0, CatalogElements DEF CatalogOK, PrintersOK
<1>2. q \in Printer /\ q.id[1] = "made" /\ q.id[2] = x
  BY DEF PrinterOK, Made
<1>3. x \notin world.used \cup {"old"}
  BY InventoryAssumption
<1>4. \A p \in Seen : p.id # q.id
  BY <1>2, <1>3 DEF Identified
<1>5. Range(old) \subseteq Seen
  BY DEF Seen
<1>. HIDE DEF old
<1>6. /\ ps \in Seq(Printer) /\ Len(ps) = n + 1 /\ ps[n + 1] = q
      /\ \A j \in 1 .. n : ps[j] = old[j]
  BY <1>1, <1>2, AppendProperties
<1>. HIDE DEF ps
<1>7. \A j \in 1 .. n + 1 : j \in 1 .. n \/ j = n + 1
  BY <1>1
<1>8. Range(ps) = {ps[j] : j \in 1 .. n + 1}
  BY <1>6, ElementsOfSeq
<1>9. \A p \in Range(ps) : p = q \/ (p \in Range(old) /\ p.id # q.id)
  BY <1>1, <1>4, <1>5, <1>6, <1>7, <1>8
<1>10. \A p \in Range(old) : p \in Range(ps)
  <2>1. \A j \in 1 .. n : j \in 1 .. n + 1
    BY <1>1
  <2>. QED
    BY <1>1, <1>6, <1>8, <2>1
<1>. DEFINE k == n + 1
<1>11. Len(ps) = k /\ ps[k] = q /\ \A j \in 1 .. k : j \in 1 .. n \/ j = k
  BY <1>6, <1>7
<1>. HIDE DEF k, n
<1>12. PrintersOK(ps)
  BY <1>1, <1>6, <1>11 DEF PrintersOK
<1>13. \A j \in 1 .. n : old[j].id # q.id
  BY <1>1, <1>4, <1>5
<1>14. UniqueIds(ps)
  BY <1>1, <1>6, <1>11, <1>13 DEF UniqueIds, n
<1>15. \A id \in state.suppressed : id \notin IdsOf(ps)
  <2>1. \A id \in state.suppressed : id # q.id
    BY <1>1, <1>2
  <2>2. \A j \in 1 .. n : old[j].id \in IdsOf(old)
    BY DEF IdsOf, n
  <2>3. \A id \in state.suppressed : \A j \in 1 .. k : ps[j].id # id
    BY <1>1, <1>6, <1>11, <2>1, <2>2
  <2>. QED
    BY <1>11, <2>3 DEF IdsOf
<1>16. CatalogOK(c)
  BY <1>1, <1>6, <1>12, <1>14, <1>15 DEF CatalogOK
<1>17. IdentifiedPrinters(ps, used)
  BY <1>2, <1>4, <1>5, <1>9 DEF Identified, IdentifiedPrinters
<1>. QED
  BY <1>9, <1>10, <1>16, <1>17 DEF ps, old

LEMMA KnownPosition ==
  ASSUME Typed, NEW id \in Known
  PROVE  /\ PositionOf(id) \in 1 .. Len(state.printers)
         /\ state.printers[PositionOf(id)].id = id
         /\ PrinterOK(state.printers[PositionOf(id)])
         /\ state.printers[PositionOf(id)] \in Range(state.printers)
         /\ id \in Ids
<1>1. CatalogOK(state)
  BY DEF Typed
<1>2. /\ Range(state.printers) = {state.printers[i] : i \in 1 .. Len(state.printers)}
      /\ \A p \in Range(state.printers) : PrinterOK(p)
  BY <1>1, CatalogElements
<1>3. \E i \in 1 .. Len(state.printers) : state.printers[i].id = id
  BY <1>2 DEF Known
<1>4. PositionOf(id) \in 1 .. Len(state.printers) /\ state.printers[PositionOf(id)].id = id
  BY <1>3 DEF PositionOf
<1>. DEFINE p == state.printers[PositionOf(id)]
<1>5. p \in Range(state.printers) /\ PrinterOK(p) /\ p.id = id
  BY <1>2, <1>4
<1>. HIDE DEF p
<1>6. id \in Ids
  BY <1>5 DEF PrinterOK, Printer
<1>. QED
  BY <1>4, <1>5, <1>6 DEF p

\* What is known of the printers in the catalog while no command runs.
LEMMA QuietCatalog ==
  ASSUME Invariant, mutation = Free
  PROVE  /\ \A p \in Range(state.printers) : PrinterOK(p) /\ Expected(p, {})
         /\ \A p, q \in Range(state.printers) : p.id = q.id => p = q
         /\ Range(state.printers) \subseteq Seen
         /\ world \in WorldType
<1>1. CatalogOK(state) /\ ~Published
  BY WhenFree DEF Invariant, Typed
<1>2. /\ \A p \in Range(state.printers) : PrinterOK(p)
      /\ \A p, q \in Range(state.printers) : p.id = q.id => p = q
  BY <1>1, CatalogElements
<1>3. \A p \in Range(state.printers) : Expected(p, {})
  BY <1>1 DEF Invariant, Listed
<1>. QED
  BY <1>2, <1>3 DEF Seen, Invariant, Typed

LEMMA CommandedType ==
  ASSUME world \in WorldType
  PROVE  /\ Commanded \in WorldType /\ Commanded.removed = world.removed
         /\ Commanded.used = world.used
         /\ Changed \in WorldType /\ Changed.removed = world.removed /\ Changed.used = world.used
BY DEF Commanded, Changed, WorldType

LEMMA ConfigureStep ==
  ASSUME Invariant, NEW id \in Known, NEW enabled \in BOOLEAN, NEW mode \in {"raw", "driver"},
         Configure(id, enabled, mode)
  PROVE  Invariant'
<1>. DEFINE i == PositionOf(id)
            p == state.printers[i]
            q == [p EXCEPT !.enabled = enabled, !.mode = mode]
            ps == [state.printers EXCEPT ![i] = q]
<1>0. Typed /\ Identified /\ mutation = Free
  BY DEF Invariant, Configure, Begin
<1>1. /\ IsActive(p) /\ (mode # p.mode => p.via = "queue")
      /\ Begin("configure", id,
               [state.printers EXCEPT ![i] = [@ EXCEPT !.enabled = enabled, !.mode = mode]],
               state.suppressed, <<"resolve">>)
      /\ world' = Commanded /\ scans' = scans
  BY DEF Configure
<1>2. /\ i \in 1 .. Len(state.printers) /\ p.id = id /\ PrinterOK(p) /\ p \in Range(state.printers)
      /\ id \in Ids
  BY <1>0, KnownPosition
<1>3. Begin("configure", id, ps, state.suppressed, <<"resolve">>)
  BY <1>1
<1>. HIDE DEF i, p
<1>4. PrinterOK(q) /\ q.id = id /\ q.via = p.via
  <2>1. /\ q \in Printer /\ q.id = p.id /\ q.via = p.via /\ q.fp = p.fp /\ q.providers = p.providers
        /\ q.profile = p.profile /\ q.mode = mode
    BY <1>2 DEF PrinterOK, Printer
  <2>. HIDE DEF q
  <2>2. ValidReference(Reference(q))
    BY <1>1, <1>2, <2>1 DEF PrinterOK, ValidReference, Reference, Printer
  <2>. QED
    BY <1>2, <2>1, <2>2 DEF PrinterOK, Evidence
<1>5. IsActive(q)
  BY <1>1, <1>4 DEF IsActive
<1>. HIDE DEF q
<1>6. p = state.printers[i]
  BY DEF p
<1>7. /\ CatalogOK([printers |-> ps, suppressed |-> state.suppressed])
      /\ IdentifiedPrinters(ps, world.used)
      /\ \A r \in Range(ps) : r = q \/ (r \in Range(state.printers) /\ r.id # q.id)
      /\ \A r \in Range(state.printers) : r.id # q.id => r \in Range(ps)
  BY <1>0, <1>2, <1>4, <1>6, ReplaceStep
<1>. HIDE DEF ps
<1>8. PreparedBy("configure", id, ps)
  BY <1>4, <1>5, <1>7 DEF PreparedBy
<1>9. /\ \A r \in Range(state.printers) : Expected(r, {})
      /\ world \in WorldType
  BY <1>0, QuietCatalog
<1>10. \A r \in Range(ps) : Expected(r, Bringing("configure", id))
  BY <1>2, <1>4, <1>7, <1>9 DEF Expected, Bringing
<1>11. <<"resolve">> \in Rests("configure") /\ "configure" \in Ops
  BY DEF Rests, Ops
<1>12. world' \in WorldType /\ world'.removed = world.removed /\ world'.used = world.used
  BY <1>1, <1>9, CommandedType
<1>13. ScansReset
  BY <1>1 DEF ScansReset
<1>14. "configure" # "remove"
  OBVIOUS
<1>. QED
  BY <1>2, <1>3, <1>7, <1>8, <1>10, <1>11, <1>12, <1>13, <1>14, BeginStep

LEMMA AddManualStep ==
  ASSUME Invariant, NEW x \in Fresh, AddManual(x)
  PROVE  Invariant'
<1>. DEFINE id == Made(x)
            f == FingerprintForConnection("network", "host")
            src == <<"manual-network", x>>
            q == [id |-> id, via |-> "network", addr |-> "host", fp |-> f,
                  providers |-> {src}, enabled |-> TRUE, mode |-> "raw",
                  online |-> FALSE, offline |-> FALSE, profile |-> "none"]
            ps == Append(state.printers, q)
<1>0. Typed /\ Identified /\ mutation = Free
  BY DEF Invariant, AddManual, Begin
<1>1. /\ x \notin world.used /\ "network" \in Features
      /\ Begin("add", id, ps, state.suppressed, <<"resolve">>)
      /\ world' = [Commanded EXCEPT !.used = @ \cup {x}] /\ scans' = scans
  BY DEF AddManual, Unused
<1>2. x \in Names /\ "host" \in Names
  BY DEF Names
<1>3. id \in Ids /\ id[1] = "made"
  BY <1>2 DEF Made, Ids
<1>4. f \in Fingerprint /\ f.uri = "none" /\ f.queue = 0
  BY NoFingerprintType DEF FingerprintForConnection, NoFingerprint, Fingerprint
<1>5. src \in Sources /\ src[1] = "manual-network"
  BY <1>2 DEF Sources
<1>. HIDE DEF id, f, src
<1>6. /\ q \in Printer /\ q.id = id /\ q.via = "network" /\ q.fp = f /\ q.providers = {src}
      /\ q.mode = "raw" /\ q.profile = "none"
  BY <1>2, <1>3, <1>4, <1>5 DEF Printer, Vias
<1>. HIDE DEF q
<1>7. PrinterOK(q)
  BY <1>3, <1>4, <1>5, <1>6 DEF PrinterOK, Evidence, Source, ValidReference, Reference
<1>8. /\ world \in WorldType
      /\ \A r \in Range(state.printers) : Expected(r, {})
  BY <1>0, QuietCatalog
<1>9. /\ world' \in WorldType /\ world'.removed = world.removed
      /\ world'.used = world.used \cup {x}
  <2>. DEFINE w == Commanded
  <2>1. w \in WorldType /\ w.removed = world.removed /\ w.used = world.used
    BY <1>8, CommandedType
  <2>2. world' = [w EXCEPT !.used = @ \cup {x}]
    BY <1>1
  <2>. HIDE DEF w
  <2>. QED
    BY <2>1, <2>2 DEF WorldType
<1>10. /\ CatalogOK([printers |-> ps, suppressed |-> state.suppressed])
       /\ IdentifiedPrinters(ps, world'.used)
       /\ \A p \in Range(ps) : p = q \/ (p \in Range(state.printers) /\ p.id # q.id)
       /\ \A p \in Range(state.printers) : p \in Range(ps)
  BY <1>0, <1>1, <1>6, <1>7, <1>9, AddStep DEF id
<1>. HIDE DEF ps
<1>11. \A p, r \in Range(state.printers) : p.id = r.id => p = r
  BY <1>0, QuietCatalog
<1>12. PreparedBy("add", id, ps)
  <2>1. \A p \in Range(state.printers) : p.id # q.id
    <3>1. \A p \in Seen : p.id # q.id
      <4>1. id = <<"made", x>> /\ x \notin world.used \cup {"old"}
        BY <1>1, InventoryAssumption DEF id, Made
      <4>. QED
        BY <1>0, <1>3, <1>6, <4>1 DEF Identified
    <3>. QED
      BY <3>1 DEF Seen
  <2>. QED
    BY <1>1, <1>6, <1>10, <1>11, <2>1 DEF PreparedBy, IsActive
<1>13. \A p \in Range(ps) : Expected(p, Bringing("add", id))
  BY <1>6, <1>8, <1>10 DEF Expected, Bringing
<1>14. <<"resolve">> \in Rests("add") /\ "add" \in Ops /\ "add" # "remove"
  BY DEF Rests, Ops
<1>15. ScansReset
  BY <1>1 DEF ScansReset
<1>. QED
  BY <1>1, <1>3, <1>9, <1>10, <1>12, <1>13, <1>14, <1>15, BeginStep

LEMMA CreateVirtualStep ==
  ASSUME Invariant, NEW x \in Fresh, NEW profile \in {"receipt", "page"}, CreateVirtual(x, profile)
  PROVE  Invariant'
<1>. DEFINE id == Made(x)
            src == <<"virtual", x>>
            mode == ModeForVirtualProfile(profile)
            q == [id |-> id, via |-> "virtual", addr |-> x, fp |-> NoFingerprint,
                  providers |-> {src}, enabled |-> TRUE, profile |-> profile,
                  mode |-> mode, online |-> TRUE, offline |-> FALSE]
            ps == Append(state.printers, q)
<1>0. Typed /\ Identified /\ mutation = Free
  BY DEF Invariant, CreateVirtual, Begin
<1>1. /\ x \notin world.used /\ "virtual" \in Features
      /\ Begin("create", id, ps, state.suppressed, <<"register", "resolve">>)
      /\ world' = [Commanded EXCEPT !.used = @ \cup {x}] /\ scans' = scans
  BY DEF CreateVirtual, Unused
<1>2. x \in Names
  BY DEF Names
<1>3. id \in Ids /\ id[1] = "made"
  BY <1>2 DEF Made, Ids
<1>4. NoFingerprint \in Fingerprint /\ NoFingerprint.uri = "none" /\ NoFingerprint.queue = 0
      /\ NoFingerprint.host = "none"
  BY NoFingerprintType DEF NoFingerprint
<1>5. src \in Sources /\ src[1] = "virtual"
  BY <1>2 DEF Sources
<1>6. mode \in {"raw", "driver"} /\ mode = IF profile = "receipt" THEN "raw" ELSE "driver"
  BY DEF ModeForVirtualProfile
<1>. HIDE DEF id, src, mode
<1>7. /\ q \in Printer /\ q.id = id /\ q.via = "virtual" /\ q.fp = NoFingerprint
      /\ q.providers = {src} /\ q.mode = mode /\ q.profile = profile
  BY <1>2, <1>3, <1>4, <1>5, <1>6 DEF Printer, Vias
<1>. HIDE DEF q
<1>8. PrinterOK(q)
  <2>1. Evidence(q)
    BY <1>4, <1>5, <1>7 DEF Evidence, Source
  <2>2. ValidReference(Reference(q))
    BY <1>6, <1>7 DEF ValidReference, Reference
  <2>. QED
    BY <1>3, <1>7, <2>1, <2>2 DEF PrinterOK
<1>9. /\ world \in WorldType
      /\ \A r \in Range(state.printers) : Expected(r, {})
  BY <1>0, QuietCatalog
<1>10. /\ world' \in WorldType /\ world'.removed = world.removed
       /\ world'.used = world.used \cup {x}
  <2>. DEFINE w == Commanded
  <2>1. w \in WorldType /\ w.removed = world.removed /\ w.used = world.used
    BY <1>9, CommandedType
  <2>2. world' = [w EXCEPT !.used = @ \cup {x}]
    BY <1>1
  <2>. HIDE DEF w
  <2>. QED
    BY <2>1, <2>2 DEF WorldType
<1>11. /\ CatalogOK([printers |-> ps, suppressed |-> state.suppressed])
       /\ IdentifiedPrinters(ps, world'.used)
       /\ \A p \in Range(ps) : p = q \/ (p \in Range(state.printers) /\ p.id # q.id)
       /\ \A p \in Range(state.printers) : p \in Range(ps)
  BY <1>0, <1>1, <1>7, <1>8, <1>10, AddStep DEF id
<1>. HIDE DEF ps
<1>12. \A p, r \in Range(state.printers) : p.id = r.id => p = r
  BY <1>0, QuietCatalog
<1>13. PreparedBy("create", id, ps)
  <2>1. \A p \in Range(state.printers) : p.id # q.id
    <3>1. \A p \in Seen : p.id # q.id
      <4>1. id = <<"made", x>> /\ x \notin world.used \cup {"old"}
        BY <1>1, InventoryAssumption DEF id, Made
      <4>. QED
        BY <1>0, <1>3, <1>7, <4>1 DEF Identified
    <3>. QED
      BY <3>1 DEF Seen
  <2>. QED
    BY <1>1, <1>7, <1>11, <1>12, <2>1 DEF PreparedBy, IsActive
<1>14. \A p \in Range(ps) : Expected(p, Bringing("create", id))
  BY <1>7, <1>9, <1>11 DEF Expected, Bringing
<1>15. <<"register", "resolve">> \in Rests("create") /\ "create" \in Ops /\ "create" # "remove"
  BY DEF Rests, Ops
<1>16. ScansReset
  BY <1>1 DEF ScansReset
<1>. QED
  BY <1>1, <1>3, <1>10, <1>11, <1>13, <1>14, <1>15, <1>16, BeginStep

LEMMA UpdateVirtualStep ==
  ASSUME Invariant, NEW id \in Known, NEW offline \in BOOLEAN, UpdateVirtual(id, offline)
  PROVE  Invariant'
<1>. DEFINE i == PositionOf(id)
            p == state.printers[i]
            on == ~offline
            q == [p EXCEPT !.offline = offline, !.online = on]
            ps == [state.printers EXCEPT ![i] = q]
<1>0. Typed /\ Identified /\ mutation = Free
  BY DEF Invariant, UpdateVirtual, Begin
<1>1. /\ Begin("update", id,
               [state.printers EXCEPT ![i] = [@ EXCEPT !.offline = offline, !.online = ~offline]],
               state.suppressed, <<"register">>)
      /\ world' = Commanded /\ scans' = scans
  BY DEF UpdateVirtual
<1>2. /\ i \in 1 .. Len(state.printers) /\ p.id = id /\ PrinterOK(p) /\ p \in Range(state.printers)
      /\ id \in Ids
  BY <1>0, KnownPosition
<1>3. Begin("update", id, ps, state.suppressed, <<"register">>)
  BY <1>1
<1>. HIDE DEF i, p
<1>4. PrinterOK(q) /\ q.id = id /\ q.via = p.via /\ Reference(q) = Reference(p)
      /\ q.enabled = p.enabled /\ q.mode = p.mode /\ q.profile = p.profile
  <2>0. on \in BOOLEAN
    OBVIOUS
  <2>. HIDE DEF on
  <2>1. /\ q \in Printer /\ q.id = p.id /\ q.via = p.via /\ q.fp = p.fp /\ q.providers = p.providers
        /\ q.profile = p.profile /\ q.mode = p.mode /\ q.enabled = p.enabled /\ q.addr = p.addr
    BY <1>2, <2>0 DEF PrinterOK, Printer
  <2>. HIDE DEF q
  <2>2. Reference(q) = Reference(p)
    BY <2>1 DEF Reference
  <2>. QED
    BY <1>2, <2>1, <2>2 DEF PrinterOK, Evidence
<1>5. IsActive(q) <=> IsActive(p)
  BY <1>4 DEF IsActive
<1>. HIDE DEF q
<1>6. p = state.printers[i]
  BY DEF p
<1>7. /\ CatalogOK([printers |-> ps, suppressed |-> state.suppressed])
      /\ IdentifiedPrinters(ps, world.used)
      /\ q \in Range(ps)
      /\ \A r \in Range(ps) : r = q \/ (r \in Range(state.printers) /\ r.id # q.id)
      /\ \A r \in Range(state.printers) : r.id # q.id => r \in Range(ps)
  BY <1>0, <1>2, <1>4, <1>6, ReplaceStep
<1>. HIDE DEF ps
<1>8. /\ \A r \in Range(state.printers) : Expected(r, {})
      /\ \A r, t \in Range(state.printers) : r.id = t.id => r = t
      /\ world \in WorldType
  BY <1>0, QuietCatalog
<1>9. \A r \in Range(state.printers) : r = p \/ r \in Range(ps)
  BY <1>2, <1>4, <1>7, <1>8
<1>10. {Reference(r) : r \in Active(state)}
         = {Reference(r) : r \in {t \in Range(ps) : IsActive(t)}}
  BY <1>2, <1>4, <1>5, <1>7, <1>9 DEF Active
<1>11. PreparedBy("update", id, ps)
  <2>1. \A r \in Range(state.printers), t \in Range(ps) : r.id = t.id =>
           <<r.enabled, r.mode, r.profile>> = <<t.enabled, t.mode, t.profile>>
    BY <1>2, <1>4, <1>7, <1>8
  <2>. QED
    BY <1>4, <1>7, <1>10, <2>1 DEF PreparedBy
<1>12. \A r \in Range(ps) : Expected(r, Bringing("update", id))
  BY <1>2, <1>4, <1>7, <1>8 DEF Expected, Bringing
<1>13. <<"register">> \in Rests("update") /\ "update" \in Ops /\ "update" # "remove"
  BY DEF Rests, Ops
<1>14. world' \in WorldType /\ world'.removed = world.removed /\ world'.used = world.used
  BY <1>1, <1>8, CommandedType
<1>15. ScansReset
  BY <1>1 DEF ScansReset
<1>. QED
  BY <1>2, <1>3, <1>7, <1>11, <1>12, <1>13, <1>14, <1>15, BeginStep

LEMMA RemovalAwaits ==
  ASSUME NEW b \in BOOLEAN
  PROVE  <<"resolve">> \o (IF b THEN <<"forget">> ELSE <<>>) \in Rests("remove")
<1>. DEFINE x == "resolve"
            y == "forget"
            e == << >>
            one == <<x>>
<1>1. x \in Awaits /\ y \in Awaits
  BY DEF Awaits
<1>2. Rests("remove") = {<<x>>, <<x, y>>}
  BY DEF Rests
<1>. HIDE DEF x, y
<1>3. one \in Seq(Awaits) /\ <<x, y>> = one \o <<y>>
  BY <1>1, ShortSequences
<1>4. one \o e = one
  <2>. HIDE DEF one
  <2>. QED
    BY <1>3, ConcatEmptySeq
<1>5. one \o (IF b THEN <<y>> ELSE e) \in Rests("remove")
  BY <1>2, <1>3, <1>4
<1>. QED
  BY <1>5 DEF one, e, x, y

LEMMA RemovePrinterStep ==
  ASSUME Invariant, NEW id \in Known, RemovePrinter(id)
  PROVE  Invariant'
<1>. DEFINE old == state.printers
            p == old[PositionOf(id)]
            keep == {i \in DOMAIN old : old[i].id # id}
            ps == Kept(old, keep)
            away == IF p.via = "queue" THEN state.suppressed \cup {id} ELSE state.suppressed
            virtual == p.via = "virtual"
            rest == <<"resolve">> \o (IF virtual THEN <<"forget">> ELSE <<>>)
            c == [printers |-> ps, suppressed |-> away]
            n == Len(old)
<1>0. Typed /\ Identified /\ mutation = Free
  BY DEF Invariant, RemovePrinter, Begin
<1>1. /\ Begin("remove", id, ps, away, rest)
      /\ world' = [Commanded EXCEPT !.removed = @ \cup {id}] /\ scans' = scans
  BY DEF RemovePrinter
<1>2. /\ p.id = id /\ PrinterOK(p) /\ p \in Range(old) /\ id \in Ids
  BY <1>0, KnownPosition
<1>3. rest \in Rests("remove")
  <2>1. virtual \in BOOLEAN
    OBVIOUS
  <2>. HIDE DEF virtual
  <2>. QED
    BY <2>1, RemovalAwaits
<1>. HIDE DEF rest, virtual
<1>4. /\ CatalogOK(state) /\ old \in Seq(Printer) /\ n \in Nat /\ DOMAIN old = 1 .. n
      /\ Range(old) = {old[j] : j \in 1 .. n}
      /\ UniqueIds(old) /\ \A j \in 1 .. n : PrinterOK(old[j])
      /\ state.suppressed \in SUBSET Ids
      /\ \A s \in state.suppressed : s[1] = "uri" /\ s \notin IdsOf(old)
  BY <1>0, CatalogElements DEF Typed, CatalogOK, PrintersOK
<1>5. \A j \in 1 .. n : j \in keep <=> old[j].id # id
  BY <1>4
<1>. HIDE DEF keep, p
<1>6. /\ ps \in Seq(Printer) /\ Len(ps) \in Nat
      /\ \A j \in 1 .. Len(ps) : \E a \in 1 .. n : a \in keep /\ ps[j] = old[a]
      /\ \A a \in 1 .. n : a \in keep => \E j \in 1 .. Len(ps) : ps[j] = old[a]
      /\ \A i, j \in 1 .. Len(ps) : i < j =>
            \E a, b \in 1 .. n : a < b /\ ps[i] = old[a] /\ ps[j] = old[b]
  <2>. HIDE DEF old
  <2>1. ps \in Seq(Printer) /\ Filtered(ps, old, keep, Len(old))
    BY <1>4, KeptProperties
  <2>. QED
    BY <2>1, LenProperties DEF Filtered, n
<1>. HIDE DEF ps
<1>7. PrintersOK(ps)
  BY <1>4, <1>6 DEF PrintersOK
<1>8. UniqueIds(ps)
  <2>. SUFFICES ASSUME NEW i \in 1 .. Len(ps), NEW j \in 1 .. Len(ps), ps[i].id = ps[j].id, i # j
                PROVE  FALSE
    BY DEF UniqueIds
  <2>1. \E a, b \in 1 .. n : a # b /\ ps[i] = old[a] /\ ps[j] = old[b]
    <3>1. i < j \/ j < i
      BY <1>6
    <3>2. \A a, b \in 1 .. n : a < b => a # b
      BY <1>4
    <3>. QED
      BY <1>6, <3>1, <3>2
  <2>. QED
    BY <1>4, <2>1 DEF UniqueIds
<1>9. /\ Range(ps) = {ps[j] : j \in 1 .. Len(ps)} /\ IdsOf(ps) = {q.id : q \in Range(ps)}
      /\ IdsOf(old) = {q.id : q \in Range(old)}
  BY <1>4, <1>6, IdsOfRange
<1>. HIDE DEF old, n
<1>10. \A q \in Range(old) : q.id # id => q \in Range(ps)
  <2>1. \A a \in 1 .. n : old[a].id # id => old[a] \in Range(ps)
    BY <1>5, <1>6, <1>9
  <2>. QED
    BY <1>4, <2>1
<1>11. Range(ps) \subseteq Range(old) /\ \A q \in Range(ps) : q.id # id
  <2>1. \A j \in 1 .. Len(ps) : ps[j] \in Range(old) /\ ps[j].id # id
    BY <1>4, <1>5, <1>6
  <2>. QED
    BY <1>9, <2>1
<1>12. CatalogOK(c)
  <2>1. away \in SUBSET Ids
    BY <1>2, <1>4
  <2>2. \A s \in away : s[1] = "uri" /\ s \notin IdsOf(ps)
    <3>1. \A s \in state.suppressed : s[1] = "uri" /\ s \notin IdsOf(ps)
      BY <1>4, <1>9, <1>11
    <3>2. p.via = "queue" => id[1] = "uri"
      BY <1>2 DEF PrinterOK
    <3>3. id \notin IdsOf(ps)
      BY <1>9, <1>11
    <3>. QED
      BY <3>1, <3>2, <3>3
  <2>. QED
    BY <1>6, <1>7, <1>8, <2>1, <2>2 DEF CatalogOK
<1>. HIDE DEF c, away
<1>13. /\ world \in WorldType
       /\ \A r \in Range(old) : Expected(r, {})
       /\ \A r, t \in Range(old) : r.id = t.id => r = t
       /\ Range(old) \subseteq Seen
  BY <1>0, QuietCatalog DEF old
<1>14. /\ world' \in WorldType /\ world'.removed = world.removed \cup {id}
       /\ world'.used = world.used
  <2>. DEFINE w == Commanded
  <2>1. w \in WorldType /\ w.removed = world.removed /\ w.used = world.used
    BY <1>13, CommandedType
  <2>2. world' = [w EXCEPT !.removed = @ \cup {id}]
    BY <1>1
  <2>. HIDE DEF w
  <2>. QED
    BY <1>2, <2>1, <2>2 DEF WorldType
<1>15. IdentifiedPrinters(ps, world'.used)
  BY <1>0, <1>11, <1>13, <1>14 DEF IdentifiedPrinters, Identified
<1>16. PreparedBy("remove", id, ps)
  BY <1>10, <1>11, <1>13 DEF PreparedBy, old
<1>17. \A r \in Range(ps) : Expected(r, Bringing("remove", id))
  BY <1>11, <1>13 DEF Expected, Bringing
<1>18. "remove" \in Ops
  BY DEF Ops
<1>19. ScansReset
  BY <1>1 DEF ScansReset
<1>. QED
  BY <1>1, <1>2, <1>3, <1>12, <1>14, <1>15, <1>16, <1>17, <1>18, <1>19, BeginStep DEF c

-----------------------------------------------------------------------------
(* Scans.                                                                  *)

LEMMA SeenPrinters ==
  ASSUME Typed
  PROVE  \A p \in Seen : PrinterOK(p)
<1>1. ASSUME NEW ps, PrintersOK(ps) PROVE \A p \in Range(ps) : PrinterOK(p)
  <2>1. Range(ps) = {ps[i] : i \in 1 .. Len(ps)}
    BY <1>1, ElementsOfSeq DEF PrintersOK
  <2>. QED
    BY <1>1, <2>1 DEF PrintersOK
<1>. QED
  BY <1>1 DEF Typed, Seen, CatalogOK

\* What a pass makes of a printer that has an identifier comes from the snapshot.
LEMMA PassProperties ==
  ASSUME NEW snapshot, PrintersOK(snapshot), world \in WorldType,
         NEW queried \in BOOLEAN, NEW reachable \in BOOLEAN
  PROVE  LET d == Deduplicate(Observations(snapshot, queried, reachable))
         IN  /\ ObservationsOK(d)
             /\ \A j \in 1 .. Len(d) :
                  \/ d[j].via = "queue" /\ DiscoveredPrinterId(d[j])[1] = "uri"
                  \/ /\ d[j].via # "queue" /\ DiscoveredPrinterId(d[j])[1] = "made"
                     /\ \E p \in Range(snapshot) :
                          p.id = DiscoveredPrinterId(d[j]) /\ p.via = d[j].via
<1>. DEFINE o == Observations(snapshot, queried, reachable)
            d == Deduplicate(o)
<1>1. world.uri \in [Queues -> Uris \cup {"none"}]
  BY DEF WorldType
<1>2. ObservationsOK(o) /\ \A j \in 1 .. Len(o) : ObservedFrom(o[j], snapshot)
  BY <1>1, ObservationsProperties
<1>. HIDE DEF o
<1>3. ObservationsOK(d) /\ Traced(d, o)
  BY <1>2, DeduplicateOK
<1>. HIDE DEF d
<1>4. \A j \in 1 .. Len(d) :
        \/ d[j].via = "queue" /\ DiscoveredPrinterId(d[j])[1] = "uri"
        \/ /\ d[j].via # "queue" /\ DiscoveredPrinterId(d[j])[1] = "made"
           /\ \E p \in Range(snapshot) : p.id = DiscoveredPrinterId(d[j]) /\ p.via = d[j].via
  <2>. SUFFICES ASSUME NEW j \in 1 .. Len(d)
                PROVE  \/ d[j].via = "queue" /\ DiscoveredPrinterId(d[j])[1] = "uri"
                       \/ /\ d[j].via # "queue" /\ DiscoveredPrinterId(d[j])[1] = "made"
                          /\ \E p \in Range(snapshot) :
                               p.id = DiscoveredPrinterId(d[j]) /\ p.via = d[j].via
    OBVIOUS
  <2>1. ObservationOK(d[j])
    BY <1>3 DEF ObservationsOK
  <2>2. /\ DiscoveredPrinterId(d[j])[1] = IF d[j].via = "queue" THEN "uri" ELSE "made"
        /\ d[j].via # "queue" => DiscoveredPrinterId(d[j]) = d[j].id
    BY <2>1, DiscoveredIdProperties
  <2>3. d[j].via # "queue" => \E i \in 1 .. Len(o) : o[i].id = d[j].id /\ o[i].via = d[j].via
    BY <1>3 DEF Traced
  <2>. QED
    BY <1>2, <2>2, <2>3 DEF ObservedFrom
<1>. QED
  BY <1>3, <1>4 DEF d, o

LEMMA FinishScanStep ==
  ASSUME Invariant, NEW s \in Scans, NEW queried \in BOOLEAN, NEW reachable \in BOOLEAN,
         FinishScan(s, queried, reachable)
  PROVE  Invariant'
<1>. DEFINE old == state.printers
            snapshot == scans[s].printers
            d == Deduplicate(Observations(snapshot, queried, reachable))
            next == ApplyObservations(state, d)
            r == next.printers
            n == Len(old)
<1>0. Typed /\ Identified /\ Listed /\ mutation = Free
  BY DEF Invariant, FinishScan, Begin
<1>1. /\ Begin("refresh", NoId, next.printers, next.suppressed, <<"resolve">>)
      /\ scans' = [scans EXCEPT ![s] = [running |-> FALSE, printers |-> <<>>]] /\ world' = world
  BY DEF FinishScan
<1>2. /\ PrintersOK(snapshot) /\ CatalogOK(state) /\ world \in WorldType
  BY <1>0 DEF Typed
<1>3. /\ ObservationsOK(d)
      /\ \A j \in 1 .. Len(d) :
           \/ d[j].via = "queue" /\ DiscoveredPrinterId(d[j])[1] = "uri"
           \/ /\ d[j].via # "queue" /\ DiscoveredPrinterId(d[j])[1] = "made"
              /\ \E p \in Range(snapshot) : p.id = DiscoveredPrinterId(d[j]) /\ p.via = d[j].via
  BY <1>2, PassProperties
<1>. HIDE DEF d
<1>4. /\ old \in Seq(Printer) /\ n \in Nat
      /\ Range(old) = {old[j] : j \in 1 .. n} /\ IdsOf(old) = {p.id : p \in Range(old)}
      /\ \A j \in 1 .. n : PrinterOK(old[j])
  BY <1>2, CatalogElements
<1>5. Range(snapshot) \subseteq Seen /\ Range(old) \subseteq Seen
  BY DEF Seen
<1>6. \A p \in Seen : PrinterOK(p)
  BY <1>0, SeenPrinters
<1>7. \A p, q \in Seen : p.id = q.id => p.via = q.via
  BY <1>0 DEF Identified
<1>8. \A p \in Seen : p.id[1] = IF p.via = "queue" THEN "uri" ELSE "made"
  BY <1>6 DEF PrinterOK
<1>9. \A p \in Seen : \A j \in 1 .. Len(d) : p.id = DiscoveredPrinterId(d[j]) => p.via = d[j].via
  BY <1>3, <1>5, <1>7, <1>8
<1>10. Consistent(old, d)
  <2>1. \A j, k \in 1 .. Len(d) : DiscoveredPrinterId(d[k]) = DiscoveredPrinterId(d[j])
           => d[k].via = d[j].via
    BY <1>3, <1>5, <1>9
  <2>2. \A j \in 1 .. Len(d) : \A i \in 1 .. n :
           old[i].id = DiscoveredPrinterId(d[j]) => old[i].via = d[j].via
    BY <1>4, <1>5, <1>9
  <2>. QED
    BY <2>1, <2>2 DEF Consistent
<1>11. /\ CatalogOK(next) /\ next.suppressed = state.suppressed
       /\ Grown(r, old, d)
  BY <1>2, <1>3, <1>10, ApplyObservationsOK
<1>. HIDE DEF next, old, snapshot
<1>. DEFINE c == [printers |-> next.printers, suppressed |-> next.suppressed]
<1>12. CatalogOK(c)
  <2>1. next = c
    BY <1>11 DEF CatalogOK
  <2>. QED
    BY <1>11, <2>1
<1>13. /\ Len(r) \in Nat /\ Range(r) = {r[i] : i \in 1 .. Len(r)}
       /\ IdsOf(r) = {p.id : p \in Range(r)}
       /\ \A p, q \in Range(r) : p.id = q.id => p = q
  BY <1>11, CatalogElements
<1>. HIDE DEF r, c
<1>14. /\ n <= Len(r) /\ \A i \in 1 .. n : SameChoices(old[i], r[i])
       /\ \A i \in 1 .. Len(r) : i \in 1 .. n \/
            \E j \in 1 .. Len(d) : r[i].id = DiscoveredPrinterId(d[j]) /\ r[i].via = d[j].via
  BY <1>11 DEF Grown
<1>15. \A i \in 1 .. n : i \in 1 .. Len(r) /\ old[i] \in Range(old) /\ r[i] \in Range(r)
  BY <1>4, <1>13, <1>14
<1>. HIDE DEF n
\* Where a printer of the new catalog comes from.
<1>16. \A p \in Range(r) :
         \/ \E q \in Range(old) \cup Range(snapshot) : q.id = p.id /\ q.via = p.via
         \/ p.via = "queue" /\ p.id[1] = "uri"
  <2>. SUFFICES ASSUME NEW i \in 1 .. Len(r)
                PROVE  \/ \E q \in Range(old) \cup Range(snapshot) : q.id = r[i].id /\ q.via = r[i].via
                       \/ r[i].via = "queue" /\ r[i].id[1] = "uri"
    BY <1>13
  <2>1. CASE i \in 1 .. n
    BY <1>14, <1>15, <2>1 DEF SameChoices
  <2>2. CASE i \notin 1 .. n
    BY <1>3, <1>14, <2>2
  <2>. QED
    BY <2>1, <2>2
<1>17. IdentifiedPrinters(r, world'.used)
  <2>1. \A p \in Range(r) : \A q \in Seen : q.id = p.id => q.via = p.via
    BY <1>5, <1>7, <1>8, <1>16 DEF old, snapshot
  <2>2. \A p \in Range(r) : p.id[1] = "made" => \E q \in Seen : q.id = p.id
    BY <1>5, <1>16 DEF old, snapshot
  <2>. QED
    BY <1>0, <1>1, <2>1, <2>2 DEF IdentifiedPrinters, Identified
<1>18. \A p \in Range(old), q \in Range(r) : p.id = q.id =>
          <<p.enabled, p.mode, p.profile>> = <<q.enabled, q.mode, q.profile>>
  <2>. SUFFICES ASSUME NEW i \in 1 .. n, NEW q \in Range(r), old[i].id = q.id
                PROVE  <<old[i].enabled, old[i].mode, old[i].profile>> = <<q.enabled, q.mode, q.profile>>
    BY <1>4
  <2>1. q = r[i]
    BY <1>13, <1>14, <1>15 DEF SameChoices
  <2>. QED
    BY <1>14, <2>1 DEF SameChoices
<1>19. IdsOf(old) \subseteq IdsOf(r)
  <2>1. \A i \in 1 .. n : old[i].id \in IdsOf(r)
    BY <1>13, <1>14, <1>15 DEF SameChoices
  <2>. QED
    BY <1>4, <2>1
<1>20. PreparedBy("refresh", NoId, r)
  BY <1>18, <1>19 DEF PreparedBy, old
<1>21. \A p \in Range(r) : Expected(p, Bringing("refresh", NoId))
  <2>1. \A q \in Range(old) \cup Range(snapshot) : Expected(q, {})
    <3>1. ~Published
      BY <1>0, WhenFree DEF Invariant
    <3>. QED
      BY <1>0, <3>1 DEF Listed, old, snapshot
  <2>2. Bringing("refresh", NoId) = {}
    BY DEF Bringing
  <2>. QED
    BY <1>16, <2>1, <2>2 DEF Expected
<1>22. <<"resolve">> \in Rests("refresh") /\ "refresh" \in Ops /\ "refresh" # "remove"
  BY DEF Rests, Ops
<1>23. ScansReset
  BY <1>1 DEF ScansReset
<1>24. world' \in WorldType
  BY <1>1, <1>2
<1>25. Begin("refresh", NoId, r, next.suppressed, <<"resolve">>)
       /\ CatalogOK([printers |-> r, suppressed |-> next.suppressed])
  BY <1>1, <1>12 DEF r, c
<1>. QED
  BY <1>1, <1>17, <1>20, <1>21, <1>22, <1>23, <1>24, <1>25, BeginStep

LEMMA StartScanStep ==
  ASSUME Invariant, NEW s \in Scans, StartScan(s)
  PROVE  Invariant'
<1>. DEFINE r == [running |-> TRUE, printers |-> state.printers]
<1>0. Typed /\ Identified /\ Copies /\ Listed /\ Told
  BY DEF Invariant
<1>1. /\ scans' = [scans EXCEPT ![s] = r] /\ world' = Commanded
      /\ UNCHANGED <<state, disk, resolver, spoolers, revision, mutation, link>>
  BY DEF StartScan
<1>2. /\ world \in WorldType /\ CatalogOK(state)
      /\ scans \in [Scans -> [running : BOOLEAN, printers : Seq(Printer)]]
      /\ \A t \in Scans : PrintersOK(scans[t].printers)
  BY <1>0 DEF Typed
<1>3. world' \in WorldType /\ world'.removed = world.removed /\ world'.used = world.used
  BY <1>1, <1>2, CommandedType
<1>4. r \in [running : BOOLEAN, printers : Seq(Printer)] /\ PrintersOK(r.printers)
      /\ r.printers = state.printers
  BY <1>2 DEF CatalogOK
<1>. HIDE DEF r
<1>5. /\ scans' \in [Scans -> [running : BOOLEAN, printers : Seq(Printer)]]
      /\ \A t \in Scans : scans'[t] = IF t = s THEN r ELSE scans[t]
  BY <1>1, <1>2, <1>4
<1>6. \A t \in Scans : PrintersOK(scans'[t].printers)
  BY <1>2, <1>4, <1>5
<1>7. Typed'
  BY <1>0, <1>1, <1>3, <1>5, <1>6 DEF Typed
<1>8. \A p \in UNION {Range(scans'[t].printers) : t \in Scans} :
         \/ p \in Range(state.printers)
         \/ p \in UNION {Range(scans[t].printers) : t \in Scans}
  BY <1>4, <1>5
<1>9. Seen' \subseteq Seen
  BY <1>1, <1>8 DEF Seen
<1>10. Identified'
  BY <1>0, <1>3, <1>9, IdentifiedKept
<1>11. Published' <=> Published
  BY <1>1 DEF Published, Resolving, Registering, Forgetting
<1>12. Copies'
  BY <1>0, <1>1, <1>3 DEF Copies, Storing, Publishing, Resolving, Registering, Forgetting,
     Prepared, PreparedBy, Refs, Active
<1>13. Listed'
  <2>1. Coming' = Coming
    BY <1>1 DEF Coming
  <2>. QED
    BY <1>0, <1>1, <1>3, <1>8, <1>11, <2>1 DEF Listed, Expected
<1>14. Told'
  BY <1>0, <1>1, <1>3, <1>11, ToldKept
<1>. QED
  BY <1>7, <1>10, <1>12, <1>13, <1>14 DEF Invariant

-----------------------------------------------------------------------------
(* The awaits of a command.                                                *)

LEMMA FreeOK ==
  /\ Free \in MutationType /\ CatalogOK(Free.next) /\ Range(Free.next.printers) = {}
  /\ Free.todo = <<>> /\ Free.op = "none"
<1>. DEFINE e == << >>
            c == [printers |-> e, suppressed |-> {}]
            m == [op |-> "none", todo |-> e, next |-> c, id |-> NoId]
<1>1. e \in Seq(Printer) /\ e \in Seq(Awaits) /\ Len(e) = 0 /\ Range(e) = {}
  BY DEF Range
<1>2. Free = m
  BY DEF Free
<1>. HIDE DEF e
<1>3. c \in [printers : Seq(Printer), suppressed : SUBSET Ids] /\ c.printers = e /\ c.suppressed = {}
  BY <1>1
<1>. HIDE DEF c
<1>4. CatalogOK(c)
  BY <1>1, <1>3 DEF CatalogOK, PrintersOK, UniqueIds
<1>5. m \in MutationType /\ m.next = c /\ m.todo = e /\ m.op = "none"
  BY <1>1, <1>3 DEF MutationType
<1>. HIDE DEF m
<1>6. Free.todo = e
  BY <1>2, <1>5
<1>. QED
  BY <1>1, <1>2, <1>3, <1>4, <1>5, <1>6 DEF e

LEMMA TodoReplaced ==
  ASSUME mutation \in MutationType, NEW t \in Seq(Awaits),
         mutation' = [mutation EXCEPT !.todo = t]
  PROVE  /\ mutation' \in MutationType /\ mutation'.todo = t /\ mutation'.op = mutation.op
         /\ mutation'.id = mutation.id /\ mutation'.next = mutation.next
BY DEF MutationType

\* The command ends: what it leaves when it told the session, or need not tell it.
LEMMA ReleaseStep ==
  ASSUME Invariant, mutation' = Free, UNCHANGED <<state, disk, scans>>,
         world' \in WorldType, world'.removed = world.removed, world'.used = world.used,
         disk = state, resolver' = Refs, revision' \in Nat, link' \in LinkType, Told',
         \A p \in Range(state.printers) \cup UNION {Range(scans[s].printers) : s \in Scans} :
            p.via = "virtual" /\ "virtual" \in Features => p.id \in spoolers' \cup world.removed
  PROVE  Invariant'
<1>1. /\ mutation' \in MutationType /\ CatalogOK(mutation'.next)
      /\ Range(mutation'.next.printers) = {} /\ mutation'.todo = <<>> /\ mutation'.op = "none"
  BY FreeOK
<1>2. Typed'
  BY <1>1 DEF Invariant, Typed
<1>3. Identified'
  <2>1. Seen' \subseteq Seen
    BY <1>1 DEF Seen
  <2>. QED
    BY <2>1, IdentifiedKept DEF Invariant
<1>4. Copies'
  BY DEF Copies, Refs, Active
<1>5. ~Published'
  BY <1>1 DEF Published, Resolving, Registering, Forgetting
<1>6. Listed'
  BY <1>1, <1>5 DEF Listed, Expected
<1>. QED
  BY <1>2, <1>3, <1>4, <1>6 DEF Invariant

LEMMA PersistStep ==
  ASSUME Invariant, Persist
  PROVE  Invariant'
<1>0. Typed /\ Identified /\ Copies /\ Listed /\ Told
  BY DEF Invariant
<1>1. /\ mutation.todo # <<>> /\ Step = "persist"
      /\ UNCHANGED <<state, resolver, spoolers, revision, scans, link>>
  BY DEF Persist
<1>2. /\ mutation # Free /\ mutation.op \in Ops /\ ~Published
      /\ mutation.op = "remove" => mutation.id \in world.removed
      /\ Storing /\ disk = state /\ resolver = Refs /\ Prepared
      /\ \E rest \in Rests(mutation.op) : Tail(mutation.todo) = <<"publish">> \o rest
  BY <1>0, <1>1, WhenStoring
<1>3. ASSUME disk' = mutation.next, mutation' = [mutation EXCEPT !.todo = Tail(@)], UNCHANGED world
      PROVE  Invariant'
  <2>. DEFINE t == Tail(mutation.todo)
  <2>1. PICK rest \in Rests(mutation.op) : t = <<"publish">> \o rest
    BY <1>2
  <2>2. t \in Seq(Awaits) /\ t # <<>> /\ Head(t) = "publish"
    BY <1>2, <2>1, RestsType, PlanSteps
  <2>3. mutation \in MutationType /\ mutation' = [mutation EXCEPT !.todo = t]
    BY <1>0, <1>3 DEF Typed
  <2>. HIDE DEF t
  <2>4. /\ mutation' \in MutationType /\ mutation'.todo = t /\ mutation'.op = mutation.op
        /\ mutation'.id = mutation.id /\ mutation'.next = mutation.next
    BY <2>2, <2>3, TodoReplaced
  <2>5. Typed'
    BY <1>0, <1>1, <1>3, <2>4 DEF Typed
  <2>6. Identified'
    <3>1. Seen' \subseteq Seen
      BY <1>1, <1>3, <2>4 DEF Seen
    <3>. QED
      BY <1>0, <1>3, <3>1, IdentifiedKept
  <2>7. Publishing'
    BY <2>1, <2>4 DEF Publishing
  <2>8. Prepared'
    BY <1>1, <1>2, <2>4 DEF Prepared, PreparedBy, Active
  <2>9. mutation'.op # "none" /\ Refs' = Refs
    BY <1>1, <1>2, <2>4 DEF Ops, Refs, Active
  <2>10. Copies'
    BY <1>1, <1>2, <1>3, <2>4, <2>7, <2>8, <2>9 DEF Copies
  <2>11. ~Published'
    <3>1. t \notin {<<"resolve">>, <<"register", "resolve">>, <<"resolve", "forget">>,
                    <<"register">>, <<"forget">>}
      BY <2>2
    <3>. QED
      BY <2>4, <3>1 DEF Published, Resolving, Registering, Forgetting
  <2>12. Listed'
    <3>1. mutation.todo # <<"resolve">> /\ t # <<"resolve">>
      BY <1>1, <2>2 DEF Step
    <3>2. Coming' = Coming
      BY <2>4, <3>1 DEF Coming
    <3>. QED
      BY <1>0, <1>1, <1>2, <1>3, <2>4, <2>11, <3>2 DEF Listed, Expected
  <2>13. Told'
    BY <1>0, <1>1, <1>2, <1>3, ToldKept
  <2>. QED
    BY <2>5, <2>6, <2>10, <2>12, <2>13 DEF Invariant
<1>4. ASSUME world' = Changed, mutation' = Free, UNCHANGED disk
      PROVE  Invariant'
  <2>1. world \in WorldType /\ revision \in Nat /\ link \in LinkType
    BY <1>0 DEF Typed
  <2>2. world' \in WorldType /\ world'.removed = world.removed /\ world'.used = world.used
    BY <1>4, <2>1, CommandedType
  <2>3. Told'
    BY <1>0, <1>1, <1>2, <2>2, ToldKept
  <2>4. \A p \in Range(state.printers) \cup UNION {Range(scans[s].printers) : s \in Scans} :
           p.via = "virtual" /\ "virtual" \in Features => p.id \in spoolers' \cup world.removed
    BY <1>0, <1>1, <1>2 DEF Listed, Expected
  <2>. QED
    BY <1>1, <1>2, <1>4, <2>1, <2>2, <2>3, <2>4, ReleaseStep
<1>. QED
  BY <1>3, <1>4 DEF Persist

LEMMA PublishStep ==
  ASSUME Invariant, Publish
  PROVE  Invariant'
<1>. DEFINE t == Tail(mutation.todo)
            new == mutation.next.printers
            id == mutation.id
<1>0. Typed /\ Identified /\ Copies /\ Listed /\ Told
  BY DEF Invariant
<1>1. /\ mutation.todo # <<>> /\ Step = "publish" /\ state' = mutation.next
      /\ mutation' = [mutation EXCEPT !.todo = t]
      /\ UNCHANGED <<disk, resolver, spoolers, revision, scans, link, world>>
  BY DEF Publish
<1>2. /\ mutation # Free /\ mutation.op \in Ops /\ ~Published
      /\ mutation.op = "remove" => mutation.id \in world.removed
      /\ Publishing /\ disk = mutation.next /\ resolver = Refs /\ Prepared
      /\ t \in Rests(mutation.op)
  BY <1>0, <1>1, WhenPublishing
<1>3. t \in Seq(Awaits)
  <2>1. {"resolve", "register", "forget"} \subseteq Awaits
    BY DEF Awaits
  <2>2. t \in {<<"resolve">>, <<"register", "resolve">>, <<"register">>, <<"resolve", "forget">>}
    BY <1>2, RestsType
  <2>. HIDE DEF t
  <2>. QED
    BY <2>1, <2>2, ShortSequences
<1>. HIDE DEF t
<1>4. /\ mutation' \in MutationType /\ mutation'.todo = t /\ mutation'.op = mutation.op
      /\ mutation'.id = mutation.id /\ mutation'.next = mutation.next
  <2>1. mutation \in MutationType
    BY <1>0 DEF Typed
  <2>. QED
    BY <1>1, <1>3, <2>1, TodoReplaced
<1>5. Typed'
  BY <1>0, <1>1, <1>4 DEF Typed
<1>6. Identified'
  <2>1. Seen' \subseteq Seen
    BY <1>1, <1>4 DEF Seen
  <2>. QED
    BY <1>0, <1>1, <2>1, IdentifiedKept
<1>7. \/ mutation.op \in {"configure", "add", "refresh"} /\ t = <<"resolve">> /\ Resolving'
      \/ mutation.op = "create" /\ t = <<"register", "resolve">> /\ Resolving'
      \/ mutation.op = "update" /\ t = <<"register">> /\ Registering'
      \/ mutation.op = "remove" /\ t \in {<<"resolve", "forget">>, <<"resolve">>} /\ Resolving'
  <2>1. \/ mutation.op \in {"configure", "add", "refresh"} /\ t = <<"resolve">>
        \/ mutation.op = "create" /\ t = <<"register", "resolve">>
        \/ mutation.op = "update" /\ t = <<"register">>
        \/ mutation.op = "remove" /\ t \in {<<"resolve", "forget">>, <<"resolve">>}
    BY <1>2 DEF Rests, Ops
  <2>. QED
    BY <1>4, <2>1 DEF Resolving, Registering
<1>8. Published'
  BY <1>7 DEF Published
<1>9. /\ \A p \in Range(state.printers), q \in Range(new) : mutation.op # "configure" /\ p.id = q.id =>
            <<p.enabled, p.mode, p.profile>> = <<q.enabled, q.mode, q.profile>>
      /\ mutation.op # "refresh" =>
           \A p \in Range(state.printers) \cup Range(new) : p.id # id =>
             (p \in Range(state.printers) <=> p \in Range(new))
      /\ mutation.op = "refresh" => IdsOf(state.printers) \subseteq IdsOf(new)
      /\ mutation.op = "update" => Refs = {Reference(p) : p \in {q \in Range(new) : IsActive(q)}}
      /\ mutation.op \in {"configure", "add", "create"} =>
           \A p \in Range(new) : p.id = id => IsActive(p)
  BY <1>2 DEF Prepared, PreparedBy, Refs
<1>10. /\ Refs = {Reference(p) : p \in {q \in Range(state.printers) : IsActive(q)}}
       /\ Refs' = {Reference(p) : p \in {q \in Range(new) : IsActive(q)}}
       /\ state'.printers = new
  BY <1>1 DEF Refs, Active
<1>11. \A p : Reference(p).id = p.id
  BY DEF Reference
<1>12. mutation.op # "refresh" =>
          \A r \in resolver \cup Refs' : r.id # id => (r \in resolver <=> r \in Refs')
  BY <1>2, <1>9, <1>10, <1>11
<1>13. mutation.op = "refresh" => \A r \in resolver : r.id \in IdsOf(new)
  <2>1. IdsOf(state.printers) = {p.id : p \in Range(state.printers)}
    BY <1>0, CatalogElements DEF Typed
  <2>. QED
    BY <1>2, <1>9, <1>10, <1>11, <2>1
<1>14. mutation'.op # "none" /\ disk' = state' /\ mutation'.next = state'
  BY <1>1, <1>2, <1>4 DEF Ops
<1>15. Copies'
  <2>1. CASE Resolving'
    BY <1>1, <1>2, <1>4, <1>9, <1>10, <1>12, <1>13, <1>14, <2>1 DEF Copies
  <2>2. CASE Registering'
    <3>1. mutation.op = "update"
      BY <1>4, <2>2 DEF Registering
    <3>. QED
      BY <1>1, <1>2, <1>4, <1>9, <1>10, <1>14, <2>2, <3>1 DEF Copies
  <2>. QED
    BY <1>7, <2>1, <2>2
<1>16. Listed'
  <2>1. mutation.todo # <<"resolve">>
    BY <1>1 DEF Step
  <2>2. mutation.op = "create" => t # <<"resolve">>
    BY <1>7
  <2>3. Coming' = Coming
    BY <1>4, <2>1, <2>2 DEF Coming
  <2>. QED
    BY <1>0, <1>1, <1>2, <1>4, <1>8, <2>3 DEF Listed, Expected
<1>17. Told'
  BY <1>1, <1>8 DEF Told
<1>. QED
  BY <1>5, <1>6, <1>15, <1>16, <1>17 DEF Invariant

\* A notice is on its way, also when the full channel dropped this one.
LEMMA NoticedTold ==
  ASSUME link \in LinkType, link' = Noticed
  PROVE  link' \in LinkType /\ Told'
<1>. DEFINE n == IF link.open /\ link.notices < Capacity THEN link.notices + 1 ELSE link.notices
<1>1. n \in Nat /\ (link.open => n > 0)
  BY InventoryAssumption DEF LinkType
<1>2. link' = [link EXCEPT !.notices = n]
  BY DEF Noticed
<1>. HIDE DEF n
<1>3. link' \in LinkType /\ link'.open = link.open /\ link'.notices = n
  BY <1>1, <1>2 DEF LinkType
<1>. QED
  BY <1>1, <1>3 DEF Told

LEMMA RegisterStep ==
  ASSUME Invariant, Register
  PROVE  Invariant'
<1>. DEFINE id == mutation.id
<1>0. Typed /\ Identified /\ Copies /\ Listed /\ Told
  BY DEF Invariant
<1>1. /\ mutation.todo # <<>> /\ Step = "register"
      /\ spoolers' = spoolers \cup {id} /\ Advance(TRUE)
      /\ UNCHANGED <<state, disk, resolver, scans, world>>
  BY DEF Register
<1>2. /\ mutation # Free /\ mutation.op \in Ops /\ Published /\ ~Storing /\ ~Publishing
      /\ disk = state /\ mutation.next = state
  BY <1>0, <1>1, WhenPublished
<1>3. /\ mutation \in MutationType /\ link \in LinkType /\ world \in WorldType /\ revision \in Nat
  BY <1>0 DEF Typed
<1>4. \/ mutation.op = "create" /\ mutation.todo = <<"register", "resolve">>
      \/ mutation.op = "update" /\ mutation.todo = <<"register">>
  BY <1>1, <1>2 DEF Published, Resolving, Registering, Forgetting, Step
<1>5. ASSUME mutation.op = "create", mutation.todo = <<"register", "resolve">>
      PROVE  Invariant'
  <2>1. ~LastStep /\ Tail(mutation.todo) = <<"resolve">>
    BY <1>5 DEF LastStep
  <2>2. mutation' = [mutation EXCEPT !.todo = <<"resolve">>] /\ UNCHANGED <<revision, link>>
    BY <1>1, <2>1 DEF Advance
  <2>3. /\ mutation' \in MutationType /\ mutation'.todo = <<"resolve">>
        /\ mutation'.op = mutation.op /\ mutation'.id = id /\ mutation'.next = mutation.next
    <3>1. <<"resolve">> \in Seq(Awaits)
      <4>1. {"resolve"} \subseteq Awaits
        BY DEF Awaits
      <4>. QED
        BY <4>1, ShortSequences
    <3>. QED
      BY <1>3, <2>2, <3>1, TodoReplaced
  <2>4. Typed'
    BY <1>0, <1>1, <2>2, <2>3 DEF Typed
  <2>5. Identified'
    <3>1. Seen' \subseteq Seen
      BY <1>1, <2>3 DEF Seen
    <3>. QED
      BY <1>0, <1>1, <3>1, IdentifiedKept
  <2>6. Resolving' /\ Published'
    BY <1>5, <2>3 DEF Resolving, Published
  <2>7. Copies'
    <3>1. /\ \A r \in resolver \cup Refs : r.id # id => (r \in resolver <=> r \in Refs)
          /\ \A p \in Range(state.printers) : p.id = id => IsActive(p)
      BY <1>0, <1>2, <1>5 DEF Copies, Registering, Forgetting
    <3>2. Refs' = Refs
      BY <1>1 DEF Refs, Active
    <3>. QED
      BY <1>1, <1>2, <1>5, <2>3, <2>6, <3>1, <3>2 DEF Copies
  <2>8. Listed'
    <3>1. Coming = {id} /\ Coming' = {}
      BY <1>5, <2>3 DEF Coming
    <3>. QED
      BY <1>0, <1>1, <1>2, <2>3, <2>6, <3>1 DEF Listed, Expected
  <2>9. Told'
    BY <2>6 DEF Told
  <2>. QED
    BY <2>4, <2>5, <2>7, <2>8, <2>9 DEF Invariant
<1>6. ASSUME mutation.op = "update", mutation.todo = <<"register">>
      PROVE  Invariant'
  <2>1. LastStep
    BY <1>6 DEF LastStep
  <2>2. mutation' = Free /\ revision' = revision + 1 /\ link' = Noticed
    BY <1>1, <2>1 DEF Advance
  <2>3. resolver = Refs
    BY <1>0, <1>2, <1>6 DEF Copies, Resolving
  <2>4. Coming = {}
    BY <1>6 DEF Coming
  <2>5. \A p \in Range(state.printers) \cup UNION {Range(scans[s].printers) : s \in Scans} :
           p.via = "virtual" /\ "virtual" \in Features => p.id \in spoolers' \cup world.removed
    BY <1>0, <1>1, <1>2, <2>4 DEF Listed, Expected
  <2>6. link' \in LinkType /\ Told'
    BY <1>3, <2>2, NoticedTold
  <2>7. revision' \in Nat
    BY <1>3, <2>2
  <2>. QED
    BY <1>1, <1>2, <1>3, <2>2, <2>3, <2>5, <2>6, <2>7, ReleaseStep
<1>. QED
  BY <1>4, <1>5, <1>6

\* After the await the references are those of the catalog.
LEMMA ResolvedRefs ==
  ASSUME Invariant, Resolve
  PROVE  resolver' = Refs
<1>. DEFINE id == mutation.id
            all == Range(state.printers)
            touched == IF mutation.op = "refresh" THEN all ELSE {p \in all : p.id = id}
            gone == {id} \cup {p.id : p \in touched}
<1>0. Typed /\ Copies
  BY DEF Invariant
<1>1. /\ mutation.todo # <<>> /\ Step = "resolve"
      /\ resolver' = {r \in resolver : r.id \notin gone}
                       \cup {Reference(p) : p \in {t \in touched : IsActive(t)}}
  BY DEF Resolve
<1>2. Resolving /\ ~Storing /\ ~Publishing /\ mutation # Free
  BY <1>0, <1>1, WhenPublished DEF Published, Registering, Forgetting, Step
<1>3. /\ mutation.op # "refresh" =>
           \A r \in resolver \cup Refs : r.id # id => (r \in resolver <=> r \in Refs)
      /\ mutation.op = "refresh" => \A r \in resolver : r.id \in IdsOf(state.printers)
  <2>1. ~Registering /\ ~Forgetting
    BY <1>2 DEF Resolving, Registering, Forgetting
  <2>. QED
    BY <1>0, <1>2, <2>1 DEF Copies
<1>4. IdsOf(state.printers) = {p.id : p \in all}
  BY <1>0, CatalogElements DEF Typed
<1>5. Refs = {Reference(p) : p \in {q \in all : IsActive(q)}}
  BY DEF Refs, Active
<1>6. \A p : Reference(p).id = p.id
  BY DEF Reference
<1>. HIDE DEF all
<1>7. CASE mutation.op = "refresh"
  <2>1. {r \in resolver : r.id \notin gone} = {}
    BY <1>3, <1>4, <1>7
  <2>. QED
    BY <1>1, <1>5, <1>7, <2>1
<1>8. CASE mutation.op # "refresh"
  <2>1. gone = {id} /\ touched = {p \in all : p.id = id}
    BY <1>8
  <2>2. {Reference(p) : p \in {t \in touched : IsActive(t)}} = {r \in Refs : r.id = id}
    BY <1>5, <1>6, <2>1
  <2>3. {r \in resolver : r.id \notin gone} = {r \in Refs : r.id # id}
    BY <1>3, <1>8, <2>1
  <2>. QED
    BY <1>1, <2>2, <2>3
<1>. QED
  BY <1>7, <1>8

LEMMA ResolveStep ==
  ASSUME Invariant, Resolve
  PROVE  Invariant'
<1>. DEFINE id == mutation.id
            touched == {p \in Range(state.printers) : p.id = id}
            listable == CASE mutation.op = "refresh" -> Listable(Active(state))
                          [] mutation.op = "remove" -> TRUE
                          [] OTHER -> Listable(touched)
<1>0. Typed /\ Identified /\ Copies /\ Listed /\ Told
  BY DEF Invariant
<1>1. /\ mutation.todo # <<>> /\ Step = "resolve"
      /\ UNCHANGED <<state, disk, spoolers, scans, world>>
  BY DEF Resolve
<1>2. resolver' = Refs
  BY ResolvedRefs
<1>3. /\ mutation # Free /\ mutation.op \in Ops /\ Published /\ ~Storing /\ ~Publishing
      /\ mutation.op = "remove" => mutation.id \in world.removed
      /\ disk = state /\ mutation.next = state
  BY <1>0, <1>1, WhenPublished
<1>4. /\ mutation \in MutationType /\ link \in LinkType /\ world \in WorldType /\ revision \in Nat
  BY <1>0 DEF Typed
<1>5. Resolving
  BY <1>1, <1>3 DEF Published, Registering, Forgetting, Step
<1>6. \/ mutation.todo = <<"resolve">>
      \/ mutation.op = "remove" /\ mutation.todo = <<"resolve", "forget">>
  BY <1>1, <1>5 DEF Resolving, Step
<1>7. ASSUME mutation.op = "remove", mutation.todo = <<"resolve", "forget">>
      PROVE  Invariant'
  <2>1. ~LastStep /\ Tail(mutation.todo) = <<"forget">>
    BY <1>7 DEF LastStep
  <2>2. mutation' = [mutation EXCEPT !.todo = <<"forget">>] /\ UNCHANGED <<revision, link>>
    BY <2>1 DEF Resolve, Advance
  <2>3. /\ mutation' \in MutationType /\ mutation'.todo = <<"forget">>
        /\ mutation'.op = mutation.op /\ mutation'.id = id /\ mutation'.next = mutation.next
    <3>1. <<"forget">> \in Seq(Awaits)
      <4>1. {"forget"} \subseteq Awaits
        BY DEF Awaits
      <4>. QED
        BY <4>1, ShortSequences
    <3>. QED
      BY <1>4, <2>2, <3>1, TodoReplaced
  <2>4. Typed'
    BY <1>0, <1>1, <2>2, <2>3 DEF Typed
  <2>5. Identified'
    <3>1. Seen' \subseteq Seen
      BY <1>1, <2>3 DEF Seen
    <3>. QED
      BY <1>0, <1>1, <3>1, IdentifiedKept
  <2>6. Forgetting' /\ Published'
    BY <1>7, <2>3 DEF Forgetting, Published
  <2>7. Copies'
    <3>1. Refs' = Refs
      BY <1>1 DEF Refs, Active
    <3>. QED
      BY <1>1, <1>2, <1>3, <1>7, <2>3, <2>6, <3>1 DEF Copies
  <2>8. Listed'
    <3>1. Coming = {} /\ Coming' = {}
      BY <1>7, <2>3 DEF Coming
    <3>. QED
      BY <1>0, <1>1, <1>3, <2>3, <2>6, <3>1 DEF Listed, Expected
  <2>9. Told'
    BY <2>6 DEF Told
  <2>. QED
    BY <2>4, <2>5, <2>7, <2>8, <2>9 DEF Invariant
<1>8. ASSUME mutation.todo = <<"resolve">>
      PROVE  Invariant'
  <2>1. LastStep
    BY <1>8 DEF LastStep
  <2>2. mutation' = Free /\ revision' = revision + 1 /\ link' = IF listable THEN Noticed ELSE link
    <3>1. CASE mutation.op = "refresh"
      BY <2>1, <3>1 DEF Resolve, Advance
    <3>2. CASE mutation.op # "refresh"
      BY <2>1, <3>2 DEF Resolve, Advance
    <3>. QED
      BY <3>1, <3>2
  <2>3. Coming = {}
    BY <1>8 DEF Coming
  <2>4. \A p \in Range(state.printers) \cup UNION {Range(scans[s].printers) : s \in Scans} :
           p.via = "virtual" /\ "virtual" \in Features => p.id \in spoolers \cup world.removed
    BY <1>0, <1>3, <2>3 DEF Listed, Expected
  <2>5. ~listable => world.removed \cap IdsOf(state.printers) # {}
    <3>. SUFFICES ASSUME ~listable PROVE world.removed \cap IdsOf(state.printers) # {}
      OBVIOUS
    <3>1. \E p \in Range(state.printers) : p.via = "virtual" /\ "virtual" \in Features /\ p.id \notin spoolers
      <4>1. CASE mutation.op = "refresh"
        <5>1. ~Listable(Active(state))
          BY <4>1
        <5>. QED
          BY <5>1 DEF Listable, Active, IsActive
      <4>2. CASE mutation.op # "refresh"
        <5>1. mutation.op # "remove" /\ ~Listable(touched)
          BY <4>2
        <5>2. mutation.op \in {"configure", "add", "create"}
          BY <1>5, <4>2, <5>1 DEF Resolving
        <5>3. \A p \in Range(state.printers) : p.id = id => IsActive(p)
          <6>1. ~Registering /\ ~Forgetting
            BY <1>5, <5>2 DEF Resolving, Registering, Forgetting
          <6>. QED
            BY <1>0, <1>3, <5>2, <6>1 DEF Copies
        <5>. QED
          BY <5>1, <5>3 DEF Listable, IsActive
      <4>. QED
        BY <4>1, <4>2
    <3>2. IdsOf(state.printers) = {p.id : p \in Range(state.printers)}
      BY <1>0, CatalogElements DEF Typed
    <3>. QED
      BY <2>4, <3>1, <3>2
  <2>6. link' \in LinkType /\ Told'
    <3>1. CASE listable
      BY <1>4, <2>2, <3>1, NoticedTold
    <3>2. CASE ~listable
      BY <1>1, <1>4, <2>2, <2>5, <3>2 DEF Told
    <3>. QED
      BY <3>1, <3>2
  <2>7. revision' \in Nat
    BY <1>4, <2>2
  <2>. QED
    BY <1>1, <1>2, <1>3, <1>4, <2>2, <2>4, <2>6, <2>7, ReleaseStep
<1>. QED
  BY <1>6, <1>7, <1>8

LEMMA ForgetStep ==
  ASSUME Invariant, Forget
  PROVE  Invariant'
<1>. DEFINE id == mutation.id
<1>0. Typed /\ Identified /\ Copies /\ Listed /\ Told
  BY DEF Invariant
<1>1. /\ mutation.todo # <<>> /\ Step = "forget"
      /\ spoolers' = spoolers \ {id} /\ Advance(TRUE)
      /\ UNCHANGED <<state, disk, resolver, scans, world>>
  BY DEF Forget
<1>2. /\ mutation # Free /\ mutation.op \in Ops /\ Published /\ ~Storing /\ ~Publishing
      /\ mutation.op = "remove" => mutation.id \in world.removed
      /\ disk = state /\ mutation.next = state
  BY <1>0, <1>1, WhenPublished
<1>3. /\ mutation \in MutationType /\ link \in LinkType /\ world \in WorldType /\ revision \in Nat
  BY <1>0 DEF Typed
<1>4. mutation.op = "remove" /\ mutation.todo = <<"forget">>
  BY <1>1, <1>2 DEF Published, Resolving, Registering, Forgetting, Step
<1>5. LastStep
  BY <1>4 DEF LastStep
<1>6. mutation' = Free /\ revision' = revision + 1 /\ link' = Noticed
  BY <1>1, <1>5 DEF Advance
<1>7. resolver = Refs
  BY <1>0, <1>2, <1>4 DEF Copies, Resolving
<1>8. Coming = {}
  BY <1>4 DEF Coming
<1>9. \A p \in Range(state.printers) \cup UNION {Range(scans[s].printers) : s \in Scans} :
         p.via = "virtual" /\ "virtual" \in Features => p.id \in spoolers' \cup world.removed
  BY <1>0, <1>1, <1>2, <1>4, <1>8 DEF Listed, Expected
<1>10. link' \in LinkType /\ Told'
  BY <1>3, <1>6, NoticedTold
<1>11. revision' \in Nat
  BY <1>3, <1>6
<1>. QED
  BY <1>1, <1>2, <1>3, <1>6, <1>7, <1>9, <1>10, <1>11, ReleaseStep

-----------------------------------------------------------------------------
(* The session, the machine and the process.                               *)

LEMMA DescriptorsType ==
  ASSUME Typed
  PROVE  Descriptors \in SUBSET Descriptor
<1>. SUFFICES ASSUME NEW p \in Active(state) PROVE ProtocolDescriptor(p) \in Descriptor
  BY DEF Descriptors
<1>. DEFINE keys == IdentityKeys(p.fp)
            f == IF keys = <<>> THEN <<p.via, p.addr>> ELSE Head(keys)
            e == p.mode = "raw" \/ p.via = "network"
<1>1. p \in Printer
  BY CatalogElements DEF Typed, Active, PrinterOK
<1>2. keys \in Seq(Ids)
  BY <1>1, IdentityKeysProperties DEF Printer
<1>3. p.via \in Vias /\ p.addr \in Names /\ p.id \in Ids /\ p.enabled \in BOOLEAN /\ p.online \in BOOLEAN
  BY <1>1 DEF Printer
<1>. HIDE DEF keys
<1>4. f \in Ids \cup (Vias \X Names)
  BY <1>2, <1>3
<1>5. e \in BOOLEAN
  OBVIOUS
<1>6. ProtocolDescriptor(p) = [id |-> p.id, via |-> p.via, addr |-> p.addr, enabled |-> p.enabled,
                               online |-> p.online, fingerprint |-> f, esc_pos |-> e]
  BY DEF ProtocolDescriptor, keys
<1>. HIDE DEF f, e
<1>. QED
  BY <1>3, <1>4, <1>5, <1>6 DEF Descriptor

LEMMA OutsideStep ==
  ASSUME Invariant, UNCHANGED <<state, disk, resolver, spoolers, revision, mutation, scans>>,
         world' \in WorldType, world'.removed = world.removed, world'.used = world.used,
         link' \in LinkType, Told'
  PROVE  Invariant'
<1>0. Typed /\ Identified /\ Copies /\ Listed
  BY DEF Invariant
<1>1. Typed'
  BY <1>0 DEF Typed
<1>2. Identified'
  <2>1. Seen' = Seen
    BY DEF Seen
  <2>. QED
    BY <1>0, <2>1, IdentifiedKept
<1>3. Copies'
  BY <1>0 DEF Copies, Storing, Publishing, Resolving, Registering, Forgetting,
     Prepared, PreparedBy, Refs, Active
<1>4. Listed'
  <2>1. Coming' = Coming /\ (Published' <=> Published)
    BY DEF Coming, Published, Resolving, Registering, Forgetting
  <2>. QED
    BY <1>0, <2>1 DEF Listed, Expected
<1>. QED
  BY <1>1, <1>2, <1>3, <1>4 DEF Invariant

LEMMA SameDescriptors == ASSUME state' = state PROVE Descriptors' = Descriptors
BY DEF Descriptors, Active

LEMMA ClosedType ==
  /\ Closed \in LinkType /\ Closed.open = FALSE
  /\ [Closed EXCEPT !.open = TRUE, !.due = TRUE] \in LinkType
  /\ [Closed EXCEPT !.open = TRUE, !.due = TRUE].due = TRUE
  /\ [Closed EXCEPT !.refused = TRUE] \in LinkType
  /\ [Closed EXCEPT !.refused = TRUE].open = FALSE
<1>. DEFINE s == NoInventory
<1>1. s \in [revision : Nat, printers : SUBSET Descriptor]
  BY DEF NoInventory
<1>2. Closed = [open |-> FALSE, due |-> FALSE, notices |-> 0, reading |-> FALSE, read |-> {},
                server |-> s, refused |-> FALSE]
  BY DEF Closed
<1>. HIDE DEF s
<1>. QED
  BY <1>1, <1>2 DEF LinkType

LEMMA SessionStep ==
  ASSUME Invariant, OpenSession \/ RequestInventory \/ ReadDescriptors \/ SendInventory
  PROVE  Invariant'
<1>0. /\ Typed /\ world \in WorldType /\ link \in LinkType /\ revision \in Nat /\ Told
  BY DEF Invariant, Typed
<1>1. CASE OpenSession
  <2>1. /\ link' = [Closed EXCEPT !.open = TRUE, !.due = TRUE]
        /\ UNCHANGED <<state, disk, resolver, spoolers, revision, mutation, scans, world>>
    BY <1>1 DEF OpenSession
  <2>2. link' \in LinkType /\ link'.due
    BY <2>1, ClosedType
  <2>3. Told'
    BY <2>2 DEF Told
  <2>. QED
    BY <1>0, <2>1, <2>2, <2>3, OutsideStep
<1>2. CASE RequestInventory
  <2>1. /\ link' = [link EXCEPT !.due = TRUE] /\ world' = Changed
        /\ UNCHANGED <<state, disk, resolver, spoolers, revision, mutation, scans>>
    BY <1>2 DEF RequestInventory
  <2>2. link' \in LinkType /\ link'.due
    BY <1>0, <2>1 DEF LinkType
  <2>3. Told'
    BY <2>2 DEF Told
  <2>4. world' \in WorldType /\ world'.removed = world.removed /\ world'.used = world.used
    BY <1>0, <2>1, CommandedType
  <2>. QED
    BY <2>1, <2>2, <2>3, <2>4, OutsideStep
<1>3. CASE ReadDescriptors
  <2>. DEFINE d == Descriptors
              read(n) == [link EXCEPT !.notices = n, !.reading = TRUE, !.read = d]
  <2>1. /\ \/ link' = [link EXCEPT !.due = FALSE, !.reading = TRUE, !.read = d]
           \/ link.notices > 0
              /\ link' = [link EXCEPT !.notices = link.notices - 1, !.reading = TRUE, !.read = d]
        /\ UNCHANGED <<state, disk, resolver, spoolers, revision, mutation, scans, world>>
    BY <1>3 DEF ReadDescriptors
  <2>2. d \in SUBSET Descriptor /\ d' = d
    BY <1>0, <2>1, DescriptorsType, SameDescriptors
  <2>3. d = Descriptors
    OBVIOUS
  <2>. HIDE DEF d
  <2>4. link' \in LinkType /\ link'.reading = TRUE /\ link'.read = d
    <3>1. CASE link' = [link EXCEPT !.due = FALSE, !.reading = TRUE, !.read = d]
      BY <1>0, <2>2, <3>1 DEF LinkType
    <3>2. CASE /\ link.notices > 0
               /\ link' = [link EXCEPT !.notices = link.notices - 1, !.reading = TRUE, !.read = d]
      <4>. DEFINE n == link.notices - 1
      <4>1. n \in Nat /\ link' = [link EXCEPT !.notices = n, !.reading = TRUE, !.read = d]
        BY <1>0, <3>2 DEF LinkType
      <4>. HIDE DEF n
      <4>. QED
        BY <1>0, <2>2, <4>1 DEF LinkType
    <3>. QED
      BY <2>1, <3>1, <3>2
  <2>5. Told'
    BY <2>1, <2>3, <2>4, SameDescriptors DEF Told
  <2>. QED
    BY <1>0, <2>1, <2>4, <2>5, OutsideStep
<1>4. CASE SendInventory
  <2>. DEFINE sent == [revision |-> revision, printers |-> link.read]
  <2>1. /\ link.open /\ link.reading
        /\ \/ link' = [link EXCEPT !.reading = FALSE, !.read = {}, !.server = sent]
           \/ link' = [Closed EXCEPT !.refused = TRUE]
        /\ UNCHANGED <<state, disk, resolver, spoolers, revision, mutation, scans, world>>
    BY <1>4 DEF SendInventory
  <2>2. CASE link' = [link EXCEPT !.reading = FALSE, !.read = {}, !.server = sent]
    <3>1. sent \in [revision : Nat, printers : SUBSET Descriptor]
      BY <1>0 DEF LinkType
    <3>2. sent = [revision |-> revision, printers |-> link.read]
      OBVIOUS
    <3>. HIDE DEF sent
    <3>3. /\ link' \in LinkType /\ link'.due = link.due /\ link'.notices = link.notices
          /\ link'.reading = FALSE /\ link'.server = sent
      BY <1>0, <2>2, <3>1 DEF LinkType
    <3>4. Published' <=> Published
      BY <2>1 DEF Published, Resolving, Registering, Forgetting
    <3>5. Told'
      BY <1>0, <2>1, <3>2, <3>3, <3>4, SameDescriptors DEF Told
    <3>. QED
      BY <1>0, <2>1, <3>3, <3>5, OutsideStep
  <2>3. CASE link' = [Closed EXCEPT !.refused = TRUE]
    <3>1. link' \in LinkType /\ link'.open = FALSE
      BY <2>3, ClosedType
    <3>2. Told'
      BY <3>1 DEF Told
    <3>. QED
      BY <1>0, <2>1, <3>1, <3>2, OutsideStep
  <2>. QED
    BY <2>1, <2>2, <2>3
<1>. QED
  BY <1>1, <1>2, <1>3, <1>4

LEMMA ChangeQueueStep ==
  ASSUME Invariant, NEW q \in Queues, NEW uri \in Uris \cup {"none"}, ChangeQueue(q, uri)
  PROVE  Invariant'
<1>. DEFINE w == Changed
<1>1. /\ world' = [w EXCEPT !.uri[q] = uri]
      /\ UNCHANGED <<state, disk, resolver, spoolers, revision, mutation, scans, link>>
  BY DEF ChangeQueue
<1>2. world \in WorldType /\ link \in LinkType /\ Told
  BY DEF Invariant, Typed
<1>3. w \in WorldType /\ w.removed = world.removed /\ w.used = world.used
  BY <1>2, CommandedType
<1>. HIDE DEF w
<1>4. world' \in WorldType /\ world'.removed = world.removed /\ world'.used = world.used
  <2>. DEFINE u == [w.uri EXCEPT ![q] = uri]
  <2>1. u \in [Queues -> Uris \cup {"none"}] /\ world' = [w EXCEPT !.uri = u]
    BY <1>1, <1>3 DEF WorldType
  <2>. HIDE DEF u
  <2>. QED
    BY <1>3, <2>1 DEF WorldType
<1>5. Published' <=> Published
  BY <1>1 DEF Published, Resolving, Registering, Forgetting
<1>6. Told'
  BY <1>1, <1>2, <1>4, <1>5, ToldKept
<1>. QED
  BY <1>1, <1>2, <1>4, <1>6, OutsideStep

LEMMA IdleScans ==
  /\ Idle \in [Scans -> [running : BOOLEAN, printers : Seq(Printer)]]
  /\ \A s \in Scans : PrintersOK(Idle[s].printers) /\ Range(Idle[s].printers) = {}
<1>. DEFINE e == << >>
            r == [running |-> FALSE, printers |-> e]
<1>1. e \in Seq(Printer) /\ Len(e) = 0 /\ Range(e) = {}
  BY DEF Range
<1>2. Idle = [s \in Scans |-> r]
  BY DEF Idle
<1>. HIDE DEF e
<1>3. r \in [running : BOOLEAN, printers : Seq(Printer)] /\ r.printers = e
  BY <1>1
<1>. HIDE DEF r
<1>4. PrintersOK(e)
  BY <1>1 DEF PrintersOK
<1>. QED
  BY <1>1, <1>2, <1>3, <1>4

\* A start from a stored catalog, whatever ran before.
Starting ==
  /\ CatalogOK(state) /\ disk = state
  /\ \A p \in Range(state.printers) : p.id[1] = "made" => p.id[2] \in world.used \cup {"old"}
  /\ world \in WorldType /\ resolver = Refs
  /\ spoolers = {p.id : p \in {a \in Active(state) : a.via = "virtual"}}
  /\ revision = 1 /\ mutation = Free /\ scans = Idle /\ link = Closed

LEMMA StartOK == Starting => Invariant
<1>. SUFFICES ASSUME Starting PROVE Invariant
  OBVIOUS
<1>. DEFINE all == Range(state.printers)
            snapshots == UNION {Range(scans[s].printers) : s \in Scans}
<1>0. /\ CatalogOK(state) /\ disk = state
      /\ \A p \in all : p.id[1] = "made" => p.id[2] \in world.used \cup {"old"}
      /\ world \in WorldType /\ resolver = Refs
      /\ spoolers = {p.id : p \in {a \in Active(state) : a.via = "virtual"}}
      /\ revision = 1 /\ mutation = Free /\ scans = Idle /\ link = Closed
  BY DEF Starting
<1>1. /\ Free \in MutationType /\ CatalogOK(Free.next) /\ Range(Free.next.printers) = {}
      /\ Free.todo = <<>> /\ Free.op = "none"
  BY FreeOK
<1>2. /\ scans \in [Scans -> [running : BOOLEAN, printers : Seq(Printer)]]
      /\ \A s \in Scans : PrintersOK(scans[s].printers) /\ Range(scans[s].printers) = {}
  BY <1>0, IdleScans
<1>3. Typed
  BY <1>0, <1>1, <1>2, ClosedType DEF Typed
<1>4. snapshots = {} /\ \A p, q \in all : p.id = q.id => p = q
  <2>1. \A p, q \in all : p.id = q.id => p = q
    BY <1>0, CatalogElements
  <2>2. snapshots = {}
    BY <1>2
  <2>. QED
    BY <2>1, <2>2
<1>. HIDE DEF snapshots
<1>5. Seen = all
  BY <1>0, <1>1, <1>4 DEF Seen, snapshots
<1>6. Identified
  BY <1>0, <1>4, <1>5 DEF Identified
<1>7. Copies
  BY <1>0 DEF Copies
<1>8. ~Published
  BY <1>0, <1>1 DEF Published, Resolving, Registering, Forgetting
<1>9. Listed
  <2>1. \A p \in all : Expected(p, {})
    BY <1>0 DEF Expected, Active, IsActive
  <2>2. \A p \in all \cup snapshots : Expected(p, {})
    BY <1>4, <2>1
  <2>. QED
    BY <1>0, <1>1, <1>8, <2>2 DEF Listed, snapshots
<1>10. Told
  BY <1>0, ClosedType DEF Told
<1>. QED
  BY <1>3, <1>6, <1>7, <1>9, <1>10 DEF Invariant

LEMMA StartAgain == Starting' => Invariant'
BY StartOK, PTL

LEMMA RestartStep ==
  ASSUME Invariant, Restart
  PROVE  Invariant'
<1>1. /\ world' = Changed /\ mutation' = Free /\ scans' = Idle /\ link' = Closed
      /\ disk' = disk /\ state' = disk /\ resolver' = {Reference(p) : p \in Active(disk)}
      /\ spoolers' = {p.id : p \in {a \in Active(disk) : a.via = "virtual"}} /\ revision' = 1
  BY DEF Restart, Loaded
<1>2. CatalogOK(disk) /\ world \in WorldType /\ Identified
  BY DEF Invariant, Typed
<1>3. world' \in WorldType /\ world'.used = world.used
  BY <1>1, <1>2, CommandedType
<1>4. \A p \in Range(disk.printers) : p.id[1] = "made" => p.id[2] \in world.used \cup {"old"}
  BY <1>2 DEF Identified, Seen
<1>5. Active(state)' = Active(disk) /\ Refs' = {Reference(p) : p \in Active(disk)}
  BY <1>1 DEF Refs, Active
<1>6. Starting'
  BY <1>1, <1>2, <1>3, <1>4, <1>5 DEF Starting
<1>. QED
  BY <1>6, StartAgain

\* A row of an older version becomes the printer that discovery would make now.
LEMMA MigratedOK ==
  ASSUME NEW o, ObservationOK(o)
  PROVE  PrinterOK(Migrated(LegacyRow(o))) /\ Migrated(LegacyRow(o)).id = DiscoveredPrinterId(o)
<1>. DEFINE p == NewPrinter(DiscoveredPrinterId(o), o)
            profile == IF o.via = "virtual" THEN "absent" ELSE "none"
            a == [p EXCEPT !.mode = "absent", !.profile = profile]
            m == Migrated(a)
<1>1. PrinterOK(p) /\ p.id = DiscoveredPrinterId(o) /\ p.via = o.via
  BY NewPrinterOK
<1>2. /\ p.mode = IF o.via = "queue" THEN "driver" ELSE "raw"
      /\ p.profile = IF o.via = "virtual" THEN "receipt" ELSE "none"
  BY DEF NewPrinter
<1>3. LegacyRow(o) = a
  BY DEF LegacyRow
<1>4. p \in Printer
  BY <1>1 DEF PrinterOK
<1>. HIDE DEF p
<1>5. /\ a.mode = "absent" /\ a.profile = profile /\ a.id = p.id /\ a.via = p.via /\ a.addr = p.addr
      /\ a.fp = p.fp /\ a.providers = p.providers /\ a.enabled = p.enabled
      /\ a.online = p.online /\ a.offline = p.offline
      /\ DOMAIN a = {"id", "via", "addr", "fp", "providers", "enabled", "mode", "online",
                     "offline", "profile"}
      /\ a = [x \in DOMAIN a |-> a[x]]
  BY <1>4 DEF Printer
<1>. DEFINE mode == IF a.mode # "absent" THEN a.mode ELSE IF a.via = "queue" THEN "driver" ELSE "raw"
            kind == IF a.via # "virtual" \/ a.profile # "absent" THEN a.profile
                    ELSE IF mode = "driver" THEN "page" ELSE "receipt"
<1>6. m = [a EXCEPT !.mode = mode, !.profile = kind]
  BY DEF Migrated
<1>7. mode = p.mode /\ kind = p.profile
  BY <1>1, <1>2, <1>5
<1>. HIDE DEF a, mode, kind
<1>8. /\ m.mode = p.mode /\ m.profile = p.profile /\ m.id = p.id /\ m.via = p.via /\ m.addr = p.addr
      /\ m.fp = p.fp /\ m.providers = p.providers /\ m.enabled = p.enabled
      /\ m.online = p.online /\ m.offline = p.offline
  BY <1>5, <1>6, <1>7
<1>9. m \in Printer
  BY <1>4, <1>5, <1>6, <1>7 DEF Printer
<1>. HIDE DEF m
<1>10. PrinterOK(m)
  BY <1>1, <1>8, <1>9 DEF PrinterOK, Evidence, ValidReference, Reference
<1>. QED
  BY <1>1, <1>3, <1>8, <1>10 DEF m

LEMMA OldObservations ==
  /\ ObservationOK(VirtualObservation(OldPrinter("old")))
  /\ DiscoveredPrinterId(VirtualObservation(OldPrinter("old"))) = Made("old")
  /\ ObservationOK(ManualObservation(OldPrinter("host"), TRUE))
  /\ DiscoveredPrinterId(ManualObservation(OldPrinter("host"), TRUE)) = Made("old")
<1>. DEFINE id == Made("old")
            v == <<"virtual", "old">>
            n == <<"manual-network", "old">>
            f == FingerprintForConnection("network", "host")
            a == VirtualObservation(OldPrinter("old"))
            b == ManualObservation(OldPrinter("host"), TRUE)
<1>1. id \in Ids /\ id[1] = "made" /\ id[2] = "old" /\ "old" \in Names /\ "host" \in Names /\ id # NoId
  BY DEF Made, Ids, Names, NoId
<1>2. v \in Sources /\ v[1] = "virtual" /\ n \in Sources /\ n[1] = "manual-network"
  BY <1>1 DEF Sources
<1>3. f \in Fingerprint /\ f.uri = "none" /\ f.queue = 0
  BY NoFingerprintType DEF FingerprintForConnection, NoFingerprint, Fingerprint
<1>4. NoFingerprint \in Fingerprint /\ NoFingerprint.uri = "none" /\ NoFingerprint.queue = 0
      /\ NoFingerprint.host = "none"
  BY NoFingerprintType DEF NoFingerprint
<1>5. a = [id |-> id, via |-> "virtual", addr |-> "old", online |-> ~FALSE, fp |-> NoFingerprint,
           providers |-> {v}]
  BY <1>1 DEF VirtualObservation, OldPrinter
<1>6. b = [id |-> id, via |-> "network", addr |-> "host", online |-> TRUE, fp |-> f,
           providers |-> {n}]
  BY <1>1 DEF ManualObservation, OldPrinter
<1>. HIDE DEF id, v, n, f, a, b
<1>7. a \in Observation /\ a.id = id /\ a.via = "virtual" /\ a.fp = NoFingerprint /\ a.providers = {v}
  BY <1>1, <1>2, <1>4, <1>5 DEF Observation, Vias
<1>8. b \in Observation /\ b.id = id /\ b.via = "network" /\ b.fp = f /\ b.providers = {n}
  BY <1>1, <1>2, <1>3, <1>6 DEF Observation, Vias
<1>9. ObservationOK(a)
  BY <1>1, <1>2, <1>4, <1>7 DEF ObservationOK, Evidence, Source
<1>10. ObservationOK(b)
  BY <1>1, <1>2, <1>3, <1>8 DEF ObservationOK, Evidence, Source
<1>11. DiscoveredPrinterId(a) = id /\ DiscoveredPrinterId(b) = id
  BY <1>1, <1>7, <1>8 DEF DiscoveredPrinterId
<1>. QED
  BY <1>9, <1>10, <1>11 DEF a, b, id

LEMMA InitOK == Init => Invariant
<1>. SUFFICES ASSUME Init PROVE Invariant
  OBVIOUS
<1>. DEFINE start(rows) == [i \in DOMAIN rows |-> Migrated(rows[i])]
<1>1. PICK rows \in StoredCatalogs : state = [printers |-> start(rows), suppressed |-> {}]
  BY DEF Init
<1>2. /\ disk = state /\ resolver = Refs
      /\ spoolers = {p.id : p \in {a \in Active(state) : a.via = "virtual"}}
      /\ revision = 1 /\ mutation = Free /\ scans = Idle /\ link = Closed
  BY DEF Init, Refs
<1>3. PICK uri \in Installed :
        world = [uri |-> uri, removed |-> {}, used |-> {}, commands |-> 0, changes |-> 0]
  BY DEF Init
<1>4. world \in WorldType /\ world.used = {}
  BY <1>3, InventoryAssumption DEF WorldType
<1>. DEFINE ps == start(rows)
\* The catalog is empty, or it is one row of an older version.
<1>5. \/ rows = <<>>
      \/ \E o : /\ rows = <<LegacyRow(o)>> /\ ObservationOK(o)
                /\ DiscoveredPrinterId(o)[1] = "made" => DiscoveredPrinterId(o)[2] = "old"
  <2>. DEFINE a == VirtualObservation(OldPrinter("old"))
              b == ManualObservation(OldPrinter("host"), TRUE)
              Row(o) == /\ rows = <<LegacyRow(o)>> /\ ObservationOK(o)
                        /\ DiscoveredPrinterId(o)[1] = "made" => DiscoveredPrinterId(o)[2] = "old"
  <2>0. \/ rows = <<>> \/ rows = <<LegacyRow(a)>> \/ rows = <<LegacyRow(b)>>
        \/ \E q \in Queues, u \in Uris : rows = <<LegacyRow(QueueObservation(q, u))>>
    <3>. DEFINE A == <<LegacyRow(a)>>
                B == <<LegacyRow(b)>>
                Q == {<<LegacyRow(QueueObservation(q, u))>> : q \in Queues, u \in Uris}
    <3>1. StoredCatalogs = {<<>>, A, B} \cup Q
      BY DEF StoredCatalogs
    <3>2. rows \in Q => \E q \in Queues, u \in Uris : rows = <<LegacyRow(QueueObservation(q, u))>>
      OBVIOUS
    <3>. HIDE DEF A, B, Q
    <3>3. rows = <<>> \/ rows = A \/ rows = B \/ rows \in Q
      BY <1>1, <3>1
    <3>4. (rows = A => rows = <<LegacyRow(a)>>) /\ (rows = B => rows = <<LegacyRow(b)>>)
      BY DEF A, B
    <3>. QED
      BY <3>2, <3>3, <3>4
  <2>1. ASSUME rows = <<LegacyRow(a)>> PROVE \E o : Row(o)
    <3>1. Row(a)
      BY <2>1, OldObservations DEF Made
    <3>. HIDE DEF a, Row
    <3>. QED
      BY <3>1
  <2>2. ASSUME rows = <<LegacyRow(b)>> PROVE \E o : Row(o)
    <3>1. ObservationOK(b) /\ DiscoveredPrinterId(b) = Made("old")
      BY OldObservations, Zenon
    <3>2. Made("old")[2] = "old"
      BY DEF Made
    <3>3. Row(b)
      BY <2>2, <3>1, <3>2, Zenon
    <3>. HIDE DEF b, Row
    <3>. QED
      BY <3>3
  <2>3. ASSUME NEW q \in Queues, NEW u \in Uris, rows = <<LegacyRow(QueueObservation(q, u))>>
        PROVE  \E o : Row(o)
    <3>. DEFINE o == QueueObservation(q, u)
    <3>1. u # "none" /\ u \in Uris \cup {"none"}
      BY InventoryAssumption
    <3>2. ObservationOK(o) /\ o.via = "queue"
      BY <3>1, QueueObservationOK
    <3>3. rows = <<LegacyRow(o)>>
      BY <2>3
    <3>. HIDE DEF o
    <3>4. DiscoveredPrinterId(o)[1] = "uri"
      BY <3>2, DiscoveredIdProperties
    <3>. QED
      BY <3>2, <3>3, <3>4
  <2>. HIDE DEF a, b
  <2>. QED
    BY <2>0, <2>1, <2>2, <2>3
<1>6. /\ ps \in Seq(Printer)
      /\ \A i \in 1 .. Len(ps) : i = 1 /\ PrinterOK(ps[i])
                                   /\ (ps[i].id[1] = "made" => ps[i].id[2] = "old")
  <2>1. CASE rows = <<>>
    <3>1. ps = <<>>
      BY <2>1
    <3>. HIDE DEF ps
    <3>. QED
      BY <3>1
  <2>2. ASSUME NEW o, rows = <<LegacyRow(o)>>, ObservationOK(o),
               DiscoveredPrinterId(o)[1] = "made" => DiscoveredPrinterId(o)[2] = "old"
        PROVE  /\ ps \in Seq(Printer)
               /\ \A i \in 1 .. Len(ps) : i = 1 /\ PrinterOK(ps[i])
                                            /\ (ps[i].id[1] = "made" => ps[i].id[2] = "old")
    <3>. DEFINE a == LegacyRow(o)
                m == Migrated(a)
    <3>1. PrinterOK(m) /\ m.id = DiscoveredPrinterId(o)
      BY <2>2, MigratedOK
    <3>2. rows = <<a>>
      BY <2>2
    <3>. HIDE DEF a
    <3>3. DOMAIN rows = {1} /\ rows[1] = a
      BY <3>2
    <3>4. ps = [i \in {1} |-> m]
      BY <3>3
    <3>5. m \in Printer
      BY <3>1 DEF PrinterOK
    <3>. HIDE DEF ps, m
    <3>6. ps = [i \in 1 .. 1 |-> m]
      <4>1. 1 .. 1 = {1}
        OBVIOUS
      <4>. QED
        BY <3>4, <4>1
    <3>7. ps \in [1 .. 1 -> Printer]
      BY <3>5, <3>6
    <3>8. ps \in Seq(Printer) /\ Len(ps) = 1 /\ ps[1] = m
      BY <3>6, <3>7
    <3>. QED
      BY <2>2, <3>1, <3>8
  <2>. QED
    BY <1>5, <2>1, <2>2
<1>. HIDE DEF ps
<1>7. state = [printers |-> ps, suppressed |-> {}]
  BY <1>1 DEF ps
<1>8. PrintersOK(ps) /\ UniqueIds(ps)
  BY <1>6 DEF PrintersOK, UniqueIds
<1>9. CatalogOK(state) /\ state.printers = ps
  BY <1>6, <1>7, <1>8 DEF CatalogOK
<1>10. \A p \in Range(state.printers) : p.id[1] = "made" => p.id[2] \in world.used \cup {"old"}
  BY <1>6, <1>9, ElementsOfSeq
<1>11. Starting
  BY <1>2, <1>4, <1>9, <1>10 DEF Starting
<1>. QED
  BY <1>11, StartOK

-----------------------------------------------------------------------------
(* The theorems.                                                           *)

LEMMA NextOK == Invariant /\ [Next]_vars => Invariant'
<1>. SUFFICES ASSUME Invariant, [Next]_vars PROVE Invariant'
  OBVIOUS
<1>1. CASE Command
  BY <1>1, ConfigureStep, AddManualStep, CreateVirtualStep, UpdateVirtualStep,
     RemovePrinterStep, StartScanStep DEF Command
<1>2. CASE Progress
  BY <1>2, FinishScanStep, PersistStep, PublishStep, RegisterStep, ResolveStep, ForgetStep,
     SessionStep DEF Progress
<1>3. CASE Environment
  BY <1>3, SessionStep, RestartStep, ChangeQueueStep DEF Environment
<1>4. CASE UNCHANGED vars
  <2>1. /\ UNCHANGED <<state, disk, resolver, spoolers, revision, mutation, scans, link>>
        /\ UNCHANGED world
    BY <1>4 DEF vars
  <2>2. world \in WorldType /\ link \in LinkType /\ Told
    BY DEF Invariant, Typed
  <2>3. Told'
    <3>1. Published' <=> Published
      BY <2>1 DEF Published, Resolving, Registering, Forgetting
    <3>. QED
      BY <2>1, <2>2, <3>1, ToldKept
  <2>. QED
    BY <2>1, <2>2, <2>3, OutsideStep
<1>. QED
  BY <1>1, <1>2, <1>3, <1>4 DEF Next

\* The inductive invariant holds: whatever scans, commands, failing writes and restarts
\* interleave, every copy of the catalog is where the progress of the command puts it.
THEOREM InventoryInvariant == Spec => []Invariant
<1>1. Init => Invariant
  BY InitOK
<1>2. Invariant /\ [Next]_vars => Invariant'
  BY NextOK
<1>. QED
  BY <1>1, <1>2, PTL DEF Spec

\* PrinterCatalog::load accepts what the commands store.
LEMMA StoredIsLoadable ==
  ASSUME NEW c, CatalogOK(c)
  PROVE  Loadable(c)
<1>1. /\ DOMAIN c.printers = 1 .. Len(c.printers) /\ UniqueIds(c.printers)
      /\ \A p \in Range(c.printers) : PrinterOK(p)
  BY CatalogElements DEF CatalogOK
<1>. QED
  BY <1>1 DEF Loadable, UniqueIds, PrinterOK

\* Between two commands the stored catalog is the current one, load would accept it, and
\* the agent prints to exactly its active printers: also when a write failed, and when
\* scans that started before other commands finish after them.
THEOREM CopiesTheorem == Spec => []CopiesAgree
<1>1. Invariant => CopiesAgree
  <2>. SUFFICES ASSUME Invariant, mutation = Free
                PROVE  disk = state /\ Loadable(disk) /\ resolver = Refs
    BY DEF CopiesAgree, Refs
  <2>1. disk = state /\ resolver = Refs /\ CatalogOK(disk)
    BY WhenFree DEF Invariant, Typed
  <2>. QED
    BY <2>1, StoredIsLoadable
<1>. QED
  BY <1>1, InventoryInvariant, PTL

\* A removed system queue does not come back under its identifier.
THEOREM SuppressedTheorem == Spec => []SuppressedStaysOut
<1>1. Invariant => SuppressedStaysOut
  <2>. SUFFICES ASSUME Invariant PROVE SuppressedStaysOut
    OBVIOUS
  <2>1. \A p \in Range(state.printers) : p.id \notin state.suppressed
    BY CatalogElements DEF Invariant, Typed
  <2>. QED
    BY <2>1 DEF SuppressedStaysOut
<1>. QED
  BY <1>1, InventoryInvariant, PTL

\* The printers can be listed between two commands: the virtual spooler knows each active
\* virtual printer, except those that a scan brought back after their removal.
THEOREM ListingTheorem == Spec => []ListingWorks
<1>1. Invariant => ListingWorks
  <2>. SUFFICES ASSUME Invariant, mutation = Free, NEW p \in Active(state), p.via = "virtual"
                PROVE  p.id \in spoolers \cup world.removed
    BY DEF ListingWorks
  <2>1. ~Published
    BY WhenFree DEF Invariant
  <2>2. p \in Range(state.printers) /\ "virtual" \in Features
    BY DEF Active, IsActive
  <2>. QED
    BY <2>1, <2>2 DEF Invariant, Listed, Expected
<1>. QED
  BY <1>1, InventoryInvariant, PTL

\* When nothing is under way the server has the current inventory under the current
\* revision: no notice that the full channel dropped is missed.
THEOREM CurrentTheorem == Spec => []ServerIsCurrent
<1>1. Invariant => ServerIsCurrent
  <2>. SUFFICES ASSUME Invariant, link.open, ~link.due, ~link.reading, link.notices = 0,
                       mutation = Free,
                       world.removed \cap {p.id : p \in Range(state.printers)} = {}
                PROVE  link.server = [revision |-> revision, printers |-> Descriptors]
    BY DEF ServerIsCurrent
  <2>1. ~Published
    BY WhenFree DEF Invariant
  <2>2. IdsOf(state.printers) = {p.id : p \in Range(state.printers)}
    BY CatalogElements DEF Invariant, Typed
  <2>. QED
    BY <2>1, <2>2 DEF Invariant, Told
<1>. QED
  BY <1>1, InventoryInvariant, PTL

\* Only configure changes what the user chose for a printer that stays in the catalog: a
\* scan that started before the change, and a restart in the middle of it, do not.
THEOREM ChoicesTheorem == Spec => ScanKeepsChoices
<1>. DEFINE ChoicesStay == \A p \in Range(state.printers), q \in Range(state'.printers) :
                       p.id = q.id /\ mutation.op # "configure"
                         => <<p.enabled, p.mode, p.profile>> = <<q.enabled, q.mode, q.profile>>
<1>1. Invariant /\ [Next]_vars => [ChoicesStay]_vars
  <2>. SUFFICES ASSUME Invariant, Next PROVE ChoicesStay
    OBVIOUS
  <2>0. \A p, q \in Range(state.printers) : p.id = q.id => p = q
    BY CatalogElements DEF Invariant, Typed
  <2>1. CASE state' = state
    BY <2>0, <2>1
  <2>2. CASE Publish
    <3>1. state' = mutation.next /\ mutation.todo # <<>> /\ Step = "publish"
      BY <2>2 DEF Publish
    <3>2. Prepared
      BY <3>1, WhenPublishing DEF Invariant
    <3>. QED
      BY <3>1, <3>2 DEF Prepared, PreparedBy
  <2>3. CASE Restart
    <3>1. state' = disk
      BY <2>3 DEF Restart, Loaded
    <3>2. disk = state \/ (disk = mutation.next /\ Prepared)
      BY DEF Invariant, Copies
    <3>. QED
      BY <2>0, <3>1, <3>2 DEF Prepared, PreparedBy
  <2>4. Next => state' = state \/ Publish \/ Restart
    BY DEF Next, Command, Progress, Environment, Configure, AddManual, CreateVirtual,
       UpdateVirtual, RemovePrinter, StartScan, FinishScan, Begin, Persist, Register, Resolve,
       Forget, ReadDescriptors, SendInventory, OpenSession, RequestInventory, ChangeQueue
  <2>. QED
    BY <2>1, <2>2, <2>3, <2>4
<1>. HIDE DEF ChoicesStay
<1>2. Spec => [][ChoicesStay]_vars
  BY <1>1, InventoryInvariant, PTL DEF Spec
<1>. QED
  BY <1>2 DEF ScanKeepsChoices, ChoicesStay
=============================================================================
