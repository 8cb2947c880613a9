--------------------------- MODULE ServicesProofs ---------------------------
(***************************************************************************)
(* Proofs about MCServices: what the configuration store and the storage   *)
(* migration keep on disk, and what the event hub promises a page, in      *)
(* every behaviour of the services, whatever the sizes of their constants. *)
(*                                                                         *)
(* What the components select from their sequences is in SequenceLemmas.   *)
(***************************************************************************)
EXTENDS MCServices, SequenceLemmas

-----------------------------------------------------------------------------
(* The parts of MCServices.                                                *)

\* A step of the services is a step of the part at work.
LEMMA PartSteps ==
    [Next]_vars =>
      /\ UNCHANGED part
      /\ part = "storage" => Storage!Next \/ UNCHANGED storageVars
      /\ part = "store" => Store!Next \/ UNCHANGED storeVars
      /\ part # "storage" => UNCHANGED storageVars
      /\ part # "store" => UNCHANGED storeVars
  BY DEF Next, vars

-----------------------------------------------------------------------------
(* The configuration store.                                                *)

\* What the files hold, and what an operation under way holds of them.
Items == [id : Store!AllIds, src : Store!AnySrc]
Distinct(items) == \A i, k \in DOMAIN items : items[i].id = items[k].id => i = k
Stores == {s \in [active : Store!AllIds \cup {None}, items : Seq(Items)] : Distinct(s.items)}
Ops == [kind : {"none", "save", "profile", "webdav", "import", "status"},
        pc : {"idle", "store", "lock", "write", "undo", "backup", "restore", "discard"},
        snap : Store!Configs, next : Stores, prev : Stores, wcfg : BOOLEAN, ok : BOOLEAN]
StoreTypes ==
    /\ cfg \in Store!Configs /\ draft \in Store!Configs \cup {None}
    /\ bak \in Store!Configs \cup {None} /\ profiles \in Stores
    /\ lock \in Store!Actors \cup {None} /\ shown \in [Callers -> Store!Configs]
    /\ op \in [Store!Actors -> Ops] /\ tick \in Nat /\ edits \in 0 .. MaxEdits
    /\ before \in [Store!Actors -> [cfg : Store!Configs, profiles : Stores]]
    /\ spoilt \in BOOLEAN /\ met \subseteq Store!Actors
Begun == {"store", "lock", "write", "backup", "discard"}
OpsFit ==
    \A a \in Store!Actors :
      /\ op[a].pc \in Begun => op[a].ok
      /\ op[a].pc = "undo" => op[a].kind = "profile" /\ ~op[a].ok
      /\ op[a].pc = "lock" => op[a].kind # "status"
      /\ op[a].pc = "discard" => op[a].kind = "save"
      /\ op[a].pc \in {"restore", "backup"} => op[a].kind = "import"
      /\ op[a].pc = "store" => op[a].kind \in {"profile", "import"}
      /\ op[a].pc = "write" => lock = a
Alone ==
    \A a, b \in Store!Actors :
       op[a].pc # "idle" /\ a \notin met /\ b # a => op[b].pc = "idle"
Planned ==
    \A a \in Store!Actors :
       op[a].kind = "profile" =>
         /\ op[a].prev = Store!Ensured(before[a].profiles)
         /\ op[a].wcfg => op[a].snap.src = Store!ActiveSources(op[a].next)
Tracked ==
    \A a \in Store!Actors : a \notin met /\ op[a].pc # "idle" =>
       /\ op[a].kind = "profile" =>
            /\ cfg = before[a].cfg
            /\ op[a].pc = "store" => profiles = before[a].profiles
            /\ op[a].pc \in {"lock", "write"} => profiles = op[a].next
       /\ op[a].pc = "backup" => cfg = before[a].cfg /\ profiles = before[a].profiles
Noted ==
    op[Probe].kind = "status" /\ op[Probe].pc = "write" /\ ~spoilt =>
       Store!Same(cfg, op[Probe].snap)
LegacyHeld ==
    /\ bak = None => \A a \in Store!Actors : before[a].cfg.schema = cfg.schema
    /\ bak = None /\ cfg.schema = "v1" => \A a \in Store!Actors : op[a].pc # "write"
    /\ bak # None => bak.schema = "v1"
StoreInv == /\ StoreTypes /\ OpsFit /\ Alone /\ Planned /\ Tracked /\ Noted /\ LegacyHeld

LEMMA StoreNames ==
    /\ MaxEdits \in Nat /\ MaxOps \in Nat
    /\ None \notin Store!AllIds /\ None \notin Store!Actors
    /\ Default \in Store!AllIds /\ Recent \in Store!AllIds /\ Ids \subseteq Store!AllIds
    /\ NoSrc \in Store!AnySrc /\ Probe \in Store!Actors /\ Callers \subseteq Store!Actors
    /\ Default # None /\ None \notin Store!Configs
  BY StoreAssumption
  DEF StoreAssumption, Store!BoundsAssumption, Store!NamesAssumption, Store!FilesAssumption,
      Store!AllIds, Store!Actors, Store!AnySrc

LEMMA StoreParts ==
    ASSUME NEW s \in Stores
    PROVE  /\ s.active \in Store!AllIds \cup {None} /\ s.items \in Seq(Items) /\ Distinct(s.items)
           /\ s = [active |-> s.active, items |-> s.items]
           /\ Len(s.items) \in Nat /\ DOMAIN s.items = 1 .. Len(s.items)
           /\ \A i \in 1 .. Len(s.items) : s.items[i] \in Items
           /\ s.items # <<>> => 1 \in 1 .. Len(s.items) /\ s.items[1] \in Items
           /\ \A a \in Store!AllIds \cup {None} : [s EXCEPT !.active = a] =
                                                  [active |-> a, items |-> s.items]
<1>1. s \in [active : Store!AllIds \cup {None}, items : Seq(Items)] /\ Distinct(s.items)
  BY DEF Stores
<1>2. s.items \in Seq(Items)
  BY <1>1
<1>3. /\ Len(s.items) \in Nat /\ DOMAIN s.items = 1 .. Len(s.items)
      /\ \A i \in 1 .. Len(s.items) : s.items[i] \in Items
  BY <1>2
<1>4. s.items # <<>> => Len(s.items) # 0
  BY <1>2
<1> QED
  BY <1>1, <1>2, <1>3, <1>4

LEMMA StoreIs ==
    ASSUME NEW a \in Store!AllIds \cup {None}, NEW items \in Seq(Items), Distinct(items)
    PROVE  [active |-> a, items |-> items] \in Stores
  BY DEF Stores

LEMMA ItemParts ==
    ASSUME NEW it \in Items
    PROVE  it.id \in Store!AllIds /\ it.src \in Store!AnySrc /\ it.id # None
  BY StoreNames DEF Items

LEMMA OneItem ==
    ASSUME NEW id \in Store!AllIds, NEW src \in Store!AnySrc
    PROVE  /\ <<[id |-> id, src |-> src]>> \in Seq(Items)
           /\ Distinct(<<[id |-> id, src |-> src]>>)
           /\ <<[id |-> id, src |-> src]>> # <<>>
<1> DEFINE it == [id |-> id, src |-> src]
<1>1. it \in Items
  BY DEF Items
<1> HIDE DEF it
<1>2. <<it>> \in Seq(Items) /\ DOMAIN <<it>> = {1} /\ <<it>> # <<>>
  BY <1>1
<1>3. Distinct(<<it>>)
  BY <1>2 DEF Distinct
<1> QED
  BY <1>2, <1>3 DEF it

LEMMA BlankIs ==
    /\ Store!Blank \in Stores /\ Store!Empty \in Stores /\ Store!Blank.items # <<>>
    /\ Store!Blank.active # None
<1>1. Store!Blank \in Stores /\ Store!Blank.items # <<>> /\ Store!Blank.active # None
  BY StoreNames, OneItem, StoreIs DEF Store!Blank
<1>2. <<>> \in Seq(Items) /\ Distinct(<<>>)
  BY DEF Distinct
<1>3. Store!Empty \in Stores
  BY <1>2, StoreIs DEF Store!Empty
<1> QED
  BY <1>1, <1>3

\* An ensured store has a profile and an active one, and ensuring it again
\* changes nothing.
LEMMA EnsuredIs ==
    ASSUME NEW s \in Stores
    PROVE  /\ Store!Ensured(s) \in Stores /\ Store!Ensured(Store!Ensured(s)) = Store!Ensured(s)
           /\ Store!Ensured(s).items # <<>> /\ Store!Ensured(s).active # None
<1>1. CASE s.items = <<>>
  <2>1. Store!Ensured(s) = Store!Blank
    BY <1>1 DEF Store!Ensured
  <2> QED
    BY <2>1, BlankIs DEF Store!Ensured
<1>2. CASE s.items # <<>> /\ s.active = None
  <2> DEFINE t == [active |-> s.items[1].id, items |-> s.items]
  <2>1. s.items[1] \in Items /\ s.items[1].id \in Store!AllIds /\ s.items[1].id # None
    BY <1>2, StoreParts, ItemParts
  <2>2. Store!Ensured(s) = t
    BY <1>2, <2>1, StoreParts DEF Store!Ensured
  <2>3. t \in Stores
    BY <2>1, StoreParts, StoreIs
  <2>4. t.items # <<>> /\ t.active # None
    BY <1>2, <2>1
  <2> HIDE DEF t
  <2> QED
    BY <2>2, <2>3, <2>4 DEF Store!Ensured
<1>3. CASE s.items # <<>> /\ s.active # None
  BY <1>3 DEF Store!Ensured
<1> QED
  BY <1>1, <1>2, <1>3

\* The active sources are those of the item with the active identifier.
LEMMA ActiveIs ==
    ASSUME NEW s \in Stores, NEW i \in 1 .. Len(s.items), s.items[i].id = s.active
    PROVE  Store!ActiveSources(s) = s.items[i].src
<1> DEFINE k == CHOOSE k \in 1 .. Len(s.items) : s.items[k].id = s.active
<1>1. k \in 1 .. Len(s.items) /\ s.items[k].id = s.active
  OBVIOUS
<1>2. k = i
  <2>1. Distinct(s.items) /\ DOMAIN s.items = 1 .. Len(s.items)
    BY StoreParts
  <2> HIDE DEF k
  <2> QED
    BY <1>1, <2>1 DEF Distinct
<1>3. Store!Has(s, s.active)
  BY DEF Store!Has
<1>4. Store!ActiveSources(s) = s.items[k].src
  BY <1>3 DEF Store!ActiveSources
<1> QED
  BY <1>2, <1>4

\* Put leaves one item of every identifier, and that of id has the sources.
LEMMA PutIs ==
    ASSUME NEW items \in Seq(Items), Distinct(items), NEW id \in Store!AllIds,
           NEW src \in Store!AnySrc
    PROVE  /\ Store!Put(items, id, src) \in Seq(Items) /\ Distinct(Store!Put(items, id, src))
           /\ \E i \in 1 .. Len(Store!Put(items, id, src)) :
                 Store!Put(items, id, src)[i] = [id |-> id, src |-> src]
<1> DEFINE new == [id |-> id, src |-> src]
<1>0. Len(items) \in Nat /\ DOMAIN items = 1 .. Len(items)
      /\ (\A i \in 1 .. Len(items) : items[i] \in Items) /\ new \in Items
      /\ new.id = id
  <2>1. new \in Items
    BY DEF Items
  <2> QED
    BY <2>1
<1>1. CASE \E i \in 1 .. Len(items) : items[i].id = id
  <2> DEFINE put == [i \in 1 .. Len(items) |->
                       IF items[i].id = id THEN [items[i] EXCEPT !.src = src] ELSE items[i]]
  <2>1. Store!Put(items, id, src) = put
    BY <1>1 DEF Store!Put
  <2>2. \A i \in 1 .. Len(items) :
           /\ items[i].id = id => [items[i] EXCEPT !.src = src] = new
           /\ put[i] = (IF items[i].id = id THEN new ELSE items[i])
    BY <1>0 DEF Items
  <2>3. \A i \in 1 .. Len(items) : put[i] \in Items /\ put[i].id = items[i].id
    BY <1>0, <2>2
  <2>4. DOMAIN put = 1 .. Len(items)
    OBVIOUS
  <2> HIDE DEF put
  <2> HIDE DEF new
  <2>5. put \in [1 .. Len(items) -> Items]
    <3>1. put = [i \in 1 .. Len(items) |-> IF items[i].id = id THEN new ELSE items[i]]
      BY <2>2, <2>4 DEF put
    <3> QED
      BY <2>3, <2>4, <3>1
  <2>6. put \in Seq(Items) /\ Len(put) = Len(items)
    BY <1>0, <2>5
  <2>7. Distinct(put)
    BY <1>0, <2>3, <2>4 DEF Distinct
  <2>8. \E i \in 1 .. Len(put) : put[i] = new
    BY <1>1, <2>2, <2>6
  <2> QED
    BY <2>1, <2>6, <2>7, <2>8 DEF new
<1>2. CASE ~(\E i \in 1 .. Len(items) : items[i].id = id)
  <2> DEFINE put == Append(items, new)
  <2>1. Store!Put(items, id, src) = put
    BY <1>2 DEF Store!Put
  <2> HIDE DEF new
  <2>2. put \in Seq(Items) /\ Len(put) = Len(items) + 1 /\ put[Len(items) + 1] = new
        /\ DOMAIN put = 1 .. Len(items) + 1
        /\ \A i \in 1 .. Len(items) : put[i] = items[i]
    BY <1>0
  <2> HIDE DEF put
  <2>3. Distinct(put)
    <3> SUFFICES ASSUME NEW i \in 1 .. Len(items) + 1, NEW k \in 1 .. Len(items) + 1,
                        put[i].id = put[k].id
                 PROVE  i = k
      BY <2>2 DEF Distinct
    <3>1. CASE i \in 1 .. Len(items) /\ k \in 1 .. Len(items)
      BY <1>0, <2>2, <3>1 DEF Distinct
    <3>2. CASE i = Len(items) + 1 \/ k = Len(items) + 1
      BY <1>0, <1>2, <2>2, <3>2
    <3> QED
      BY <1>0, <3>1, <3>2
  <2>4. Len(put) \in 1 .. Len(put)
    BY <1>0, <2>2
  <2> QED
    BY <2>1, <2>2, <2>3, <2>4 DEF new
<1> QED
  BY <1>1, <1>2

LEMMA SourcesTyped ==
    ASSUME NEW s \in Stores
    PROVE  Store!ActiveSources(s) \in Store!AnySrc
<1>1. CASE Store!Has(s, s.active)
  <2>1. PICK i \in 1 .. Len(s.items) : s.items[i].id = s.active
    BY <1>1 DEF Store!Has
  <2> QED
    BY <2>1, ActiveIs, StoreParts, ItemParts
<1>2. CASE ~Store!Has(s, s.active)
  BY <1>2, StoreParts, ItemParts, StoreNames DEF Store!ActiveSources
<1> QED
  BY <1>1, <1>2

LEMMA WithoutBlankIs ==
    ASSUME NEW s \in Stores
    PROVE  Store!WithoutBlank(s) \in Seq(Items) /\ Distinct(Store!WithoutBlank(s))
<1>1. <<>> \in Seq(Items) /\ Distinct(<<>>)
  BY DEF Distinct
<1> QED
  BY <1>1, StoreParts DEF Store!WithoutBlank

\* A store whose active profile was just put has the sources of it.
LEMMA PutActive ==
    ASSUME NEW items \in Seq(Items), Distinct(items), NEW id \in Store!AllIds,
           NEW src \in Store!AnySrc
    PROVE  /\ [active |-> id, items |-> Store!Put(items, id, src)] \in Stores
           /\ Store!ActiveSources([active |-> id, items |-> Store!Put(items, id, src)]) = src
<1> DEFINE put == Store!Put(items, id, src)
           s == [active |-> id, items |-> put]
<1>1. put \in Seq(Items) /\ Distinct(put)
  BY PutIs
<1>2. PICK i \in 1 .. Len(put) : put[i] = [id |-> id, src |-> src]
  BY PutIs
<1> HIDE DEF put
<1>3. s \in Stores
  BY <1>1, StoreIs
<1>4. i \in 1 .. Len(s.items) /\ s.items[i].id = s.active /\ s.items[i].src = src
  BY <1>2
<1> HIDE DEF s
<1>5. Store!ActiveSources(s) = src
  BY <1>3, <1>4, ActiveIs
<1> QED
  BY <1>3, <1>5 DEF s, put

LEMMA SavedIs ==
    ASSUME NEW s \in Stores, NEW id \in Store!AllIds, NEW src \in Store!AnySrc,
           NEW active \in BOOLEAN
    PROVE  /\ Store!Saved(s, id, src, active) \in Stores
           /\ active => Store!ActiveSources(Store!Saved(s, id, src, active)) = src
<1> DEFINE items == IF id = Default THEN s.items ELSE Store!WithoutBlank(s)
<1>1. items \in Seq(Items) /\ Distinct(items)
  BY StoreParts, WithoutBlankIs
<1> HIDE DEF items
<1>2. Store!Saved(s, id, src, active) =
        [active |-> IF active THEN id ELSE s.active, items |-> Store!Put(items, id, src)]
  BY DEF Store!Saved, items
<1>3. CASE active
  BY <1>1, <1>2, <1>3, PutActive
<1>4. CASE ~active
  <2>1. /\ Store!Put(items, id, src) \in Seq(Items) /\ Distinct(Store!Put(items, id, src))
        /\ s.active \in Store!AllIds \cup {None}
    BY <1>1, PutIs, StoreParts
  <2>2. [active |-> s.active, items |-> Store!Put(items, id, src)] \in Stores
    BY <2>1, StoreIs
  <2> QED
    BY <1>2, <1>4, <2>2
<1> QED
  BY <1>3, <1>4

LEMMA UpdatedIs ==
    ASSUME NEW s \in Stores, NEW id \in Store!AllIds, NEW src \in Store!AnySrc
    PROVE  /\ Store!Updated(s, id, src) \in Stores
           /\ Store!ActiveSources(Store!Updated(s, id, src)) = src
  BY WithoutBlankIs, PutActive DEF Store!Updated

LEMMA ChosenIs ==
    ASSUME NEW s \in Stores, NEW i \in 1 .. Len(s.items)
    PROVE  /\ [s EXCEPT !.active = s.items[i].id] \in Stores
           /\ Store!ActiveSources([s EXCEPT !.active = s.items[i].id]) = s.items[i].src
<1> DEFINE t == [active |-> s.items[i].id, items |-> s.items]
<1>1. s.items[i] \in Items /\ s.items[i].id \in Store!AllIds
  BY StoreParts, ItemParts
<1>2. t \in Stores /\ [s EXCEPT !.active = s.items[i].id] = t
  BY <1>1, StoreParts, StoreIs
<1>3. t.items = s.items /\ t.active = s.items[i].id
  OBVIOUS
<1> HIDE DEF t
<1> QED
  BY <1>2, <1>3, ActiveIs

\* Deleting keeps the order of the others, and so one item of every identifier.
LEMMA DeletedIs ==
    ASSUME NEW s \in Stores, NEW id
    PROVE  Store!Deleted(s, id) \in Stores
<1> DEFINE keep == {it \in Store!ToSet(s.items) : it.id # id}
           rest == OnlyIn(s.items, keep)
<1>1. s.items \in Seq(Items) /\ Distinct(s.items) /\ DOMAIN s.items = 1 .. Len(s.items)
  BY StoreParts
<1> HIDE DEF keep
<1>2. IsPart(rest, Items, s.items, keep, Len(s.items))
  BY <1>1, OnlyInParts
<1> HIDE DEF rest
<1>3. rest \in Seq(Items)
  BY <1>2 DEF IsPart
<1>4. PICK h : Follows(h, rest, s.items, keep, Len(s.items))
  BY <1>2 DEF IsPart
<1>5. Len(rest) \in Nat /\ DOMAIN rest = 1 .. Len(rest) /\ \A i \in 1 .. Len(rest) : rest[i] \in Items
  BY <1>3
<1>6. /\ h \in [1 .. Len(rest) -> 1 .. Len(s.items)]
      /\ \A k \in 1 .. Len(rest) : rest[k] = s.items[h[k]]
      /\ \A k, l \in 1 .. Len(rest) : k < l => h[k] < h[l]
  BY <1>4 DEF Follows
<1>7. Distinct(rest)
  <2> SUFFICES ASSUME NEW i \in 1 .. Len(rest), NEW k \in 1 .. Len(rest), rest[i].id = rest[k].id
               PROVE  i = k
    BY <1>5 DEF Distinct
  <2>1. h[i] \in 1 .. Len(s.items) /\ h[k] \in 1 .. Len(s.items)
    BY <1>6
  <2>2. h[i] = h[k]
    BY <1>1, <1>6, <2>1 DEF Distinct
  <2>3. ~(i < k) /\ ~(k < i)
    BY <1>6, <2>1, <2>2
  <2> QED
    BY <1>5, <2>3
<1>8. Store!OnlyIn(s.items, {it \in Store!ToSet(s.items) : it.id # id}) = rest
  BY DEF Store!OnlyIn, OnlyIn, rest, keep
<1>9. CASE rest = <<>>
  BY <1>8, <1>9, BlankIs DEF Store!Deleted
<1>10. CASE rest # <<>>
  <2>1. Len(rest) # 0
    BY <1>3, <1>10
  <2>2. rest[1].id \in Store!AllIds
    BY <1>5, <2>1, ItemParts
  <2>3. Store!Deleted(s, id) =
          [active |-> IF s.active = id THEN rest[1].id ELSE s.active, items |-> rest]
    BY <1>8, <1>10 DEF Store!Deleted
  <2> QED
    BY <1>3, <1>7, <2>2, <2>3, StoreIs, StoreParts
<1> QED
  BY <1>9, <1>10

LEMMA IncomingIs ==
    ASSUME NEW src \in Store!AnySrc, NEW s \in Store!Incoming(src)
    PROVE  s \in Stores
<1> DEFINE items == <<[id |-> Default, src |-> src]>>
<1>1. items \in Seq(Items) /\ Distinct(items) /\ items # <<>>
  BY OneItem, StoreNames
<1> HIDE DEF items
<1>2. PICK a \in {Default, None} : s = Store!Normalized([active |-> a, items |-> items])
  BY DEF Store!Incoming, items
<1> DEFINE t == [active |-> a, items |-> items]
<1>3. t \in Stores
  BY <1>1, StoreNames, StoreIs
<1>4. s = Store!Normalized(t)
  BY <1>2
<1> HIDE DEF t
<1>5. t.items # <<>> => t.items[1] \in Items /\ t.items[1].id \in Store!AllIds
  BY <1>3, StoreParts, ItemParts
<1> QED
  BY <1>3, <1>4, <1>5, StoreParts, StoreIs DEF Store!Normalized

LEMMA OpsParts ==
    ASSUME StoreInv, NEW a \in Store!Actors
    PROVE  /\ op[a] \in Ops /\ op[a].snap \in Store!Configs /\ op[a].next \in Stores
           /\ op[a].prev \in Stores /\ op[a].wcfg \in BOOLEAN /\ op[a].ok \in BOOLEAN
           /\ before[a].cfg \in Store!Configs /\ before[a].profiles \in Stores
           /\ before[a] = [cfg |-> before[a].cfg, profiles |-> before[a].profiles]
  BY DEF StoreInv, StoreTypes, Ops

\* Op a went on to pc, perhaps after a failure.
Moved(a, pc1) ==
    /\ op' \in [Store!Actors -> Ops] /\ op'[a].pc = pc1
    /\ op'[a].kind = op[a].kind /\ op'[a].snap = op[a].snap /\ op'[a].next = op[a].next
    /\ op'[a].prev = op[a].prev /\ op'[a].wcfg = op[a].wcfg
    /\ \A b \in Store!Actors \ {a} : op'[b] = op[b]

Pcs == {"idle", "store", "lock", "write", "undo", "backup", "restore", "discard"}

LEMMA GoIs ==
    ASSUME StoreInv, NEW a \in Store!Actors, NEW pc1 \in Pcs, Store!Go(a, pc1)
    PROVE  Moved(a, pc1) /\ op'[a].ok = op[a].ok
<1>1. op \in [Store!Actors -> Ops] /\ op[a] \in Ops
  BY OpsParts DEF StoreInv, StoreTypes
<1>2. op' = [op EXCEPT ![a] = [op[a] EXCEPT !.pc = pc1]]
  BY <1>1 DEF Store!Go
<1>3. [op[a] EXCEPT !.pc = pc1] \in Ops
  BY <1>1 DEF Ops, Pcs
<1> QED
  BY <1>1, <1>2, <1>3 DEF Moved, Ops

LEMMA FailIs ==
    ASSUME StoreInv, NEW a \in Store!Actors, NEW pc1 \in Pcs, Store!Fail(a, pc1)
    PROVE  Moved(a, pc1) /\ ~op'[a].ok
<1>1. op \in [Store!Actors -> Ops] /\ op[a] \in Ops
  BY OpsParts DEF StoreInv, StoreTypes
<1>2. op' = [op EXCEPT ![a] = [op[a] EXCEPT !.pc = pc1, !.ok = FALSE]]
  BY <1>1 DEF Store!Fail
<1>3. [op[a] EXCEPT !.pc = pc1, !.ok = FALSE] \in Ops
  BY <1>1 DEF Ops, Pcs
<1> QED
  BY <1>1, <1>2, <1>3 DEF Moved, Ops

LEMMA Afters ==
    ASSUME StoreInv, NEW a \in Store!Actors
    PROVE  /\ Store!AfterFailure(op[a].kind) \in {"idle", "undo", "restore"}
           /\ Store!AfterFailure(op[a].kind) = "undo" => op[a].kind = "profile"
           /\ Store!AfterFailure(op[a].kind) = "restore" => op[a].kind = "import"
           /\ Store!AfterFailure(op[a].kind) = "idle" => op[a].kind \notin {"profile", "import"}
           /\ Store!AfterWrite(op[a].kind) \in {"idle", "store", "discard"}
           /\ Store!AfterWrite(op[a].kind) = "store" => op[a].kind = "import"
           /\ Store!AfterStore(op[a]) \in {"idle", "lock"}
           /\ Store!AfterStore(op[a]) = "idle" => ~(op[a].kind = "profile" /\ op[a].wcfg)
           /\ Store!AfterStore(op[a]) = "lock" => op[a].kind = "profile"
  BY DEF Store!AfterFailure, Store!AfterWrite, Store!AfterStore

\* The bodies of the action properties of ConfigStore.
AllOrNothingStep ==
    \A c \in Callers :
       /\ op[c].kind \in {"profile", "import"} /\ op[c].pc # "idle"
       /\ op'[c].pc = "idle" /\ ~op'[c].ok
       /\ c \notin met /\ ~spoilt'
       => /\ Store!Same(before[c].cfg, cfg')
          /\ Store!Ensured(before[c].profiles) = Store!Ensured(profiles')
ActiveStep ==
    \A c \in Callers :
       /\ op[c].kind = "profile" /\ op[c].pc # "idle" /\ op[c].wcfg
       /\ op'[c].pc = "idle" /\ op'[c].ok
       /\ c \notin met
       => cfg'.src = Store!ActiveSources(profiles')
StatusStep ==
    /\ op[Probe].kind = "status" /\ op[Probe].pc = "write"
    /\ op'[Probe].pc = "idle"
    /\ ~spoilt
    => Store!Same(cfg, cfg')
KeptSteps == AllOrNothingStep /\ ActiveStep /\ StatusStep

\* No command ends with a step that leaves a at work and the others alone.
LEMMA KeptIfBusy ==
    ASSUME NEW a \in Store!Actors, op'[a].pc # "idle",
           \A b \in Store!Actors \ {a} : op'[b] = op[b]
    PROVE  KeptSteps
  BY StoreNames DEF KeptSteps, AllOrNothingStep, ActiveStep, StatusStep

\* The invariant of a command that begins.
LEMMA Starts ==
    ASSUME StoreInv, NEW a \in Store!Actors, NEW o \in Ops, Store!Start(a, o), o.ok,
           o.pc \in {"store", "lock", "write", "backup"},
           o.pc = "store" => o.kind = "profile",
           o.pc = "backup" => o.kind = "import",
           o.pc = "lock" => o.kind # "status",
           o.kind = "profile" =>
              /\ o.prev = Store!Context /\ o.pc = "store"
              /\ o.wcfg => o.snap.src = Store!ActiveSources(o.next),
           o.kind = "status" => Store!Same(cfg, o.snap),
           o.pc = "write" => lock = None /\ lock' = a /\ bak' = Store!BackedUp,
           o.pc # "write" => lock' = lock /\ bak' = bak,
           UNCHANGED <<cfg, profiles, spoilt>>
    PROVE  /\ op' \in [Store!Actors -> Ops] /\ met' \subseteq Store!Actors
           /\ before' \in [Store!Actors -> [cfg : Store!Configs, profiles : Stores]]
           /\ bak' \in Store!Configs \cup {None} /\ lock' \in Store!Actors \cup {None}
           /\ OpsFit' /\ Alone' /\ Planned' /\ Tracked' /\ Noted' /\ LegacyHeld' /\ KeptSteps
<1> DEFINE busy == {b \in Store!Actors \ {a} : op[b].pc # "idle"}
           was == [cfg |-> cfg, profiles |-> profiles]
<1>1. /\ op[a].pc = "idle" /\ op' = [op EXCEPT ![a] = o]
      /\ before' = [before EXCEPT ![a] = was]
      /\ met' = IF busy = {} THEN met \ {a} ELSE met \cup busy \cup {a}
  BY DEF Store!Start
<1>2. /\ op \in [Store!Actors -> Ops] /\ met \subseteq Store!Actors
      /\ before \in [Store!Actors -> [cfg : Store!Configs, profiles : Stores]]
      /\ cfg \in Store!Configs /\ profiles \in Stores /\ bak \in Store!Configs \cup {None}
      /\ lock \in Store!Actors \cup {None}
  BY DEF StoreInv, StoreTypes
<1>3. /\ op' \in [Store!Actors -> Ops] /\ op'[a] = o
      /\ \A b \in Store!Actors \ {a} : op'[b] = op[b]
  BY <1>1, <1>2
<1>4. /\ before' \in [Store!Actors -> [cfg : Store!Configs, profiles : Stores]]
      /\ before'[a].cfg = cfg /\ before'[a].profiles = profiles
      /\ \A b \in Store!Actors \ {a} : before'[b] = before[b]
  BY <1>1, <1>2
<1>5. /\ met' \subseteq Store!Actors
      /\ \A b \in Store!Actors \ {a} : op[b].pc # "idle" => b \in met'
      /\ a \notin met' => \A b \in Store!Actors \ {a} : op[b].pc = "idle"
  BY <1>1, <1>2
<1>6. /\ bak' \in Store!Configs \cup {None} /\ lock' \in Store!Actors \cup {None}
      /\ bak = None \/ bak' = bak
      /\ bak' # None => bak'.schema = "v1"
      /\ bak' = None /\ o.pc = "write" => cfg.schema # "v1"
  BY <1>2, StoreNames DEF Store!BackedUp, StoreInv, LegacyHeld
<1>7. OpsFit'
  BY <1>2, <1>3, StoreNames DEF OpsFit, StoreInv, Begun
<1>8. Alone'
  BY <1>3, <1>5 DEF Alone
<1>9. Planned'
  BY <1>3, <1>4 DEF Planned, StoreInv, Store!Context
<1>10. Tracked'
  BY <1>3, <1>4, <1>5 DEF Tracked
<1>11. Noted'
  BY <1>3, StoreNames DEF Noted, StoreInv
<1>12. LegacyHeld'
  BY <1>3, <1>4, <1>6 DEF LegacyHeld, StoreInv
<1>13. KeptSteps
  BY <1>3, KeptIfBusy
<1> QED
  BY <1>3, <1>4, <1>5, <1>6, <1>7, <1>8, <1>9, <1>10, <1>11, <1>12, <1>13

\* The invariant of a command that goes on.
LEMMA Continues ==
    ASSUME StoreInv, NEW a \in Store!Actors, NEW pc1 \in Pcs, Moved(a, pc1),
           op[a].pc # "idle", UNCHANGED met,
           \A b \in Store!Actors \ {a} : before'[b] = before[b],
           before'[a] = before[a] \/ op[a].kind = "import",
           pc1 \in Begun => op'[a].ok,
           pc1 = "undo" => op[a].kind = "profile" /\ ~op'[a].ok,
           pc1 = "lock" => op[a].kind # "status",
           pc1 = "discard" => op[a].kind = "save",
           pc1 = "restore" => op[a].kind = "import", pc1 # "backup",
           pc1 = "store" => op[a].kind = "import",
           pc1 = "write" => lock' = a,
           lock' = lock \/ lock = None \/ lock = a,
           a \notin met /\ pc1 # "idle" /\ op[a].kind = "profile" =>
              /\ cfg' = before[a].cfg
              /\ pc1 \in {"lock", "write"} => profiles' = op[a].next
    PROVE  OpsFit' /\ Alone' /\ Planned' /\ Tracked'
<1>1. /\ op'[a].pc = pc1 /\ \A b \in Store!Actors \ {a} : op'[b] = op[b]
      /\ op'[a].kind = op[a].kind /\ op'[a].snap = op[a].snap /\ op'[a].next = op[a].next
      /\ op'[a].prev = op[a].prev /\ op'[a].wcfg = op[a].wcfg
  BY DEF Moved
<1>2. OpsFit'
  BY <1>1, StoreNames DEF OpsFit, StoreInv, Begun
<1>3. Alone'
  BY <1>1 DEF Alone, StoreInv
<1>4. Planned'
  BY <1>1 DEF Planned, StoreInv
<1>5. \A b \in Store!Actors \ {a} : b \notin met => op[b].pc = "idle"
  BY DEF StoreInv, Alone
<1>6. Tracked'
  BY <1>1, <1>5 DEF Tracked
<1> QED
  BY <1>2, <1>3, <1>4, <1>6

LEMMA StoreTyped ==
    ASSUME StoreInv
    PROVE  /\ StoreTypes /\ OpsFit /\ Alone /\ Planned /\ Tracked /\ Noted /\ LegacyHeld
           /\ cfg \in Store!Configs /\ profiles \in Stores /\ Store!Context \in Stores
           /\ Store!Context.items # <<>> /\ Store!Context.active # None
           /\ edits \in Nat /\ tick \in Nat
<1>1. StoreTypes /\ OpsFit /\ Alone /\ Planned /\ Tracked /\ Noted /\ LegacyHeld
  BY DEF StoreInv
<1>2. cfg \in Store!Configs /\ profiles \in Stores /\ edits \in Nat /\ tick \in Nat
  BY <1>1 DEF StoreTypes
<1> QED
  BY <1>1, <1>2, EnsuredIs DEF Store!Context

\* The configurations a command may carry.
LEMMA ConfigIs ==
    ASSUME NEW src \in Store!AnySrc
    PROVE  /\ \A schema \in {"v1", "v2"} : Store!Config(0, src, schema) \in Store!Configs
           /\ \A c \in Store!Configs :
                /\ [c EXCEPT !.src = src] \in Store!Configs /\ [c EXCEPT !.src = src].src = src
                /\ \A n \in 0 .. MaxEdits : [c EXCEPT !.user = n, !.src = src] \in Store!Configs
<1>1. \A schema \in {"v1", "v2"} : Store!Config(0, src, schema) \in Store!Configs
  BY StoreNames DEF Store!Config, Store!Configs
<1>2. ASSUME NEW c \in Store!Configs
      PROVE  [c EXCEPT !.src = src] \in Store!Configs /\ [c EXCEPT !.src = src].src = src
  BY DEF Store!Configs
<1>3. ASSUME NEW c \in Store!Configs, NEW n \in 0 .. MaxEdits
      PROVE  [c EXCEPT !.user = n, !.src = src] \in Store!Configs
  BY DEF Store!Configs
<1> QED
  BY <1>1, <1>2, <1>3

\* What is written of a configuration: statuses, or the time and the schema.
LEMMA WrittenConfig ==
    ASSUME NEW c \in Store!Configs, NEW t \in Nat
    PROVE  /\ [c EXCEPT !.stat = @ + 1] \in Store!Configs
           /\ Store!Same(c, [c EXCEPT !.stat = @ + 1])
           /\ [c EXCEPT !.tick = t, !.schema = "v2"] \in Store!Configs
           /\ [c EXCEPT !.tick = t, !.schema = "v2"].schema = "v2"
           /\ [c EXCEPT !.tick = t, !.schema = "v2"].src = c.src
           /\ Store!Same(c, [c EXCEPT !.tick = t, !.schema = "v2"])
           /\ \A n \in 0 .. MaxEdits :
                [c EXCEPT !.user = n, !.tick = t, !.schema = "v2"] \in Store!Configs
<1>1. /\ [c EXCEPT !.stat = @ + 1] \in Store!Configs
      /\ Store!Same(c, [c EXCEPT !.stat = @ + 1])
  BY DEF Store!Configs, Store!Same
<1>2. /\ [c EXCEPT !.tick = t, !.schema = "v2"] \in Store!Configs
      /\ [c EXCEPT !.tick = t, !.schema = "v2"].schema = "v2"
      /\ [c EXCEPT !.tick = t, !.schema = "v2"].src = c.src
      /\ Store!Same(c, [c EXCEPT !.tick = t, !.schema = "v2"])
  BY DEF Store!Configs, Store!Same
<1>3. ASSUME NEW n \in 0 .. MaxEdits
      PROVE  [c EXCEPT !.user = n, !.tick = t, !.schema = "v2"] \in Store!Configs
  BY DEF Store!Configs
<1> QED
  BY <1>1, <1>2, <1>3

LEMMA IdleIs ==
    /\ Store!Idle \in Ops /\ Store!Idle.pc = "idle" /\ Store!Idle.kind = "none" /\ Store!Idle.ok
    /\ Store!Idle.next \in Stores /\ Store!Idle.prev \in Stores
<1>1. Store!Config(0, NoSrc, "v2") \in Store!Configs
  BY ConfigIs, StoreNames
<1>2. Store!Idle = [kind |-> "none", pc |-> "idle", snap |-> Store!Config(0, NoSrc, "v2"),
                    next |-> Store!Empty, prev |-> Store!Empty, wcfg |-> FALSE, ok |-> TRUE]
  BY DEF Store!Idle
<1> QED
  BY <1>1, <1>2, BlankIs DEF Ops

LEMMA ProfileOps ==
    ASSUME StoreInv, NEW next1 \in Stores, NEW wcfg1 \in BOOLEAN, NEW src \in Store!AnySrc
    PROVE  /\ Store!ProfileOp(next1, wcfg1, src) \in Ops
           /\ Store!ProfileOp(next1, wcfg1, src).ok
           /\ Store!ProfileOp(next1, wcfg1, src).kind = "profile"
           /\ Store!ProfileOp(next1, wcfg1, src).pc = "store"
           /\ Store!ProfileOp(next1, wcfg1, src).prev = Store!Context
           /\ Store!ProfileOp(next1, wcfg1, src).next = next1
           /\ Store!ProfileOp(next1, wcfg1, src).wcfg = wcfg1
           /\ Store!ProfileOp(next1, wcfg1, src).snap.src = src
<1> DEFINE idle == Store!Idle
           snap1 == [cfg EXCEPT !.src = src]
           o == [idle EXCEPT !.kind = "profile", !.pc = "store", !.next = next1,
                             !.prev = Store!Context, !.wcfg = wcfg1, !.snap = snap1]
<1>1. idle \in Ops /\ idle.ok
  BY IdleIs
<1>2. snap1 \in Store!Configs /\ snap1.src = src
  BY ConfigIs, StoreTyped
<1>3. Store!Context \in Stores
  BY StoreTyped
<1>4. Store!ProfileOp(next1, wcfg1, src) = o
  BY DEF Store!ProfileOp
<1> HIDE DEF idle, snap1
<1>5. /\ o \in Ops /\ o.ok /\ o.kind = "profile" /\ o.pc = "store" /\ o.prev = Store!Context
      /\ o.next = next1 /\ o.wcfg = wcfg1 /\ o.snap = snap1
  BY <1>1, <1>2, <1>3 DEF Ops
<1> QED
  BY <1>2, <1>4, <1>5

\* A profile command begins.
LEMMA ProfileStarts ==
    ASSUME StoreInv, NEW a \in Store!Actors, NEW next1 \in Stores, NEW wcfg1 \in BOOLEAN,
           NEW src \in Store!AnySrc, wcfg1 => src = Store!ActiveSources(next1),
           Store!Start(a, Store!ProfileOp(next1, wcfg1, src)), Store!Quiet, UNCHANGED edits
    PROVE  StoreInv' /\ KeptSteps
<1> DEFINE o == Store!ProfileOp(next1, wcfg1, src)
<1>1. /\ o \in Ops /\ o.ok /\ o.kind = "profile" /\ o.pc = "store" /\ o.prev = Store!Context
      /\ o.wcfg => o.snap.src = Store!ActiveSources(o.next)
  BY ProfileOps
<1>2. UNCHANGED <<cfg, draft, bak, profiles, backup, lock, shown, tick, spoilt>>
  BY DEF Store!Quiet
<1> HIDE DEF o
<1>3. /\ op' \in [Store!Actors -> Ops] /\ met' \subseteq Store!Actors
      /\ before' \in [Store!Actors -> [cfg : Store!Configs, profiles : Stores]]
      /\ bak' \in Store!Configs \cup {None} /\ lock' \in Store!Actors \cup {None}
      /\ OpsFit' /\ Alone' /\ Planned' /\ Tracked' /\ Noted' /\ LegacyHeld' /\ KeptSteps
  BY <1>1, <1>2, Starts DEF o
<1>4. StoreTypes'
  BY <1>2, <1>3, StoreTyped DEF StoreTypes
<1> QED
  BY <1>3, <1>4 DEF StoreInv

LEMMA ProfileStep ==
    ASSUME StoreInv, NEW c \in Callers, Store!Profile(c) PROVE StoreInv' /\ KeptSteps
<1>1. Store!Quiet /\ UNCHANGED edits /\ c \in Store!Actors
  BY StoreNames DEF Store!Profile
<1>2. Store!Context \in Stores
  BY StoreTyped
<1>3. CASE \E id \in Ids \cup {Default}, src \in Store!AnySrc, active \in BOOLEAN :
             Store!Start(c, Store!ProfileOp(Store!Saved(Store!Context, id, src, active), active, src))
  <2>1. PICK id \in Ids \cup {Default}, src \in Store!AnySrc, active \in BOOLEAN :
             Store!Start(c, Store!ProfileOp(Store!Saved(Store!Context, id, src, active), active, src))
    BY <1>3
  <2>2. /\ Store!Saved(Store!Context, id, src, active) \in Stores
        /\ active => src = Store!ActiveSources(Store!Saved(Store!Context, id, src, active))
    BY <1>2, SavedIs, StoreNames
  <2> QED
    BY <1>1, <2>1, <2>2, ProfileStarts
<1>4. CASE \E id \in Store!CurrentIds, src \in Store!AnySrc :
             Store!Start(c, Store!ProfileOp(Store!Updated(Store!Context, id, src), TRUE, src))
  <2>1. PICK id \in Store!CurrentIds, src \in Store!AnySrc :
             Store!Start(c, Store!ProfileOp(Store!Updated(Store!Context, id, src), TRUE, src))
    BY <1>4
  <2>2. id \in Store!AllIds
    BY <1>2, StoreTyped, StoreNames, StoreParts DEF Store!CurrentIds, Store!Fresh
  <2>3. /\ Store!Updated(Store!Context, id, src) \in Stores
        /\ src = Store!ActiveSources(Store!Updated(Store!Context, id, src))
    BY <1>2, <2>2, UpdatedIs
  <2> QED
    BY <1>1, <2>1, <2>3, ProfileStarts
<1>5. CASE \E i \in 1 .. Len(Store!Context.items) :
             Store!Start(c, Store!ProfileOp(
               [Store!Context EXCEPT !.active = Store!Context.items[i].id], TRUE,
               Store!Context.items[i].src))
  <2>1. PICK i \in 1 .. Len(Store!Context.items) :
             Store!Start(c, Store!ProfileOp(
               [Store!Context EXCEPT !.active = Store!Context.items[i].id], TRUE,
               Store!Context.items[i].src))
    BY <1>5
  <2> DEFINE s == [Store!Context EXCEPT !.active = Store!Context.items[i].id]
             src == Store!Context.items[i].src
  <2>2. s \in Stores /\ src = Store!ActiveSources(s)
    BY <1>2, ChosenIs
  <2>3. src \in Store!AnySrc
    BY <1>2, StoreParts, ItemParts
  <2>4. Store!Start(c, Store!ProfileOp(s, TRUE, src))
    BY <2>1
  <2> HIDE DEF s, src
  <2> QED
    BY <1>1, <2>2, <2>3, <2>4, ProfileStarts
<1>6. CASE \E i \in 1 .. Len(Store!Context.items) :
             Store!Start(c, Store!ProfileOp(
               Store!Deleted(Store!Context, Store!Context.items[i].id),
               Store!Context.active = Store!Context.items[i].id,
               Store!ActiveSources(Store!Deleted(Store!Context, Store!Context.items[i].id))))
  <2>1. PICK i \in 1 .. Len(Store!Context.items) :
             Store!Start(c, Store!ProfileOp(
               Store!Deleted(Store!Context, Store!Context.items[i].id),
               Store!Context.active = Store!Context.items[i].id,
               Store!ActiveSources(Store!Deleted(Store!Context, Store!Context.items[i].id))))
    BY <1>6
  <2> DEFINE s == Store!Deleted(Store!Context, Store!Context.items[i].id)
             w == Store!Context.active = Store!Context.items[i].id
             src == Store!ActiveSources(s)
  <2>2. s \in Stores /\ w \in BOOLEAN
    BY <1>2, DeletedIs
  <2>3. Store!Start(c, Store!ProfileOp(s, w, src))
    BY <2>1
  <2> HIDE DEF s, w
  <2>4. src \in Store!AnySrc
    BY <2>2, SourcesTyped
  <2> QED
    BY <1>1, <2>2, <2>3, <2>4, ProfileStarts
<1>7. CASE \E src \in Store!AnySrc : \E s \in Store!Incoming(src) :
             Store!Start(c, Store!ProfileOp(s, FALSE, src))
  BY <1>1, <1>7, IncomingIs, ProfileStarts
<1> QED
  BY <1>3, <1>4, <1>5, <1>6, <1>7 DEF Store!Profile

\* applySchedulerSourceProfileAction does not touch the configuration.
LEMMA RecentRunStep == ASSUME StoreInv, Store!RecentRun PROVE StoreInv' /\ KeptSteps
<1>1. PICK src \in Store!AnySrc :
         Store!Start(Probe, Store!ProfileOp([active |-> Recent,
                       items |-> Store!Put(profiles.items, Recent, src)], FALSE, src))
  BY DEF Store!RecentRun
<1>2. Store!Quiet /\ UNCHANGED edits
  BY DEF Store!RecentRun
<1> DEFINE s == [active |-> Recent, items |-> Store!Put(profiles.items, Recent, src)]
<1>3. s \in Stores
  BY StoreTyped, StoreParts, PutActive, StoreNames
<1>4. Store!Start(Probe, Store!ProfileOp(s, FALSE, src))
  BY <1>1
<1> HIDE DEF s
<1> QED
  BY <1>2, <1>3, <1>4, StoreNames, ProfileStarts

\* A command of another kind begins.
LEMMA OthersStart ==
    ASSUME StoreInv, NEW a \in Store!Actors, NEW o \in Ops, Store!Start(a, o), o.ok,
           o.kind # "profile", o.pc \in {"lock", "write", "backup"},
           o.pc = "backup" => o.kind = "import",
           o.pc = "lock" => o.kind # "status",
           o.kind = "status" => Store!Same(cfg, o.snap),
           o.pc = "write" => lock = None /\ lock' = a /\ bak' = Store!BackedUp,
           o.pc # "write" => lock' = lock /\ bak' = bak,
           UNCHANGED <<cfg, draft, profiles, tick, spoilt>>,
           shown' \in [Callers -> Store!Configs], edits' \in 0 .. MaxEdits
    PROVE  StoreInv' /\ KeptSteps
<1>1. /\ op' \in [Store!Actors -> Ops] /\ met' \subseteq Store!Actors
      /\ before' \in [Store!Actors -> [cfg : Store!Configs, profiles : Stores]]
      /\ bak' \in Store!Configs \cup {None} /\ lock' \in Store!Actors \cup {None}
      /\ OpsFit' /\ Alone' /\ Planned' /\ Tracked' /\ Noted' /\ LegacyHeld' /\ KeptSteps
  BY Starts
<1>2. StoreTypes'
  BY <1>1, StoreTyped DEF StoreTypes
<1> QED
  BY <1>1, <1>2 DEF StoreInv

LEMMA SaveStep ==
    ASSUME StoreInv, NEW c \in Callers, Store!SaveConfig(c) PROVE StoreInv' /\ KeptSteps
<1>1. /\ UNCHANGED <<cfg, draft, bak, profiles, backup, lock, tick, ops, spoilt>>
      /\ edits < MaxEdits /\ edits' = edits + 1
  BY DEF Store!SaveConfig
<1>2. PICK src \in Store!AnySrc :
         /\ Store!Start(c, [Store!Idle EXCEPT !.kind = "save", !.pc = "lock",
                             !.snap = [shown[c] EXCEPT !.user = edits + 1, !.src = src]])
         /\ shown' = [shown EXCEPT ![c] = [shown[c] EXCEPT !.user = edits + 1, !.src = src]]
  BY DEF Store!SaveConfig
<1>3. edits + 1 \in 0 .. MaxEdits /\ c \in Store!Actors
  BY <1>1, StoreTyped, StoreNames
<1>4. shown \in [Callers -> Store!Configs] /\ shown[c] \in Store!Configs
  BY StoreTyped DEF StoreTypes
<1> DEFINE snap1 == [shown[c] EXCEPT !.user = edits + 1, !.src = src]
           idle == Store!Idle
           o == [idle EXCEPT !.kind = "save", !.pc = "lock", !.snap = snap1]
<1>5. snap1 \in Store!Configs
  BY <1>3, <1>4, ConfigIs
<1>6. Store!Start(c, o) /\ shown' = [shown EXCEPT ![c] = snap1]
  BY <1>2
<1>9. idle \in Ops /\ idle.ok
  BY IdleIs
<1> HIDE DEF snap1, idle
<1>7. o \in Ops /\ o.kind = "save" /\ o.pc = "lock" /\ o.ok
  BY <1>5, <1>9 DEF Ops
<1>8. shown' \in [Callers -> Store!Configs] /\ edits' \in 0 .. MaxEdits
  BY <1>1, <1>3, <1>4, <1>5, <1>6
<1> HIDE DEF o
<1> QED
  BY <1>1, <1>3, <1>6, <1>7, <1>8, OthersStart

LEMMA ImportStep ==
    ASSUME StoreInv, NEW c \in Callers, Store!Import(c) PROVE StoreInv' /\ KeptSteps
<1>0. PICK src \in Store!AnySrc : \E s \in Store!Incoming(src) :
         Store!Start(c, [Store!Idle EXCEPT !.kind = "import", !.pc = "backup", !.next = s,
                                           !.snap = Store!Config(0, src, "v2")])
  BY DEF Store!Import
<1>1. PICK s \in Store!Incoming(src) :
         Store!Start(c, [Store!Idle EXCEPT !.kind = "import", !.pc = "backup", !.next = s,
                                           !.snap = Store!Config(0, src, "v2")])
  BY <1>0
<1>2. UNCHANGED <<cfg, draft, bak, profiles, backup, lock, shown, tick, spoilt, edits>>
  BY DEF Store!Import, Store!Quiet
<1> DEFINE idle == Store!Idle
           snap1 == Store!Config(0, src, "v2")
           o == [idle EXCEPT !.kind = "import", !.pc = "backup", !.next = s, !.snap = snap1]
<1>3. s \in Stores /\ snap1 \in Store!Configs /\ idle \in Ops /\ idle.ok
  BY IncomingIs, ConfigIs, IdleIs
<1>5. Store!Start(c, o)
  BY <1>1
<1> HIDE DEF idle, snap1
<1>4. o \in Ops /\ o.kind = "import" /\ o.pc = "backup" /\ o.ok
  BY <1>3 DEF Ops
<1> HIDE DEF o
<1> QED
  BY <1>2, <1>4, <1>5, OthersStart, StoreTyped, StoreNames DEF StoreTypes

LEMMA WebDAVStep ==
    ASSUME StoreInv, NEW c \in Callers, Store!WebDAVBackup(c) PROVE StoreInv' /\ KeptSteps
<1> DEFINE idle == Store!Idle
           o == [idle EXCEPT !.kind = "webdav", !.pc = "lock", !.snap = cfg]
<1>1. Store!Start(c, o)
      /\ UNCHANGED <<cfg, draft, bak, profiles, backup, lock, shown, tick, spoilt, edits>>
  BY DEF Store!WebDAVBackup, Store!Quiet
<1>3. idle \in Ops /\ idle.ok /\ cfg \in Store!Configs
  BY IdleIs, StoreTyped
<1> HIDE DEF idle
<1>2. o \in Ops /\ o.kind = "webdav" /\ o.pc = "lock" /\ o.ok
  BY <1>3 DEF Ops
<1> HIDE DEF o
<1> QED
  BY <1>1, <1>2, OthersStart, StoreTyped, StoreNames DEF StoreTypes

LEMMA StatusBegins == ASSUME StoreInv, Store!Status PROVE StoreInv' /\ KeptSteps
<1> DEFINE snap1 == [cfg EXCEPT !.stat = @ + 1]
           idle == Store!Idle
           o == [idle EXCEPT !.kind = "status", !.pc = "write", !.snap = snap1]
<1>1. /\ Store!Start(Probe, o) /\ lock = None /\ lock' = Probe /\ bak' = Store!BackedUp
      /\ UNCHANGED <<cfg, draft, profiles, backup, shown, tick, edits, spoilt>>
  BY DEF Store!Status, Store!FreeForStatus, Store!Free
<1>2. snap1 \in Store!Configs /\ Store!Same(cfg, snap1)
  BY StoreTyped, WrittenConfig
<1>4. idle \in Ops /\ idle.ok
  BY IdleIs
<1> HIDE DEF snap1, idle
<1>3. o \in Ops /\ o.kind = "status" /\ o.pc = "write" /\ o.ok /\ o.snap = snap1
  BY <1>2, <1>4 DEF Ops
<1> HIDE DEF o
<1> QED
  BY <1>1, <1>2, <1>3, OthersStart, StoreTyped, StoreNames DEF StoreTypes

\* What a page shows and the draft concern nothing else.
LEMMA PagesStep ==
    ASSUME StoreInv, UNCHANGED <<cfg, bak, profiles, lock, op, before, spoilt, met>>,
           shown' \in [Callers -> Store!Configs], draft' \in Store!Configs \cup {None},
           edits' \in 0 .. MaxEdits, tick' \in Nat
    PROVE  StoreInv' /\ KeptSteps
<1>1. StoreTypes'
  BY DEF StoreInv, StoreTypes
<1>2. OpsFit' /\ Alone' /\ Planned' /\ Tracked' /\ Noted' /\ LegacyHeld'
  BY DEF StoreInv, OpsFit, Alone, Planned, Tracked, Noted, LegacyHeld
<1>3. KeptSteps
  BY DEF KeptSteps, AllOrNothingStep, ActiveStep, StatusStep
<1> QED
  BY <1>1, <1>2, <1>3 DEF StoreInv

LEMMA PageSteps ==
    ASSUME StoreInv, NEW c \in Callers,
           Store!Open(c) \/ Store!SaveDraft(c) \/ Store!DiscardDraft(c)
    PROVE  StoreInv' /\ KeptSteps
<1>1. /\ shown \in [Callers -> Store!Configs] /\ draft \in Store!Configs \cup {None}
      /\ edits \in 0 .. MaxEdits /\ tick \in Nat /\ cfg \in Store!Configs /\ MaxEdits \in Nat
  BY StoreTyped, StoreNames DEF StoreTypes
<1>2. CASE Store!Open(c)
  BY <1>1, <1>2, PagesStep DEF Store!Open, Store!counters, Store!ghosts
<1>3. CASE Store!SaveDraft(c)
  <2>1. /\ UNCHANGED <<cfg, bak, profiles, backup, lock, shown, op, before, spoilt, met>>
        /\ edits < MaxEdits /\ edits' = edits + 1 /\ tick' = tick + 1
        /\ draft' = [shown[c] EXCEPT !.user = edits + 1, !.tick = tick, !.schema = "v2"]
    BY <1>3 DEF Store!SaveDraft, Store!ghosts
  <2>2. edits + 1 \in 0 .. MaxEdits /\ shown[c] \in Store!Configs
    BY <1>1, <2>1
  <2>3. draft' \in Store!Configs
    BY <1>1, <2>1, <2>2, WrittenConfig
  <2> QED
    BY <1>1, <2>1, <2>2, <2>3, PagesStep
<1>4. CASE Store!DiscardDraft(c)
  BY <1>1, <1>4, PagesStep DEF Store!DiscardDraft, Store!counters, Store!ghosts
<1> QED
  BY <1>2, <1>3, <1>4

LEMMA LockStep ==
    ASSUME StoreInv, NEW a \in Store!Actors, Store!Lock(a) PROVE StoreInv' /\ KeptSteps
<1>1. /\ op[a].pc = "lock" /\ lock = None
      /\ UNCHANGED <<cfg, draft, profiles, backup, shown, tick, edits, before, spoilt, met>>
  BY DEF Store!Lock, Store!Free, Store!counters, Store!ghosts
<1>2. op[a].kind # "status" /\ op[a].ok
  BY <1>1, StoreTyped DEF OpsFit, Begun
<1>3. /\ a \notin met /\ op[a].kind = "profile" =>
            cfg = before[a].cfg /\ profiles = op[a].next
  BY <1>1, StoreTyped DEF Tracked
<1>4. CASE lock' = a /\ bak' = Store!BackedUp /\ Store!Go(a, "write")
  <2>1. Moved(a, "write") /\ op'[a].ok /\ "write" \in Pcs
    BY <1>2, <1>4, GoIs DEF Pcs
  <2>2. OpsFit' /\ Alone' /\ Planned' /\ Tracked'
    BY <1>1, <1>2, <1>3, <1>4, <2>1, Continues
  <2>3. /\ bak' \in Store!Configs \cup {None}
        /\ bak' # None => bak'.schema = "v1"
        /\ bak = None \/ bak' = bak
        /\ bak' = None => cfg.schema # "v1"
    BY <1>4, StoreTyped, StoreNames DEF Store!BackedUp, StoreTypes, LegacyHeld
  <2>4. StoreTypes'
    BY <1>1, <1>4, <2>1, <2>3, StoreTyped DEF StoreTypes, Moved
  <2>5. Noted'
    BY <1>1, <1>2, <2>1, StoreTyped, StoreNames DEF Noted, Moved
  <2>6. LegacyHeld'
    BY <1>1, <2>1, <2>3, StoreTyped DEF LegacyHeld, Moved
  <2>7. KeptSteps
    BY <2>1, KeptIfBusy DEF Moved
  <2> QED
    BY <2>2, <2>4, <2>5, <2>6, <2>7 DEF StoreInv
<1>5. CASE Store!Fail(a, Store!AfterFailure(op[a].kind)) /\ UNCHANGED <<lock, bak>>
  <2> DEFINE pc1 == Store!AfterFailure(op[a].kind)
  <2>0. /\ pc1 \in {"idle", "undo", "restore"}
        /\ pc1 = "undo" => op[a].kind = "profile"
        /\ pc1 = "restore" => op[a].kind = "import"
        /\ pc1 = "idle" => op[a].kind \notin {"profile", "import"}
    BY Afters
  <2>1. Store!Fail(a, pc1)
    BY <1>5
  <2> HIDE DEF pc1
  <2>2. Moved(a, pc1) /\ ~op'[a].ok /\ pc1 \in Pcs
    BY <2>0, <2>1, FailIs DEF Pcs
  <2>3. OpsFit' /\ Alone' /\ Planned' /\ Tracked'
    BY <1>1, <1>3, <1>5, <2>0, <2>2, Continues DEF Begun
  <2>4. StoreTypes'
    BY <1>1, <1>5, <2>2, StoreTyped DEF StoreTypes, Moved
  <2>5. Noted' /\ LegacyHeld'
    BY <1>1, <1>5, <2>0, <2>2, StoreTyped, StoreNames DEF Noted, LegacyHeld, Moved
  <2>6. KeptSteps
    BY <1>1, <2>0, <2>2, StoreNames DEF KeptSteps, AllOrNothingStep, ActiveStep, StatusStep, Moved
  <2> QED
    BY <2>3, <2>4, <2>5, <2>6 DEF StoreInv
<1> QED
  BY <1>4, <1>5 DEF Store!Lock

LEMMA WriteStep ==
    ASSUME StoreInv, NEW a \in Store!Actors, Store!Write(a) PROVE StoreInv' /\ KeptSteps
<1>1. /\ op[a].pc = "write" /\ lock' = None /\ tick' = tick + 1
      /\ UNCHANGED <<draft, bak, profiles, backup, shown, edits, before, spoilt, met>>
  BY DEF Store!Write, Store!counters, Store!ghosts
<1>2. op[a].ok /\ lock = a
  BY <1>1, StoreTyped DEF OpsFit, Begun
<1>3. /\ a \notin met /\ op[a].kind = "profile" =>
            cfg = before[a].cfg /\ profiles = op[a].next
  BY <1>1, StoreTyped DEF Tracked
<1>4. \A b \in Store!Actors \ {a} : op[b].pc # "write"
  BY <1>2, StoreTyped DEF OpsFit
<1>5. bak = None => cfg.schema = "v2"
  BY <1>1, StoreTyped DEF LegacyHeld, Store!Configs
<1>6. CASE /\ cfg' = [op[a].snap EXCEPT !.tick = tick, !.schema = "v2"]
           /\ Store!Go(a, Store!AfterWrite(op[a].kind))
  <2> DEFINE pc1 == Store!AfterWrite(op[a].kind)
  <2>0. pc1 \in {"idle", "store", "discard"} /\ (pc1 = "store" => op[a].kind = "import")
        /\ (pc1 = "discard" => op[a].kind = "save")
    BY Afters DEF Store!AfterWrite
  <2>1. Store!Go(a, pc1)
    BY <1>6
  <2> HIDE DEF pc1
  <2>2. Moved(a, pc1) /\ op'[a].ok /\ pc1 \in Pcs
    BY <1>2, <2>0, <2>1, GoIs DEF Pcs
  <2>3. /\ cfg' \in Store!Configs /\ cfg'.schema = "v2" /\ cfg'.src = op[a].snap.src
        /\ Store!Same(op[a].snap, cfg')
    BY <1>6, OpsParts, StoreTyped, WrittenConfig
  <2>4. OpsFit' /\ Alone' /\ Planned' /\ Tracked'
    BY <1>1, <1>2, <2>0, <2>2, Continues
  <2>5. StoreTypes'
    BY <1>1, <2>2, <2>3, StoreTyped DEF StoreTypes, Moved
  <2>6. Noted'
    BY <1>4, <2>0, <2>2, StoreNames DEF Noted, Moved
  <2>7. LegacyHeld'
    BY <1>1, <1>4, <1>5, <2>0, <2>2, <2>3, StoreTyped DEF LegacyHeld, Moved
  <2>8. AllOrNothingStep
    BY <2>2, StoreNames DEF AllOrNothingStep, Moved
  <2>9. ActiveStep
    <3>1. op[a].kind = "profile" /\ op[a].wcfg => op[a].snap.src = Store!ActiveSources(op[a].next)
      BY StoreTyped DEF Planned
    <3> QED
      BY <1>1, <1>3, <2>2, <2>3, <3>1, StoreNames DEF ActiveStep, Moved
  <2>10. StatusStep
    <3>1. op[Probe].pc = "write" => a = Probe
      BY <1>4, StoreNames
    <3> QED
      BY <2>3, <3>1, StoreTyped DEF StatusStep, Noted, Store!Same
  <2> QED
    BY <2>4, <2>5, <2>6, <2>7, <2>8, <2>9, <2>10 DEF StoreInv, KeptSteps
<1>7. CASE Store!Fail(a, Store!AfterFailure(op[a].kind)) /\ UNCHANGED cfg
  <2> DEFINE pc1 == Store!AfterFailure(op[a].kind)
  <2>0. /\ pc1 \in {"idle", "undo", "restore"}
        /\ pc1 = "undo" => op[a].kind = "profile"
        /\ pc1 = "restore" => op[a].kind = "import"
        /\ pc1 = "idle" => op[a].kind \notin {"profile", "import"}
    BY Afters
  <2>1. Store!Fail(a, pc1)
    BY <1>7
  <2> HIDE DEF pc1
  <2>2. Moved(a, pc1) /\ ~op'[a].ok /\ pc1 \in Pcs
    BY <2>0, <2>1, FailIs DEF Pcs
  <2>3. OpsFit' /\ Alone' /\ Planned' /\ Tracked'
    BY <1>1, <1>2, <1>3, <1>7, <2>0, <2>2, Continues DEF Begun
  <2>4. StoreTypes'
    BY <1>1, <1>7, <2>2, StoreTyped DEF StoreTypes, Moved
  <2>5. Noted' /\ LegacyHeld'
    BY <1>1, <1>4, <1>7, <2>0, <2>2, StoreTyped, StoreNames DEF Noted, LegacyHeld, Moved
  <2>6. KeptSteps
    BY <1>1, <1>7, <2>0, <2>2, StoreNames
    DEF KeptSteps, AllOrNothingStep, ActiveStep, StatusStep, Moved, Store!Same
  <2> QED
    BY <2>3, <2>4, <2>5, <2>6 DEF StoreInv
<1> QED
  BY <1>6, <1>7 DEF Store!Write

LEMMA DiscardStep ==
    ASSUME StoreInv, NEW a \in Store!Actors, Store!Discard(a) PROVE StoreInv' /\ KeptSteps
<1>1. /\ op[a].pc = "discard"
      /\ UNCHANGED <<cfg, bak, profiles, backup, lock, shown, tick, edits, before, spoilt, met>>
      /\ draft' \in {draft, None}
  BY DEF Store!Discard, Store!counters, Store!ghosts
<1>2. op[a].kind = "save"
  BY <1>1, StoreTyped DEF OpsFit
<1>3. Moved(a, "idle") /\ "idle" \in Pcs
  BY GoIs, FailIs DEF Store!Discard, Pcs
<1>4. OpsFit' /\ Alone' /\ Planned' /\ Tracked'
  BY <1>1, <1>3, Continues DEF Begun
<1>5. StoreTypes'
  BY <1>1, <1>3, StoreTyped DEF StoreTypes, Moved
<1>6. Noted' /\ LegacyHeld'
  BY <1>1, <1>3, StoreTyped, StoreNames DEF Noted, LegacyHeld, Moved
<1>7. KeptSteps
  BY <1>1, <1>2, <1>3, StoreNames DEF KeptSteps, AllOrNothingStep, ActiveStep, StatusStep, Moved
<1> QED
  BY <1>4, <1>5, <1>6, <1>7 DEF StoreInv

LEMMA StoreStepA ==
    ASSUME StoreInv, NEW a \in Store!Actors, Store!Store(a) PROVE StoreInv' /\ KeptSteps
<1>1. /\ op[a].pc = "store"
      /\ UNCHANGED <<cfg, draft, bak, backup, lock, shown, tick, edits, before, spoilt, met>>
  BY DEF Store!Store, Store!counters, Store!ghosts
<1>2. op[a].ok /\ op[a].kind \in {"profile", "import"}
  BY <1>1, StoreTyped DEF OpsFit, Begun
<1>3. /\ a \notin met /\ op[a].kind = "profile" =>
            cfg = before[a].cfg /\ profiles = before[a].profiles
  BY <1>1, StoreTyped DEF Tracked
<1>4. CASE profiles' = op[a].next /\ Store!Go(a, Store!AfterStore(op[a]))
  <2> DEFINE pc1 == Store!AfterStore(op[a])
  <2>0. pc1 \in {"idle", "lock"} /\ (pc1 = "lock" => op[a].kind = "profile")
    BY Afters
  <2>a. pc1 = "idle" => ~(op[a].kind = "profile" /\ op[a].wcfg)
    BY Afters
  <2>1. Store!Go(a, pc1)
    BY <1>4
  <2> HIDE DEF pc1
  <2>2. Moved(a, pc1) /\ op'[a].ok /\ pc1 \in Pcs
    BY <1>2, <2>0, <2>1, GoIs DEF Pcs
  <2>3. OpsFit' /\ Alone' /\ Planned' /\ Tracked'
    BY <1>1, <1>3, <1>4, <2>0, <2>2, Continues
  <2>4. StoreTypes'
    BY <1>1, <1>4, <2>2, OpsParts, StoreTyped DEF StoreTypes, Moved
  <2>5. Noted' /\ LegacyHeld'
    BY <1>1, <2>0, <2>2, StoreTyped, StoreNames DEF Noted, LegacyHeld, Moved
  <2>6. KeptSteps
    BY <1>1, <2>0, <2>a, <2>2, StoreNames
    DEF KeptSteps, AllOrNothingStep, ActiveStep, StatusStep, Moved
  <2> QED
    BY <2>3, <2>4, <2>5, <2>6 DEF StoreInv
<1>5. CASE /\ Store!Fail(a, IF op[a].kind = "import" THEN "restore" ELSE "idle")
           /\ UNCHANGED profiles
  <2> DEFINE pc1 == IF op[a].kind = "import" THEN "restore" ELSE "idle"
  <2>0. pc1 \in {"idle", "restore"} /\ (pc1 = "restore" => op[a].kind = "import")
    OBVIOUS
  <2>a. pc1 = "idle" => op[a].kind = "profile"
    BY <1>2
  <2>1. Store!Fail(a, pc1)
    BY <1>5
  <2> HIDE DEF pc1
  <2>2. Moved(a, pc1) /\ ~op'[a].ok /\ pc1 \in Pcs
    BY <2>0, <2>1, FailIs DEF Pcs
  <2>3. OpsFit' /\ Alone' /\ Planned' /\ Tracked'
    BY <1>1, <1>3, <1>5, <2>0, <2>2, Continues DEF Begun
  <2>4. StoreTypes'
    BY <1>1, <1>5, <2>2, StoreTyped DEF StoreTypes, Moved
  <2>5. Noted' /\ LegacyHeld'
    BY <1>1, <2>0, <2>2, StoreTyped, StoreNames DEF Noted, LegacyHeld, Moved
  <2>6. AllOrNothingStep
    BY <1>1, <1>3, <1>5, <2>a, <2>2, StoreNames DEF AllOrNothingStep, Moved, Store!Same
  <2>7. ActiveStep /\ StatusStep
    BY <1>1, <2>2, StoreNames DEF ActiveStep, StatusStep, Moved
  <2> QED
    BY <2>3, <2>4, <2>5, <2>6, <2>7 DEF StoreInv, KeptSteps
<1> QED
  BY <1>4, <1>5 DEF Store!Store

\* The store as it was is put back, unless that fails too.
LEMMA UndoStep ==
    ASSUME StoreInv, NEW a \in Store!Actors, Store!Undo(a) PROVE StoreInv' /\ KeptSteps
<1>1. /\ op[a].pc = "undo" /\ Store!Go(a, "idle")
      /\ UNCHANGED <<cfg, draft, bak, backup, lock, shown, tick, edits, before, met>>
  BY DEF Store!Undo, Store!counters
<1>2. \/ profiles' = op[a].prev /\ UNCHANGED spoilt
      \/ spoilt' = TRUE /\ UNCHANGED profiles
  BY DEF Store!Undo, Store!Undone
<1>3. op[a].kind = "profile" /\ ~op[a].ok
  BY <1>1, StoreTyped DEF OpsFit
<1>4. Moved(a, "idle") /\ ~op'[a].ok /\ "idle" \in Pcs
  BY <1>1, <1>3, GoIs DEF Pcs
<1>5. OpsFit' /\ Alone' /\ Planned' /\ Tracked'
  BY <1>1, <1>4, Continues DEF Begun
<1>6. StoreTypes'
  BY <1>1, <1>2, <1>4, OpsParts, StoreTyped DEF StoreTypes, Moved
<1>7. Noted' /\ LegacyHeld'
  <2>1. spoilt \in BOOLEAN
    BY StoreTyped DEF StoreTypes
  <2>2. Noted'
    BY <1>1, <1>2, <1>4, <2>1, StoreTyped, StoreNames DEF Noted, Moved
  <2> QED
    BY <1>1, <1>4, <2>2, StoreTyped, StoreNames DEF LegacyHeld, Moved
<1>8. AllOrNothingStep
  <2>1. a \notin met => cfg = before[a].cfg
    BY <1>1, <1>3, StoreTyped DEF Tracked
  <2>2. /\ op[a].prev = Store!Ensured(before[a].profiles)
        /\ Store!Ensured(op[a].prev) = Store!Ensured(before[a].profiles)
    BY <1>3, StoreTyped, OpsParts, EnsuredIs DEF Planned
  <2> QED
    BY <1>1, <1>2, <1>4, <2>1, <2>2, StoreNames DEF AllOrNothingStep, Moved, Store!Same
<1>9. ActiveStep /\ StatusStep
  BY <1>1, <1>4, StoreNames DEF ActiveStep, StatusStep, Moved
<1> QED
  BY <1>5, <1>6, <1>7, <1>8, <1>9 DEF StoreInv, KeptSteps

LEMMA BackupStep ==
    ASSUME StoreInv, NEW a \in Store!Actors, Store!Backup(a) PROVE StoreInv' /\ KeptSteps
<1>1. /\ op[a].pc = "backup"
      /\ UNCHANGED <<cfg, draft, bak, profiles, lock, shown, tick, edits, spoilt, met>>
  BY DEF Store!Backup, Store!counters
<1>2. op[a].kind = "import" /\ op[a].ok
  BY <1>1, StoreTyped DEF OpsFit, Begun
<1>3. CASE before' = [before EXCEPT ![a] = [cfg |-> cfg, profiles |-> profiles]] /\ Store!Go(a, "lock")
  <2>1. Moved(a, "lock") /\ op'[a].ok /\ "lock" \in Pcs
    BY <1>2, <1>3, GoIs DEF Pcs
  <2>2. /\ before' \in [Store!Actors -> [cfg : Store!Configs, profiles : Stores]]
        /\ before'[a].cfg = cfg /\ \A b \in Store!Actors \ {a} : before'[b] = before[b]
    BY <1>3, StoreTyped DEF StoreTypes
  <2>3. OpsFit' /\ Alone' /\ Planned' /\ Tracked'
    BY <1>1, <1>2, <2>1, <2>2, Continues
  <2>4. StoreTypes'
    BY <1>1, <2>1, <2>2, StoreTyped DEF StoreTypes, Moved
  <2>5. Noted' /\ LegacyHeld'
    BY <1>1, <2>1, <2>2, StoreTyped, StoreNames DEF Noted, LegacyHeld, Moved
  <2>6. KeptSteps
    BY <2>1, KeptIfBusy DEF Moved
  <2> QED
    BY <2>3, <2>4, <2>5, <2>6 DEF StoreInv
<1>4. CASE Store!Fail(a, "idle") /\ UNCHANGED <<backup, before>>
  <2>1. Moved(a, "idle") /\ ~op'[a].ok /\ "idle" \in Pcs
    BY <1>4, FailIs DEF Pcs
  <2>2. OpsFit' /\ Alone' /\ Planned' /\ Tracked'
    BY <1>1, <1>4, <2>1, Continues DEF Begun
  <2>3. StoreTypes'
    BY <1>1, <1>4, <2>1, StoreTyped DEF StoreTypes, Moved
  <2>4. Noted' /\ LegacyHeld'
    BY <1>1, <1>4, <2>1, StoreTyped, StoreNames DEF Noted, LegacyHeld, Moved
  <2>5. a \notin met => cfg = before[a].cfg /\ profiles = before[a].profiles
    BY <1>1, StoreTyped DEF Tracked
  <2>6. KeptSteps
    BY <1>1, <2>1, <2>5, StoreNames
    DEF KeptSteps, AllOrNothingStep, ActiveStep, StatusStep, Moved, Store!Same
  <2> QED
    BY <2>2, <2>3, <2>4, <2>6 DEF StoreInv
<1> QED
  BY <1>3, <1>4 DEF Store!Backup

LEMMA RestoreStep ==
    ASSUME StoreInv, NEW a \in Store!Actors, Store!Restore(a) PROVE StoreInv' /\ KeptSteps
<1>1. /\ op[a].pc = "restore" /\ Store!Go(a, "idle")
      /\ UNCHANGED <<draft, bak, backup, lock, shown, tick, edits, before, met>>
  BY DEF Store!Restore, Store!counters
<1>2. /\ cfg' \in {cfg, before[a].cfg} /\ profiles' \in {profiles, before[a].profiles}
      /\ \/ /\ cfg' = before[a].cfg /\ profiles' = before[a].profiles
            /\ spoilt' = (spoilt \/ lock # None)
         \/ spoilt' = TRUE
  BY DEF Store!Restore, Store!Restored, Store!Free
<1>3. op[a].kind = "import"
  BY <1>1, StoreTyped DEF OpsFit
<1>4. Moved(a, "idle") /\ "idle" \in Pcs
  BY <1>1, GoIs DEF Pcs
<1>5. OpsFit' /\ Alone' /\ Planned' /\ Tracked'
  BY <1>1, <1>4, Continues DEF Begun
<1>6. StoreTypes'
  <2>1. spoilt' \in BOOLEAN
    BY <1>2, StoreTyped DEF StoreTypes
  <2> QED
    BY <1>1, <1>2, <1>4, <2>1, OpsParts, StoreTyped DEF StoreTypes, Moved
<1>7. Noted'
  <2>1. op[Probe].pc = "write" => lock # None
    BY StoreTyped, StoreNames DEF OpsFit
  <2> QED
    BY <1>2, <1>4, <2>1, StoreNames DEF Noted, Moved
<1>8. LegacyHeld'
  BY <1>1, <1>2, <1>4, StoreTyped DEF LegacyHeld, Moved
<1>9. KeptSteps
  BY <1>1, <1>2, <1>3, <1>4, StoreNames
  DEF KeptSteps, AllOrNothingStep, ActiveStep, StatusStep, Moved, Store!Same
<1> QED
  BY <1>5, <1>6, <1>7, <1>8, <1>9 DEF StoreInv

LEMMA StoreStep == ASSUME StoreInv, Store!Next PROVE StoreInv' /\ KeptSteps
<1>1. CASE \E c \in Callers : Store!Begin(c)
  BY <1>1, PageSteps, SaveStep, ProfileStep, ImportStep, WebDAVStep DEF Store!Begin
<1>2. CASE Store!RecentRun \/ Store!Status
  BY <1>2, RecentRunStep, StatusBegins
<1>3. CASE \E a \in Store!Actors : Store!Continue(a)
  BY <1>3, LockStep, WriteStep, DiscardStep, StoreStepA, UndoStep, BackupStep, RestoreStep
  DEF Store!Continue
<1> QED
  BY <1>1, <1>2, <1>3 DEF Store!Next

LEMMA StoreInit == Store!Init => StoreInv
<1> SUFFICES ASSUME Store!Init PROVE StoreInv
  OBVIOUS
<1>1. cfg \in Store!Configs /\ profiles = Store!Empty /\ profiles \in Stores
  BY ConfigIs, BlankIs, StoreNames DEF Store!Init, Store!Legacy
<1>2. /\ op \in [Store!Actors -> Ops]
      /\ \A a \in Store!Actors : op[a].pc = "idle" /\ op[a].kind = "none"
  BY IdleIs DEF Store!Init
<1>3. /\ before \in [Store!Actors -> [cfg : Store!Configs, profiles : Stores]]
      /\ \A a \in Store!Actors : before[a].cfg = cfg
  BY <1>1 DEF Store!Init
<1>4. StoreTypes
  <2>1. shown \in [Callers -> Store!Configs] /\ edits \in 0 .. MaxEdits /\ tick \in Nat
    BY <1>1, StoreNames DEF Store!Init
  <2>2. draft = None /\ bak = None /\ lock = None /\ spoilt = FALSE /\ met = {}
    BY DEF Store!Init
  <2> QED
    BY <1>1, <1>2, <1>3, <2>1, <2>2 DEF StoreTypes
<1>5. OpsFit /\ Alone /\ Planned /\ Tracked
  BY <1>2 DEF OpsFit, Alone, Planned, Tracked, Begun
<1>6. Noted
  BY <1>2, StoreNames DEF Noted
<1>7. LegacyHeld
  BY <1>2, <1>3 DEF LegacyHeld, Store!Init
<1> QED
  BY <1>4, <1>5, <1>6, <1>7 DEF StoreInv

LEMMA StoreStays == StoreInv /\ UNCHANGED storeVars => StoreInv' /\ KeptSteps
<1> SUFFICES ASSUME StoreInv, UNCHANGED storeVars PROVE StoreInv' /\ KeptSteps
  OBVIOUS
<1> QED
  BY PagesStep, StoreTyped DEF storeVars, StoreTypes

LEMMA StoreIsSafe == StoreInv => Store!Safety
<1> SUFFICES ASSUME StoreInv PROVE Store!Safety
  OBVIOUS
<1>1. \A s \in Stores : Store!IsStore(s)
  <2> SUFFICES ASSUME NEW s \in Stores PROVE Store!IsStore(s)
    OBVIOUS
  <2>1. /\ s.active \in Store!AllIds \cup {None} /\ Distinct(s.items)
        /\ DOMAIN s.items = 1 .. Len(s.items)
        /\ \A i \in 1 .. Len(s.items) : s.items[i].id \in Store!AllIds /\ s.items[i].src \in Store!AnySrc
    BY StoreParts, ItemParts
  <2> QED
    BY <2>1 DEF Store!IsStore, Distinct
<1>2. Store!TypeOK
  BY <1>1, StoreTyped DEF Store!TypeOK, StoreTypes, Ops
<1>3. Store!LegacyKept
  BY StoreTyped DEF Store!LegacyKept, LegacyHeld
<1> QED
  BY <1>2, <1>3 DEF Store!Safety

-----------------------------------------------------------------------------
(* The storage and its migration.                                          *)

\* The copies of the background and the steps that are left of a copy.
Background == {"config", "draft", "tasks"}
TodoOf == [bootstrap |-> {<<"desktop-config.json", "config.json", "cfip-log.txt">>,
                          <<"config.json", "cfip-log.txt">>, <<"cfip-log.txt">>, <<>>},
           layered |-> {<<"logs">>, <<"config", "draft", "tasks">>, <<"draft", "tasks">>,
                        <<"tasks">>, <<>>}]
StorageTypes ==
    /\ disk \in [Storage!Paths -> Storage!Contents] /\ disk["desktop-draft.json"] = "old"
    /\ custom \subseteq {"desktop-config.json", "cfip-log.txt"}
    /\ json \in [exists : BOOLEAN, dir : {NoDir, Fixed, Custom}, legacy : {NoDir, Custom},
                 attempted : BOOLEAN, failed : BOOLEAN, steps : SUBSET Storage!Steps,
                 errors : SUBSET Storage!Steps, layered : BOOLEAN]
    /\ main \in {"down", "resolving", "moving", "up"}
    /\ moves \in [Storage!Jobs ->
         [pc : {"idle", "next", "open", "copy", "write", "done", "wait", "over"},
          todo : TodoOf["bootstrap"] \cup TodoOf["layered"], reads : Storage!Contents,
          steps : SUBSET (Storage!Steps \cup Storage!Paths),
          errors : SUBSET (Storage!Steps \cup Storage!Paths), layered : BOOLEAN]]
    /\ diskFaults \in 0 .. FileFaults /\ stops \in 0 .. Stops /\ attempts \in Nat
    /\ held \subseteq {"cfip-log.txt", "config.json"} /\ cleaned \in BOOLEAN
LayeredTypes == 
    /\ moves["layered"].todo \in TodoOf["layered"]
    /\ moves["layered"].pc \in {"idle", "next", "open", "copy", "wait", "over"}
    /\ moves["layered"].steps \cup moves["layered"].errors \subseteq Storage!Steps
BootstrapTypes == 
    /\ moves["bootstrap"].todo \in TodoOf["bootstrap"]
    /\ moves["bootstrap"].pc \in {"idle", "next", "open", "copy", "write", "done"}
Copying(j) == moves[j].pc \in {"open", "copy"}
Running(j) == moves[j].pc = "next" \/ Copying(j)
PhasesFit ==
    /\ \A j \in Storage!Jobs : Copying(j) => moves[j].todo # <<>>
    /\ Copying("layered") => Head(moves["layered"].todo) # "draft"
    /\ moves["bootstrap"].pc # "idle" => main \in {"resolving", "up"}
    /\ main = "moving" => Running("layered") /\ moves["layered"].todo \in {<<"logs">>, <<>>}
    /\ main = "up" => moves["layered"].todo # <<"logs">>
    /\ main \in {"down", "resolving"} => moves["layered"].pc = "idle"
StepsTold ==
    /\ json.layered => Background \subseteq json.steps
    /\ moves["layered"].layered => Background \subseteq moves["layered"].steps
    /\ main = "up" /\ Running("layered") =>
         \A s \in Background : \/ s \in moves["layered"].steps \cup moves["layered"].errors
                               \/ \E i \in DOMAIN moves["layered"].todo :
                                     moves["layered"].todo[i] = s
LogMoves ==
    moves["layered"].pc = "copy" /\ moves["layered"].todo = <<"logs">> =>
        /\ disk["logs/cfip-log.txt"] = Partial
        /\ moves["layered"].reads = disk["cfip-log.txt"]
OldThere ==
    ~cleaned =>
        /\ "config.json" \in held => disk["config.json"] = "old"
        /\ "cfip-log.txt" \in held =>
              disk["cfip-log.txt"] = "old" \/ disk["logs/cfip-log.txt"] = "old"
AttemptsTold ==
    /\ attempts <= 1 + diskFaults + stops
    /\ json.dir = Custom /\ ~(json.legacy = Custom /\ json.attempted) /\ ~Running("bootstrap") =>
         attempts <= diskFaults + stops
    /\ json.attempted \/ Running("bootstrap") => attempts > 0
StorageInv ==
    /\ StorageTypes /\ LayeredTypes /\ BootstrapTypes /\ PhasesFit /\ StepsTold
    /\ LogMoves /\ OldThere /\ AttemptsTold

LEMMA StorageNames ==
    /\ None # Partial /\ Custom # NoDir /\ Custom # Fixed
    /\ None \notin {"old", "custom", "newer"} /\ Partial \notin {"old", "custom", "newer"}
    /\ FileFaults \in Nat /\ Stops \in Nat
  BY StorageAssumption DEF StorageAssumption, Storage!BoundsAssumption, Storage!NamesAssumption

LEMMA StorageSets ==
    /\ Storage!Steps = {"logs", "config", "draft", "tasks"}
    /\ Storage!Paths = {"cfip-log.txt", "config.json", "desktop-draft.json", "tasks",
                        "logs/cfip-log.txt", "desktop-config.json", "task-data"}
    /\ Storage!LegacyOf["logs"] = "cfip-log.txt" /\ Storage!LegacyOf["config"] = "config.json"
    /\ Storage!LegacyOf["draft"] = "desktop-draft.json" /\ Storage!LegacyOf["tasks"] = "tasks"
    /\ Storage!TargetOf["logs"] = "logs/cfip-log.txt"
    /\ Storage!TargetOf["config"] = "desktop-config.json"
    /\ Storage!TargetOf["draft"] = "desktop-draft.json" /\ Storage!TargetOf["tasks"] = "task-data"
<1>1. Storage!Steps = {"logs", "config", "draft", "tasks"}
  BY DEF Storage!Steps, Storage!LegacyOf
<1>2. \A s \in Storage!Steps : Storage!LegacyOf[s] = (CASE s = "logs" -> "cfip-log.txt"
        [] s = "config" -> "config.json" [] s = "draft" -> "desktop-draft.json" [] s = "tasks" -> "tasks")
  BY <1>1 DEF Storage!LegacyOf
<1>3. \A s \in Storage!Steps : Storage!TargetOf[s] = (CASE s = "logs" -> "logs/cfip-log.txt"
        [] s = "config" -> "desktop-config.json" [] s = "draft" -> "desktop-draft.json" [] s = "tasks" -> "task-data")
  BY <1>1 DEF Storage!TargetOf
<1>4. Storage!Paths = {Storage!LegacyOf[s] : s \in {"logs", "config", "draft", "tasks"}}
                      \cup {Storage!TargetOf[s] : s \in {"logs", "config", "draft", "tasks"}}
  BY <1>1 DEF Storage!Paths
<1> QED
  BY <1>1, <1>2, <1>3, <1>4

LEMMA Tails ==
    ASSUME NEW j \in Storage!Jobs, NEW todo \in TodoOf[j], todo # <<>>
    PROVE  /\ Tail(todo) \in TodoOf[j]
           /\ Head(todo) \in IF j = "bootstrap"
                             THEN {"desktop-config.json", "config.json", "cfip-log.txt"}
                             ELSE {"logs", "config", "draft", "tasks"}
           /\ \A i \in DOMAIN todo : \/ todo[i] = Head(todo)
                                     \/ \E k \in DOMAIN Tail(todo) : Tail(todo)[k] = todo[i]
           /\ todo = <<"logs">> => Head(todo) = "logs" /\ Tail(todo) = <<>>
           /\ todo # <<"logs">> => Head(todo) # "logs" /\ Tail(todo) # <<"logs">>
<1>1. CASE j = "bootstrap"
  <2>1. todo \in {<<"desktop-config.json", "config.json", "cfip-log.txt">>,
                  <<"config.json", "cfip-log.txt">>, <<"cfip-log.txt">>}
    BY <1>1 DEF TodoOf
  <2>2. CASE todo = <<"desktop-config.json", "config.json", "cfip-log.txt">>
    BY <2>2, <1>1 DEF TodoOf
  <2>3. CASE todo = <<"config.json", "cfip-log.txt">>
    BY <2>3, <1>1 DEF TodoOf
  <2>4. CASE todo = <<"cfip-log.txt">>
    BY <2>4, <1>1 DEF TodoOf
  <2> QED
    BY <2>1, <2>2, <2>3, <2>4
<1>2. CASE j = "layered"
  <2>1. todo \in {<<"logs">>, <<"config", "draft", "tasks">>, <<"draft", "tasks">>, <<"tasks">>}
    BY <1>2 DEF TodoOf
  <2>2. CASE todo = <<"logs">>
    BY <2>2, <1>2 DEF TodoOf
  <2>3. CASE todo = <<"config", "draft", "tasks">>
    BY <2>3, <1>2 DEF TodoOf
  <2>4. CASE todo = <<"draft", "tasks">>
    BY <2>4, <1>2 DEF TodoOf
  <2>5. CASE todo = <<"tasks">>
    BY <2>5, <1>2 DEF TodoOf
  <2> QED
    BY <2>1, <2>2, <2>3, <2>4, <2>5
<1> QED
  BY <1>1, <1>2 DEF Storage!Jobs

LEMMA StorageIdle ==
    /\ Storage!Idle = [pc |-> "idle", todo |-> <<>>, reads |-> None, steps |-> {}, errors |-> {},
                       layered |-> FALSE]
    /\ Storage!Absent = [exists |-> FALSE, dir |-> NoDir, legacy |-> NoDir, attempted |-> FALSE,
                         failed |-> FALSE, steps |-> {}, errors |-> {}, layered |-> FALSE]
    /\ Storage!Bootstrap = [exists |-> TRUE, dir |-> Fixed, legacy |-> json.legacy,
                            attempted |-> json.attempted, failed |-> json.failed, steps |-> {},
                            errors |-> {}, layered |-> FALSE]
<1>1. Storage!Idle = [pc |-> "idle", todo |-> <<>>, reads |-> None, steps |-> {}, errors |-> {},
                      layered |-> FALSE]
  BY DEF Storage!Idle
<1>2. Storage!Absent = [exists |-> FALSE, dir |-> NoDir, legacy |-> NoDir, attempted |-> FALSE,
                        failed |-> FALSE, steps |-> {}, errors |-> {}, layered |-> FALSE]
  BY DEF Storage!Absent
<1> DEFINE a == Storage!Absent
<1>4. a \in [exists : {FALSE}, dir : {NoDir}, legacy : {NoDir}, attempted : {FALSE},
             failed : {FALSE}, steps : {{}}, errors : {{}}, layered : {FALSE}]
  BY <1>2
<1>3. Storage!Bootstrap = [exists |-> TRUE, dir |-> Fixed, legacy |-> json.legacy,
                           attempted |-> json.attempted, failed |-> json.failed, steps |-> {},
                           errors |-> {}, layered |-> FALSE]
  <2>1. Storage!Bootstrap =
          [a EXCEPT !.exists = TRUE, !.dir = Fixed, !.legacy = json.legacy,
                    !.attempted = json.attempted, !.failed = json.failed]
    BY DEF Storage!Bootstrap
  <2> HIDE DEF a
  <2> QED
    BY <2>1, <1>4
<1> QED
  BY <1>1, <1>2, <1>3

WorkSet ==
    [pc : {"idle", "next", "open", "copy", "write", "done", "wait", "over"},
     todo : TodoOf["bootstrap"] \cup TodoOf["layered"], reads : Storage!Contents,
     steps : SUBSET (Storage!Steps \cup Storage!Paths),
     errors : SUBSET (Storage!Steps \cup Storage!Paths), layered : BOOLEAN]

\* The file at the head of the list of j is done with, well or not.
Passes(j) ==
    LET w == moves[j]
        v == moves'[j]
        item == Head(w.todo)
    IN  /\ v.pc = "next" /\ v.todo = Tail(w.todo)
        /\ w.steps \subseteq v.steps /\ v.steps \subseteq w.steps \cup {item}
        /\ w.errors \subseteq v.errors \cup {item} /\ v.errors \subseteq w.errors \cup {item}
        /\ item \in v.steps \cup v.errors

LEMMA JobTypes ==
    ASSUME StorageInv, NEW j \in Storage!Jobs
    PROVE  /\ moves[j] \in WorkSet /\ moves[j].todo \in TodoOf[j]
           /\ moves[j].todo # <<>> => Head(moves[j].todo) \in Storage!Steps \cup Storage!Paths
<1>1. moves[j] \in WorkSet
  BY DEF StorageInv, StorageTypes, WorkSet
<1>2. moves[j].todo \in TodoOf[j]
  BY DEF StorageInv, LayeredTypes, BootstrapTypes, Storage!Jobs
<1> QED
  BY <1>1, <1>2, Tails, StorageSets

LEMMA Ending ==
    ASSUME StorageInv, NEW j \in Storage!Jobs, moves[j].todo # <<>>,
           Storage!Succeed(j) \/ Storage!Fail(j)
    PROVE  /\ moves' \in [Storage!Jobs -> WorkSet] /\ Passes(j) /\ moves'[j].reads = None
           /\ moves'[j].layered = moves[j].layered
           /\ \A i \in Storage!Jobs \ {j} : moves'[i] = moves[i]
<1> DEFINE w == moves[j]
           item == Head(w.todo)
<1>0. w \in WorkSet /\ w.todo \in TodoOf[j] /\ item \in Storage!Steps \cup Storage!Paths
  BY JobTypes
<1>1. Tail(w.todo) \in TodoOf[j]
  BY <1>0, Tails
<1>2. TodoOf[j] \subseteq TodoOf["bootstrap"] \cup TodoOf["layered"]
  BY DEF Storage!Jobs
<1>3. moves \in [Storage!Jobs -> WorkSet]
  BY DEF StorageInv, StorageTypes, WorkSet
<1>4. None \in Storage!Contents
  BY DEF Storage!Contents
<1>5. CASE Storage!Succeed(j)
  <2> DEFINE v == [w EXCEPT !.pc = "next", !.todo = Tail(@), !.reads = None,
                            !.steps = @ \cup {item},
                            !.errors = IF Storage!Directory(j) THEN @ ELSE @ \ {item}]
  <2>1. moves' = [moves EXCEPT ![j] = v]
    BY <1>5, <1>3 DEF Storage!Succeed, Storage!Item
  <2>2. v \in WorkSet
    BY <1>0, <1>1, <1>2, <1>4 DEF WorkSet
  <2>3. /\ v.pc = "next" /\ v.todo = Tail(w.todo) /\ v.reads = None /\ v.steps = w.steps \cup {item}
        /\ v.errors = (IF Storage!Directory(j) THEN w.errors ELSE w.errors \ {item})
        /\ v.layered = w.layered
    BY <1>0 DEF WorkSet
  <2> HIDE DEF v
  <2>4. moves'[j] = v /\ moves' \in [Storage!Jobs -> WorkSet]
        /\ \A i \in Storage!Jobs \ {j} : moves'[i] = moves[i]
    BY <2>1, <2>2, <1>3
  <2> QED
    BY <2>3, <2>4 DEF Passes
<1>6. CASE Storage!Fail(j)
  <2> DEFINE v == [w EXCEPT !.pc = "next", !.todo = Tail(@), !.reads = None,
                            !.errors = @ \cup {item}]
  <2>1. moves' = [moves EXCEPT ![j] = v]
    BY <1>6, <1>3 DEF Storage!Fail, Storage!Item
  <2>2. v \in WorkSet
    BY <1>0, <1>1, <1>2, <1>4 DEF WorkSet
  <2>3. /\ v.pc = "next" /\ v.todo = Tail(w.todo) /\ v.reads = None /\ v.steps = w.steps
        /\ v.errors = w.errors \cup {item} /\ v.layered = w.layered
    BY <1>0 DEF WorkSet
  <2> HIDE DEF v
  <2>4. moves'[j] = v /\ moves' \in [Storage!Jobs -> WorkSet]
        /\ \A i \in Storage!Jobs \ {j} : moves'[i] = moves[i]
    BY <2>1, <2>2, <1>3
  <2> QED
    BY <2>3, <2>4 DEF Passes
<1> QED
  BY <1>5, <1>6

\* The file at the head of the list of j is still to be copied.
Stays(j) ==
    LET w == moves[j]
        v == moves'[j]
    IN  /\ v.pc \in {"open", "copy"} /\ v.todo = w.todo /\ v.steps = w.steps
        /\ v.errors = w.errors

Copies(j) == Storage!Look(j) \/ Storage!CopyOpen(j) \/ Storage!CopyDone(j) \/ Storage!CopyFails(j)

LEMMA FaultCounted ==
    ASSUME StorageInv, Storage!Fault \/ UNCHANGED diskFaults
    PROVE  diskFaults' \in 0 .. FileFaults /\ diskFaults <= diskFaults'
  BY StorageNames DEF StorageInv, StorageTypes, Storage!Fault

LEMMA CopyMoves ==
    ASSUME StorageInv, NEW j \in Storage!Jobs, Copies(j)
    PROVE  /\ Running(j) /\ moves[j].todo # <<>>
           /\ moves' \in [Storage!Jobs -> WorkSet]
           /\ moves'[j].layered = moves[j].layered
           /\ \A i \in Storage!Jobs \ {j} : moves'[i] = moves[i]
           /\ Passes(j) \/ (Stays(j) /\ Copying(j))
              \/ (Stays(j) /\ moves'[j].pc = "open" /\ ~Storage!Passed(j) /\ Storage!Look(j))
           /\ UNCHANGED <<custom, json, main, stops, held, attempts, cleaned>>
           /\ diskFaults' \in 0 .. FileFaults /\ diskFaults <= diskFaults'
<1>0. moves[j] \in WorkSet /\ moves \in [Storage!Jobs -> WorkSet]
  BY JobTypes DEF StorageInv, StorageTypes, WorkSet
<1>1. UNCHANGED <<custom, json, main, stops, held, attempts, cleaned>>
  BY DEF Copies, Storage!Look, Storage!CopyOpen, Storage!CopyDone, Storage!CopyFails, Storage!ghosts
<1>2. diskFaults' \in 0 .. FileFaults /\ diskFaults <= diskFaults'
  <2>1. Storage!Fault \/ UNCHANGED diskFaults
    BY DEF Copies, Storage!Look, Storage!CopyOpen, Storage!CopyDone, Storage!CopyFails, Storage!NoFault
  <2> QED
    BY <2>1, FaultCounted
<1>3. Running(j) /\ moves[j].todo # <<>>
  BY DEF Copies, Storage!Look, Storage!CopyOpen, Storage!CopyDone, Storage!CopyFails, Running, Copying,
         StorageInv, PhasesFit
<1>4. CASE Storage!Succeed(j) \/ Storage!Fail(j)
  BY <1>1, <1>2, <1>3, <1>4, Ending
<1>5. CASE Storage!Look(j) /\ Storage!Passed(j) /\
           moves' = [moves EXCEPT ![j].todo = Tail(@), ![j].steps = @ \cup {Storage!Item(j)}]
  <2> DEFINE w == moves[j]
             item == Head(w.todo)
             v == [w EXCEPT !.todo = Tail(@), !.steps = @ \cup {item}]
  <2>0. w \in WorkSet /\ w.todo \in TodoOf[j] /\ item \in Storage!Steps \cup Storage!Paths
    BY JobTypes, <1>3
  <2>1. Tail(w.todo) \in TodoOf["bootstrap"] \cup TodoOf["layered"]
    BY <2>0, <1>3, Tails DEF Storage!Jobs
  <2>2. moves' = [moves EXCEPT ![j] = v]
    BY <1>5, <1>0 DEF Storage!Item
  <2>3. v \in WorkSet
    BY <2>0, <2>1 DEF WorkSet
  <2>4. /\ v.pc = w.pc /\ v.todo = Tail(w.todo) /\ v.steps = w.steps \cup {item}
        /\ v.errors = w.errors /\ v.layered = w.layered
    BY <2>0 DEF WorkSet
  <2>5. w.pc = "next"
    BY <1>5 DEF Storage!Look
  <2> HIDE DEF v
  <2>6. moves'[j] = v /\ moves' \in [Storage!Jobs -> WorkSet]
        /\ \A i \in Storage!Jobs \ {j} : moves'[i] = moves[i]
    BY <2>2, <2>3, <1>0
  <2>7. Passes(j)
    BY <2>4, <2>5, <2>6 DEF Passes
  <2> QED
    BY <1>1, <1>2, <1>3, <2>4, <2>6, <2>7
<1>6. CASE Storage!Look(j) /\ ~Storage!Passed(j) /\ moves' = [moves EXCEPT ![j].pc = "open"]
  <2> DEFINE w == moves[j]
             v == [w EXCEPT !.pc = "open"]
  <2>1. moves' = [moves EXCEPT ![j] = v]
    BY <1>6, <1>0
  <2>2. v \in WorkSet /\ v.pc = "open" /\ v.todo = w.todo /\ v.steps = w.steps /\ v.errors = w.errors
        /\ v.layered = w.layered
    BY <1>0 DEF WorkSet
  <2> HIDE DEF v
  <2>3. moves'[j] = v /\ moves' \in [Storage!Jobs -> WorkSet]
        /\ \A i \in Storage!Jobs \ {j} : moves'[i] = moves[i]
    BY <2>1, <2>2, <1>0
  <2>4. Stays(j)
    BY <2>2, <2>3 DEF Stays
  <2> QED
    BY <1>1, <1>2, <1>3, <1>6, <2>2, <2>3, <2>4
<1>7. CASE /\ Storage!CopyOpen(j)
           /\ moves' = [moves EXCEPT ![j].pc = "copy", ![j].reads = Storage!Source(j)]
  <2> DEFINE w == moves[j]
             v == [w EXCEPT !.pc = "copy", !.reads = Storage!Source(j)]
  <2>1. moves' = [moves EXCEPT ![j] = v]
    BY <1>7, <1>0
  <2>5. Storage!Source(j) \in Storage!Contents
    <3>1. CASE j = "bootstrap"
      BY <3>1 DEF Storage!Source, Storage!Contents
    <3>2. CASE j = "layered"
      <4>1. Head(moves["layered"].todo) \in Storage!Steps
        BY <1>3, <3>2, JobTypes, Tails, StorageSets
      <4>2. Storage!LegacyOf[Head(moves["layered"].todo)] \in Storage!Paths
        BY <4>1 DEF Storage!Paths
      <4> QED
        BY <3>2, <4>2 DEF Storage!Source, Storage!Item, StorageInv, StorageTypes
    <3> QED
      BY <3>1, <3>2 DEF Storage!Jobs
  <2>2. v \in WorkSet /\ v.pc = "copy" /\ v.todo = w.todo /\ v.steps = w.steps /\ v.errors = w.errors
        /\ v.layered = w.layered
    BY <1>0, <2>5 DEF WorkSet
  <2> HIDE DEF v
  <2>3. moves'[j] = v /\ moves' \in [Storage!Jobs -> WorkSet]
        /\ \A i \in Storage!Jobs \ {j} : moves'[i] = moves[i]
    BY <2>1, <2>2, <1>0
  <2>4. Stays(j) /\ Copying(j)
    BY <2>2, <2>3, <1>7 DEF Stays, Copying, Storage!CopyOpen
  <2> QED
    BY <1>1, <1>2, <1>3, <2>2, <2>3, <2>4
<1>8. \/ Storage!Succeed(j) \/ Storage!Fail(j)
      \/ Storage!Look(j) /\ Storage!Passed(j) /\
         moves' = [moves EXCEPT ![j].todo = Tail(@), ![j].steps = @ \cup {Storage!Item(j)}]
      \/ Storage!Look(j) /\ ~Storage!Passed(j) /\ moves' = [moves EXCEPT ![j].pc = "open"]
      \/ /\ Storage!CopyOpen(j)
         /\ moves' = [moves EXCEPT ![j].pc = "copy", ![j].reads = Storage!Source(j)]
  BY DEF Copies, Storage!Look, Storage!CopyOpen, Storage!CopyDone, Storage!CopyFails
<1> QED
  BY <1>4, <1>5, <1>6, <1>7, <1>8

\* A file that is not a log is copied to a path that holds no whole file, or taken away again.
LEMMA CopyDisk ==
    ASSUME StorageInv, NEW j \in Storage!Jobs, Copies(j),
           j = "layered" => Head(moves["layered"].todo) # "logs"
    PROVE  \/ UNCHANGED disk
           \/ \E t \in Storage!Paths \ {"desktop-draft.json", "logs/cfip-log.txt"},
                 x \in Storage!Contents :
                /\ disk' = [disk EXCEPT ![t] = x]
                /\ disk[t] \in {None, Partial} \/ (x = None /\ t \in {"desktop-config.json", "task-data"})
<1> DEFINE item == Head(moves[j].todo)
           t == Storage!Target(j)
<1>1. moves[j].todo # <<>> /\ moves[j].todo \in TodoOf[j] /\ moves[j] \in WorkSet
  BY CopyMoves, JobTypes
<1>2. disk \in [Storage!Paths -> Storage!Contents] /\ None \in Storage!Contents /\ Partial \in Storage!Contents
  BY DEF StorageInv, StorageTypes, Storage!Contents
<1>3. ~Storage!Moves(j)
  BY DEF Storage!Moves, Storage!Item
<1>4. UNCHANGED disk \/ t \in Storage!Paths \ {"desktop-draft.json", "logs/cfip-log.txt"}
  <2>1. CASE j = "bootstrap"
    BY <1>1, <2>1, Tails, StorageSets DEF Storage!Target, Storage!Item
  <2>2. CASE j = "layered" /\ item # "draft"
    BY <1>1, <2>2, Tails, StorageSets DEF Storage!Target, Storage!Item
  <2>3. CASE j = "layered" /\ item = "draft"
    <3>1. ~Copying(j)
      BY <2>3 DEF StorageInv, PhasesFit
    <3>2. Storage!Look(j)
      BY <3>1 DEF Copies, Copying, Storage!CopyOpen, Storage!CopyDone, Storage!CopyFails
    <3>3. Storage!Passed(j)
      BY <2>3, StorageSets DEF Storage!Passed, Storage!Directory, Storage!Item
    <3> QED
      BY <3>2, <3>3 DEF Storage!Look
  <2> QED
    BY <2>1, <2>2, <2>3 DEF Storage!Jobs
<1>5. j = "layered" => t \in {"desktop-config.json", "task-data"} \/ UNCHANGED disk
  BY <1>1, <1>4, Tails, StorageSets DEF Storage!Target, Storage!Item
<1>6. \/ UNCHANGED disk
      \/ \E x \in Storage!Contents : /\ disk' = [disk EXCEPT ![t] = x]
                                     /\ disk[t] \in {None, Partial} \/ (x = None /\ j = "layered")
  <2>1. CASE Storage!Look(j)
    BY <2>1, <1>3 DEF Storage!Look
  <2>2. CASE Storage!CopyOpen(j)
    BY <2>2, <1>2 DEF Storage!CopyOpen, Storage!Opened, Storage!Exclusive
  <2>3. CASE Storage!CopyDone(j)
    <3>1. disk' = [disk EXCEPT ![t] = IF @ = Partial THEN moves[j].reads ELSE @]
      BY <2>3, <1>3 DEF Storage!CopyDone, Storage!Filled
    <3>2. moves[j].reads \in Storage!Contents
      BY <1>1 DEF WorkSet
    <3>3. CASE disk[t] = Partial /\ t \in Storage!Paths
      <4>1. disk' = [disk EXCEPT ![t] = moves[j].reads]
        BY <3>1, <3>3, <1>2
      <4> QED
        BY <4>1, <3>2, <3>3
    <3>4. CASE ~(disk[t] = Partial /\ t \in Storage!Paths)
      BY <3>1, <3>4, <1>2
    <3> QED
      BY <3>3, <3>4
  <2>4. CASE Storage!CopyFails(j)
    BY <2>4, <1>2 DEF Storage!CopyFails, Storage!Jobs
  <2> QED
    BY <2>1, <2>2, <2>3, <2>4 DEF Copies
<1> QED
  BY <1>4, <1>5, <1>6

\* What a step that copies another file than a log keeps of the files.
LEMMA OtherCopies ==
    ASSUME StorageInv, NEW j \in Storage!Jobs, Copies(j),
           j = "layered" => Head(moves["layered"].todo) # "logs"
    PROVE  /\ disk' \in [Storage!Paths -> Storage!Contents] /\ disk'["desktop-draft.json"] = "old"
           /\ LogMoves' /\ OldThere'
           /\ disk["desktop-config.json"] = "newer" => disk'["desktop-config.json"] \in {"newer", None}
<1>1. /\ disk \in [Storage!Paths -> Storage!Contents] /\ disk["desktop-draft.json"] = "old"
      /\ LogMoves /\ OldThere
  BY DEF StorageInv, StorageTypes
<1>2. UNCHANGED <<held, cleaned, main>>
  BY CopyMoves
<1>3. \/ UNCHANGED disk
      \/ \E t \in Storage!Paths \ {"desktop-draft.json", "logs/cfip-log.txt"}, x \in Storage!Contents :
           /\ disk' = [disk EXCEPT ![t] = x]
           /\ disk[t] \in {None, Partial} \/ (x = None /\ t \in {"desktop-config.json", "task-data"})
  BY CopyDisk
<1>4. ASSUME moves["layered"].todo = <<"logs">>, Copying("layered") PROVE FALSE
  <2>1. j = "bootstrap"
    BY <1>4 DEF Storage!Jobs
  <2>2. main \in {"resolving", "up"}
    BY <2>1, CopyMoves DEF StorageInv, PhasesFit, Running, Copying
  <2> QED
    BY <2>2, <1>4 DEF StorageInv, PhasesFit, Copying
<1>5. LogMoves'
  <2> SUFFICES ASSUME moves'["layered"].pc = "copy", moves'["layered"].todo = <<"logs">> PROVE FALSE
    BY DEF LogMoves
  <2>1. CASE j = "bootstrap"
    BY <2>1, <1>4, CopyMoves DEF Storage!Jobs, Copying
  <2>2. CASE j = "layered"
    <3>1. moves["layered"].todo # <<"logs">>
      BY <2>2, CopyMoves, Tails, JobTypes
    <3>2. Passes(j)
      BY <2>2, <3>1, CopyMoves DEF Stays
    <3> QED
      BY <2>2, <3>2 DEF Passes
  <2> QED
    BY <2>1, <2>2 DEF Storage!Jobs
<1>6. OldThere'
  BY <1>1, <1>2, <1>3, StorageNames, StorageSets DEF OldThere
<1> QED
  BY <1>1, <1>3, <1>5, <1>6, StorageNames, StorageSets

\* A log is moved: it is at its old place or at its new one, and whole.
LEMMA LogCopies ==
    ASSUME StorageInv, Copies("layered"), Head(moves["layered"].todo) = "logs"
    PROVE  /\ disk' \in [Storage!Paths -> Storage!Contents] /\ disk'["desktop-draft.json"] = "old"
           /\ LogMoves' /\ OldThere'
           /\ disk'["desktop-config.json"] = disk["desktop-config.json"]
<1>0. /\ disk \in [Storage!Paths -> Storage!Contents] /\ disk["desktop-draft.json"] = "old"
      /\ LogMoves /\ OldThere /\ None \in Storage!Contents /\ Partial \in Storage!Contents
  BY DEF StorageInv, StorageTypes, Storage!Contents
<1>1. /\ moves["layered"].todo = <<"logs">> /\ moves["layered"] \in WorkSet
      /\ moves' \in [Storage!Jobs -> WorkSet]
  BY CopyMoves, JobTypes, Tails DEF Storage!Jobs
<1>2. UNCHANGED <<held, cleaned, main>>
  BY CopyMoves DEF Storage!Jobs
<1>3. /\ Storage!Item("layered") = "logs" /\ Storage!Target("layered") = "logs/cfip-log.txt"
      /\ Storage!Source("layered") = disk["cfip-log.txt"] /\ Storage!Moves("layered")
  BY StorageSets DEF Storage!Item, Storage!Target, Storage!Source, Storage!Moves
<1>9. moves \in [Storage!Jobs -> WorkSet] /\ "layered" \in Storage!Jobs
  BY DEF StorageInv, StorageTypes, WorkSet, Storage!Jobs
<1>4. Passes("layered") => LogMoves'
  BY DEF Passes, LogMoves
<1>5. CASE Storage!Look("layered") /\ ~Passes("layered")
  <2>1. UNCHANGED disk /\ moves'["layered"].pc = "open"
    <3>1. Stays("layered") /\ moves'["layered"].pc = "open"
      BY <1>5, CopyMoves DEF Storage!Jobs, Copying, Storage!Look
    <3>2. ~Storage!Succeed("layered")
      BY <1>5, <1>1, Ending DEF Storage!Jobs
    <3> QED
      BY <1>5, <3>1, <3>2 DEF Storage!Look
  <2> QED
    BY <2>1, <1>0, <1>2 DEF LogMoves, OldThere
<1>6. CASE Storage!Look("layered") /\ Passes("layered")
  <2>1. \/ UNCHANGED disk
        \/ /\ disk["logs/cfip-log.txt"] = None
           /\ disk' = [disk EXCEPT !["logs/cfip-log.txt"] = disk["cfip-log.txt"], !["cfip-log.txt"] = None]
    BY <1>6, <1>3, StorageSets DEF Storage!Look
  <2> QED
    BY <2>1, <1>0, <1>2, <1>4, <1>6, StorageNames, StorageSets DEF OldThere
<1>7. CASE Storage!CopyOpen("layered")
  <2>1. CASE UNCHANGED disk
    <3>1. Storage!Succeed("layered") \/ Storage!Fail("layered") \/ disk' = Storage!Opened("layered")
      BY <1>7 DEF Storage!CopyOpen
    <3>2. Storage!Succeed("layered") \/ Storage!Fail("layered")
          \/ (disk' = Storage!Opened("layered") /\ Storage!Exclusive("layered"))
      BY <1>7 DEF Storage!CopyOpen
    <3>3. ~(disk' = Storage!Opened("layered") /\ Storage!Exclusive("layered"))
      <4> SUFFICES ASSUME disk' = Storage!Opened("layered"), Storage!Exclusive("layered") PROVE FALSE
        OBVIOUS
      <4>1. disk["logs/cfip-log.txt"] = None
        BY <1>3 DEF Storage!Exclusive
      <4>2. disk'["logs/cfip-log.txt"] = Partial
        BY <1>0, <1>3, StorageSets DEF Storage!Opened
      <4> QED
        BY <4>1, <4>2, <2>1, StorageNames
    <3>4. Passes("layered")
      BY <3>2, <3>3, <1>1, Ending DEF Storage!Jobs
    <3> QED
      BY <2>1, <3>4, <1>0, <1>2, <1>4 DEF OldThere
  <2>2. CASE ~UNCHANGED disk
    <3>1. /\ disk["logs/cfip-log.txt"] = None
          /\ disk' = [disk EXCEPT !["logs/cfip-log.txt"] = Partial]
          /\ moves' = [moves EXCEPT !["layered"].pc = "copy", !["layered"].reads = disk["cfip-log.txt"]]
      BY <1>7, <2>2, <1>3 DEF Storage!CopyOpen, Storage!Opened, Storage!Exclusive
    <3>2. moves'["layered"].reads = disk["cfip-log.txt"]
      BY <3>1, <1>1, <1>9 DEF WorkSet
    <3>3. LogMoves'
      BY <3>1, <3>2, <1>0, StorageSets DEF LogMoves
    <3> QED
      BY <3>1, <3>3, <1>0, <1>2, StorageNames, StorageSets DEF OldThere
  <2> QED
    BY <2>1, <2>2
<1>8. CASE Storage!CopyDone("layered") \/ Storage!CopyFails("layered")
  <2>1. moves["layered"].pc = "copy"
    BY <1>8 DEF Storage!CopyDone, Storage!CopyFails
  <2>2. disk["logs/cfip-log.txt"] = Partial /\ moves["layered"].reads = disk["cfip-log.txt"]
    BY <2>1, <1>0, <1>1 DEF LogMoves
  <2>3. Passes("layered")
    BY <1>8, <1>1, Ending DEF Storage!CopyDone, Storage!CopyFails, Storage!Jobs
  <2>4. Storage!Filled("layered") = [disk EXCEPT !["logs/cfip-log.txt"] = disk["cfip-log.txt"]]
    BY <1>0, <1>3, <2>2, StorageSets DEF Storage!Filled
  <2>5. \/ disk' = [disk EXCEPT !["logs/cfip-log.txt"] = disk["cfip-log.txt"], !["cfip-log.txt"] = None]
        \/ disk' = [disk EXCEPT !["logs/cfip-log.txt"] = disk["cfip-log.txt"]]
        \/ disk' = [disk EXCEPT !["logs/cfip-log.txt"] = None]
    BY <1>8, <1>3, <2>4, StorageSets DEF Storage!CopyDone, Storage!CopyFails
  <2> QED
    BY <2>5, <2>2, <2>3, <1>0, <1>2, <1>4, StorageNames, StorageSets DEF OldThere
<1> QED
  BY <1>5, <1>6, <1>7, <1>8 DEF Copies

LEMMA FewAttempts ==
    ASSUME StorageInv
    PROVE  /\ attempts \in Nat /\ diskFaults \in Nat /\ stops \in Nat /\ AttemptsTold
           /\ FileFaults \in Nat /\ Stops \in Nat
           /\ \A f \in Nat : diskFaults <= f => attempts <= 1 + f + stops
           /\ \A f \in Nat : diskFaults <= f /\ attempts <= diskFaults + stops => attempts <= f + stops
<1>1. /\ attempts \in Nat /\ diskFaults \in Nat /\ stops \in Nat /\ AttemptsTold
      /\ FileFaults \in Nat /\ Stops \in Nat
  BY StorageNames DEF StorageInv, StorageTypes
<1>2. attempts <= 1 + diskFaults + stops
  BY <1>1 DEF AttemptsTold
<1> QED
  BY <1>1, <1>2

\* Looking at a file, and copying it, keep the invariant.
LEMMA CopyStep ==
    ASSUME StorageInv, NEW j \in Storage!Jobs, Copies(j)
    PROVE  /\ StorageInv'
           /\ disk["desktop-config.json"] = "newer" => disk'["desktop-config.json"] \in {"newer", None}
<1> USE DEF Storage!Jobs
<1>1. /\ Running(j) /\ moves[j].todo # <<>>
      /\ moves' \in [Storage!Jobs -> WorkSet]
      /\ moves'[j].layered = moves[j].layered
      /\ \A i \in Storage!Jobs \ {j} : moves'[i] = moves[i]
      /\ Passes(j) \/ (Stays(j) /\ Copying(j))
         \/ (Stays(j) /\ moves'[j].pc = "open" /\ ~Storage!Passed(j) /\ Storage!Look(j))
      /\ UNCHANGED <<custom, json, main, stops, held, attempts, cleaned>>
      /\ diskFaults' \in 0 .. FileFaults /\ diskFaults <= diskFaults'
  BY CopyMoves
<1>2. moves[j] \in WorkSet /\ moves[j].todo \in TodoOf[j]
  BY JobTypes
<1>3. /\ Tail(moves[j].todo) \in TodoOf[j]
      /\ j = "layered" => Head(moves[j].todo) \in Storage!Steps
      /\ \A i \in DOMAIN moves[j].todo :
           \/ moves[j].todo[i] = Head(moves[j].todo)
           \/ \E k \in DOMAIN Tail(moves[j].todo) : Tail(moves[j].todo)[k] = moves[j].todo[i]
      /\ moves[j].todo = <<"logs">> => Tail(moves[j].todo) = <<>>
      /\ moves[j].todo # <<"logs">> => Tail(moves[j].todo) # <<"logs">>
  BY <1>1, <1>2, Tails, StorageSets
<1>4. /\ disk' \in [Storage!Paths -> Storage!Contents] /\ disk'["desktop-draft.json"] = "old"
      /\ LogMoves' /\ OldThere'
      /\ disk["desktop-config.json"] = "newer" => disk'["desktop-config.json"] \in {"newer", None}
  <2>1. CASE j = "layered" /\ Head(moves["layered"].todo) = "logs"
    BY <2>1, LogCopies
  <2>2. CASE ~(j = "layered" /\ Head(moves["layered"].todo) = "logs")
    BY <2>2, OtherCopies
  <2> QED
    BY <2>1, <2>2
<1>5. StorageTypes'
  BY <1>1, <1>4 DEF StorageInv, StorageTypes, WorkSet
<1>6. CASE j = "layered"
  <2>1. moves'["bootstrap"] = moves["bootstrap"]
    BY <1>1, <1>6
  <2>2. LayeredTypes' /\ BootstrapTypes'
    BY <2>1, <1>1, <1>2, <1>3, <1>6 DEF StorageInv, LayeredTypes, BootstrapTypes, Passes, Stays
  <2>3. Running("layered")' /\ (Copying("layered")' => moves'["layered"].todo = moves["layered"].todo)
    BY <1>1, <1>6 DEF Running, Copying, Passes, Stays
  <2>4. Copying("layered")' => Head(moves'["layered"].todo) # "draft"
    <3>1. CASE Passes("layered")
      BY <3>1 DEF Passes, Copying
    <3>2. CASE Stays("layered") /\ Copying("layered")
      BY <3>2 DEF Stays, StorageInv, PhasesFit
    <3>3. CASE Stays("layered") /\ ~Storage!Passed("layered")
      <4>1. Head(moves["layered"].todo) # "draft"
        BY <3>3, StorageSets DEF Storage!Passed, Storage!Directory, Storage!Item
      <4> QED
        BY <4>1, <3>3 DEF Stays
    <3> QED
      BY <3>1, <3>2, <3>3, <1>1, <1>6
  <2>5. main \in {"moving", "up"}
    BY <1>1, <1>6 DEF StorageInv, StorageTypes, PhasesFit, Running, Copying
  <2>6. PhasesFit'
    <3>1. main = "moving" => moves'["layered"].todo \in {<<"logs">>, <<>>}
      BY <1>1, <1>3, <1>6 DEF StorageInv, PhasesFit, Passes, Stays
    <3>2. main = "up" => moves'["layered"].todo # <<"logs">>
      BY <1>1, <1>3, <1>6 DEF StorageInv, PhasesFit, Passes, Stays
    <3>3. \A i \in Storage!Jobs : Copying(i)' => moves'[i].todo # <<>>
      BY <1>1, <1>6, <2>1, <2>3 DEF StorageInv, PhasesFit, Copying
    <3>4. moves'["bootstrap"].pc # "idle" => main' \in {"resolving", "up"}
      BY <2>1, <1>1 DEF StorageInv, PhasesFit
    <3> QED
      BY <2>3, <2>4, <2>5, <3>1, <3>2, <3>3, <3>4, <1>1 DEF PhasesFit
  <2>7. StepsTold'
    <3>1. moves["layered"].steps \subseteq moves'["layered"].steps
      BY <1>1, <1>6 DEF Passes, Stays
    <3>2. ASSUME main = "up", NEW x \in Background
          PROVE  \/ x \in moves'["layered"].steps \cup moves'["layered"].errors
                 \/ \E i \in DOMAIN moves'["layered"].todo : moves'["layered"].todo[i] = x
      <4>1. \/ x \in moves["layered"].steps \cup moves["layered"].errors
            \/ \E i \in DOMAIN moves["layered"].todo : moves["layered"].todo[i] = x
        BY <3>2, <1>1, <1>6 DEF StorageInv, StepsTold
      <4>2. CASE Stays("layered")
        BY <4>1, <4>2 DEF Stays
      <4>3. CASE Passes("layered")
        <5>1. CASE x = Head(moves["layered"].todo)
          BY <4>3, <5>1 DEF Passes
        <5>2. CASE x # Head(moves["layered"].todo) /\ x \in moves["layered"].steps \cup moves["layered"].errors
          BY <4>3, <5>2 DEF Passes
        <5>3. CASE x # Head(moves["layered"].todo) /\ \E i \in DOMAIN moves["layered"].todo : moves["layered"].todo[i] = x
          <6>1. \E k \in DOMAIN Tail(moves["layered"].todo) : Tail(moves["layered"].todo)[k] = x
            BY <5>3, <1>3, <1>6
          <6>2. moves'["layered"].todo = Tail(moves["layered"].todo)
            BY <4>3 DEF Passes
          <6> QED
            BY <6>1, <6>2
        <5> QED
          BY <4>1, <5>1, <5>2, <5>3
      <4> QED
        BY <4>2, <4>3, <1>1, <1>6
    <3> QED
      BY <3>1, <3>2, <1>1, <1>6 DEF StorageInv, StepsTold
  <2>8. AttemptsTold'
    <3>1. Running("bootstrap")' <=> Running("bootstrap")
      BY <2>1 DEF Running, Copying
    <3> QED
      BY <3>1, <1>1, FewAttempts DEF AttemptsTold
  <2> QED
    BY <1>4, <1>5, <2>2, <2>6, <2>7, <2>8 DEF StorageInv
<1>7. CASE j = "bootstrap"
  <2>1. moves'["layered"] = moves["layered"]
    BY <1>1, <1>7
  <2>2. LayeredTypes' /\ BootstrapTypes'
    BY <2>1, <1>1, <1>2, <1>3, <1>7 DEF StorageInv, LayeredTypes, BootstrapTypes, Passes, Stays
  <2>3. Running("bootstrap")' /\ (Copying("bootstrap")' => moves'["bootstrap"].todo = moves["bootstrap"].todo)
    BY <1>1, <1>7 DEF Running, Copying, Passes, Stays
  <2>4. PhasesFit'
    BY <2>1, <2>3, <1>1, <1>7 DEF StorageInv, PhasesFit, Running, Copying
  <2>5. StepsTold'
    BY <2>1, <1>1 DEF StorageInv, StepsTold, Running, Copying
  <2>6. AttemptsTold'
    BY <2>3, <1>1, <1>7, FewAttempts DEF AttemptsTold
  <2> QED
    BY <1>4, <1>5, <2>2, <2>4, <2>5, <2>6 DEF StorageInv
<1> QED
  BY <1>4, <1>6, <1>7

JsonSet ==
    [exists : BOOLEAN, dir : {NoDir, Fixed, Custom}, legacy : {NoDir, Custom},
     attempted : BOOLEAN, failed : BOOLEAN, steps : SUBSET Storage!Steps,
     errors : SUBSET Storage!Steps, layered : BOOLEAN]

LEMMA StorageParts ==
    ASSUME StorageInv
    PROVE  /\ disk \in [Storage!Paths -> Storage!Contents] /\ disk["desktop-draft.json"] = "old"
           /\ json \in JsonSet /\ moves \in [Storage!Jobs -> WorkSet]
           /\ moves["layered"] \in WorkSet /\ moves["bootstrap"] \in WorkSet
           /\ main \in {"down", "resolving", "moving", "up"}
           /\ diskFaults \in 0 .. FileFaults /\ stops \in 0 .. Stops /\ attempts \in Nat
           /\ LayeredTypes /\ BootstrapTypes /\ PhasesFit /\ StepsTold /\ LogMoves /\ OldThere
           /\ AttemptsTold
           /\ None \in Storage!Contents
  BY DEF StorageInv, StorageTypes, WorkSet, JsonSet, Storage!Jobs, Storage!Contents

\* The bootstrap goes on to pc, with the files of a list still to be looked at.
LEMMA ResolvedIs ==
    ASSUME StorageInv, NEW todo \in TodoOf["bootstrap"], NEW pc1 \in {"next", "write", "done"},
           Storage!Resolved(todo, pc1)
    PROVE  /\ moves' \in [Storage!Jobs -> WorkSet] /\ moves'["layered"] = moves["layered"]
           /\ moves'["bootstrap"].pc = pc1 /\ moves'["bootstrap"].todo = todo
           /\ BootstrapTypes' /\ ~Copying("bootstrap")'
           /\ Running("bootstrap")' <=> pc1 = "next"
<1> DEFINE idle == Storage!Idle
           v == [idle EXCEPT !.pc = pc1, !.todo = todo]
<1>1. moves \in [Storage!Jobs -> WorkSet] /\ None \in Storage!Contents
  BY StorageParts
<1>2. moves' = [moves EXCEPT !["bootstrap"] = v]
  BY DEF Storage!Resolved
<1>3. idle \in WorkSet
  BY <1>1, StorageIdle DEF WorkSet, TodoOf
<1> HIDE DEF idle
<1>4. v \in WorkSet /\ v.pc = pc1 /\ v.todo = todo
  BY <1>3 DEF WorkSet
<1> HIDE DEF v
<1>5. moves' \in [Storage!Jobs -> WorkSet] /\ moves'["layered"] = moves["layered"] /\ moves'["bootstrap"] = v
  BY <1>1, <1>2, <1>4 DEF Storage!Jobs
<1> QED
  BY <1>4, <1>5 DEF BootstrapTypes, Copying, Running

\* What is left to show of a step that keeps the layered migration and the files.
LEMMA LayeredStays ==
    ASSUME StorageInv, moves' \in [Storage!Jobs -> WorkSet], BootstrapTypes', AttemptsTold',
           moves'["layered"] = moves["layered"],
           UNCHANGED <<disk, custom, held, cleaned, main>>, json' \in JsonSet,
           json'.layered => Background \subseteq json'.steps,
           diskFaults' \in 0 .. FileFaults, UNCHANGED stops, attempts' \in Nat,
           Copying("bootstrap")' => moves'["bootstrap"].todo # <<>>,
           moves'["bootstrap"].pc # "idle" => main \in {"resolving", "up"}
    PROVE  StorageInv'
<1>1. StorageTypes'
  BY DEF StorageInv, StorageTypes, WorkSet, JsonSet
<1>2. LayeredTypes'
  BY DEF StorageInv, LayeredTypes
<1>3. PhasesFit'
  BY DEF StorageInv, PhasesFit, Running, Copying, Storage!Jobs
<1>4. StepsTold'
  BY DEF StorageInv, StepsTold, Running, Copying
<1>5. LogMoves' /\ OldThere'
  BY DEF StorageInv, LogMoves, OldThere
<1> QED
  BY <1>1, <1>2, <1>3, <1>4, <1>5 DEF StorageInv

LEMMA ResolveBeginStep == ASSUME StorageInv, Storage!ResolveBegin PROVE StorageInv'
<1>1. UNCHANGED <<disk, custom, json, main, diskFaults, stops, held, cleaned, calm>>
  BY DEF Storage!ResolveBegin
<1>2. main \in {"resolving", "up"} /\ moves["bootstrap"].pc = "idle"
  BY DEF Storage!ResolveBegin
<1>3. json \in JsonSet /\ (json.layered => Background \subseteq json.steps) /\ ~Running("bootstrap")
      /\ diskFaults \in 0 .. FileFaults
  BY <1>2, StorageParts DEF Running, Copying, StepsTold
<1>4. CASE /\ json.dir = Custom /\ ~Storage!AlreadyAttempted
           /\ Storage!Resolved(Storage!Entries, "next") /\ attempts' = attempts + 1
  <2>1. Storage!Entries \in TodoOf["bootstrap"]
    BY DEF Storage!Entries, TodoOf
  <2>2. /\ moves' \in [Storage!Jobs -> WorkSet] /\ moves'["layered"] = moves["layered"]
        /\ BootstrapTypes' /\ ~Copying("bootstrap")' /\ Running("bootstrap")'
    BY <1>4, <2>1, ResolvedIs
  <2>3. attempts <= diskFaults + stops
    BY <1>3, <1>4, StorageParts DEF AttemptsTold, Storage!AlreadyAttempted
  <2>4. AttemptsTold' /\ attempts' \in Nat
    BY <1>1, <1>4, <2>2, <2>3, FewAttempts DEF AttemptsTold
  <2> QED
    BY <1>1, <1>2, <1>3, <2>2, <2>4, LayeredStays
<1>5. CASE UNCHANGED attempts /\ (Storage!Resolved(<<>>, "write") \/ Storage!Resolved(<<>>, "done"))
  <2>1. <<>> \in TodoOf["bootstrap"]
    BY DEF TodoOf
  <2>2. /\ moves' \in [Storage!Jobs -> WorkSet] /\ moves'["layered"] = moves["layered"]
        /\ BootstrapTypes' /\ ~Copying("bootstrap")' /\ ~Running("bootstrap")'
    BY <1>5, <2>1, ResolvedIs
  <2>4. AttemptsTold' /\ attempts' \in Nat
    BY <1>1, <1>3, <1>5, <2>2, FewAttempts DEF AttemptsTold
  <2> QED
    BY <1>1, <1>2, <1>3, <2>2, <2>4, LayeredStays
<1> QED
  BY <1>4, <1>5 DEF Storage!ResolveBegin

\* storage.json is as it was, or the new one; a failure is a fault.
LEMMA WrittenIs ==
    ASSUME StorageInv, NEW new \in JsonSet, NEW ok \in BOOLEAN, Storage!Written(new, ok)
    PROVE  /\ json' \in JsonSet /\ (json' = new \/ (json' = json /\ diskFaults < diskFaults'))
           /\ diskFaults' \in 0 .. FileFaults /\ diskFaults <= diskFaults'
  BY StorageParts, FewAttempts DEF Storage!Written, Storage!NoFault, Storage!Fault

LEMMA BootstrapIs ==
    ASSUME StorageInv
    PROVE  /\ Storage!Bootstrap \in JsonSet /\ Storage!Bootstrap.dir = Fixed
           /\ ~Storage!Bootstrap.layered
           /\ Storage!Bootstrap.attempted = json.attempted
<1> DEFINE new == [exists |-> TRUE, dir |-> Fixed, legacy |-> json.legacy,
                   attempted |-> json.attempted, failed |-> json.failed, steps |-> {},
                   errors |-> {}, layered |-> FALSE]
<1>1. Storage!Bootstrap = new
  BY StorageIdle
<1>2. new \in JsonSet /\ new.dir = Fixed /\ ~new.layered /\ new.attempted = json.attempted
  BY StorageParts DEF JsonSet
<1> QED
  BY <1>1, <1>2

LEMMA ResolveCopiedStep == ASSUME StorageInv, Storage!ResolveCopied PROVE StorageInv'
<1>1. UNCHANGED <<disk, custom, main, stops, held, attempts, cleaned>>
  BY DEF Storage!ResolveCopied, Storage!ghosts
<1>2. moves["bootstrap"].pc = "next" /\ Running("bootstrap")
  BY DEF Storage!ResolveCopied, Running
<1>3. /\ moves' \in [Storage!Jobs -> WorkSet] /\ moves'["layered"] = moves["layered"]
      /\ BootstrapTypes' /\ ~Copying("bootstrap")' /\ ~Running("bootstrap")'
  <2>1. <<>> \in TodoOf["bootstrap"]
    BY DEF TodoOf
  <2> QED
    BY <2>1, ResolvedIs DEF Storage!ResolveCopied
<1> DEFINE base == Storage!Bootstrap
           new == [base EXCEPT !.legacy = Custom, !.attempted = TRUE,
                               !.failed = (moves["bootstrap"].errors # {})]
<1>4. PICK ok \in BOOLEAN : Storage!Written(new, ok)
  BY DEF Storage!ResolveCopied
<1>5. base \in JsonSet /\ base.dir = Fixed /\ ~base.layered
  BY BootstrapIs
<1> HIDE DEF base
<1>6. new \in JsonSet /\ new.dir = Fixed /\ ~new.layered
  BY <1>5 DEF JsonSet
<1> HIDE DEF new
<1>7. /\ json' \in JsonSet /\ (json' = new \/ (json' = json /\ diskFaults < diskFaults'))
      /\ diskFaults' \in 0 .. FileFaults /\ diskFaults <= diskFaults'
  BY <1>4, <1>6, WrittenIs
<1>8. AttemptsTold' /\ attempts' \in Nat
  <2>1. attempts > 0 /\ attempts <= 1 + diskFaults + stops
    BY <1>2, FewAttempts DEF AttemptsTold
  <2>2. diskFaults < diskFaults' => attempts <= diskFaults' + stops
    BY <2>1, <1>7, FewAttempts
  <2>3. attempts <= 1 + diskFaults' + stops
    BY <2>1, <1>7, FewAttempts
  <2> QED
    BY <2>1, <2>2, <2>3, <1>1, <1>3, <1>6, <1>7, FewAttempts, StorageNames DEF AttemptsTold
<1>9. json'.layered => Background \subseteq json'.steps
  BY <1>6, <1>7, StorageParts DEF StepsTold
<1>10. main \in {"resolving", "up"}
  BY <1>2, StorageParts DEF PhasesFit
<1> QED
  BY <1>1, <1>3, <1>7, <1>8, <1>9, <1>10, LayeredStays

\* storage.json is written by the bootstrap or by SetDirectory.
LEMMA BootstrapWritten ==
    ASSUME StorageInv, NEW ok \in BOOLEAN, Storage!Written(Storage!Bootstrap, ok),
           UNCHANGED <<stops, attempts>>, ~Running("bootstrap"), ~Running("bootstrap")'
    PROVE  /\ json' \in JsonSet /\ diskFaults' \in 0 .. FileFaults
           /\ json'.layered => Background \subseteq json'.steps
           /\ AttemptsTold' /\ attempts' \in Nat
<1> DEFINE new == Storage!Bootstrap
<1>1. new \in JsonSet /\ new.dir = Fixed /\ ~new.layered /\ new.attempted = json.attempted
  BY BootstrapIs
<1> HIDE DEF new
<1>2. /\ json' \in JsonSet /\ (json' = new \/ (json' = json /\ diskFaults < diskFaults'))
      /\ diskFaults' \in 0 .. FileFaults /\ diskFaults <= diskFaults'
  BY <1>1, WrittenIs DEF new
<1>3. AttemptsTold' /\ attempts' \in Nat
  BY <1>1, <1>2, FewAttempts, StorageNames DEF AttemptsTold
<1> QED
  BY <1>1, <1>2, <1>3, StorageParts DEF StepsTold

LEMMA ResolveWriteStep == ASSUME StorageInv, Storage!ResolveWrite PROVE StorageInv'
<1>1. UNCHANGED <<disk, custom, main, stops, held, attempts, cleaned>>
  BY DEF Storage!ResolveWrite, Storage!ghosts
<1>2. moves["bootstrap"].pc = "write" /\ ~Running("bootstrap")
  BY DEF Storage!ResolveWrite, Running, Copying
<1>3. /\ moves' \in [Storage!Jobs -> WorkSet] /\ moves'["layered"] = moves["layered"]
      /\ BootstrapTypes' /\ ~Copying("bootstrap")' /\ ~Running("bootstrap")'
  <2>1. <<>> \in TodoOf["bootstrap"]
    BY DEF TodoOf
  <2> QED
    BY <2>1, ResolvedIs DEF Storage!ResolveWrite
<1>4. PICK ok \in BOOLEAN : Storage!Written(Storage!Bootstrap, ok)
  BY DEF Storage!ResolveWrite
<1>10. main \in {"resolving", "up"}
  BY <1>2, StorageParts DEF PhasesFit
<1> QED
  BY <1>1, <1>2, <1>3, <1>4, <1>10, BootstrapWritten, LayeredStays

LEMMA SetDirectoryStep == ASSUME StorageInv, Storage!SetDirectory PROVE StorageInv'
<1>1. UNCHANGED <<disk, custom, main, moves, stops, held, attempts, cleaned>>
  BY DEF Storage!SetDirectory, Storage!ghosts
<1>2. ~Running("bootstrap") /\ ~Running("bootstrap")' /\ ~Copying("bootstrap")'
  BY <1>1 DEF Storage!SetDirectory, Running, Copying
<1>3. /\ moves' \in [Storage!Jobs -> WorkSet] /\ moves'["layered"] = moves["layered"]
      /\ BootstrapTypes' /\ main \in {"resolving", "up"}
  BY <1>1, StorageParts DEF BootstrapTypes, Storage!SetDirectory
<1>4. PICK ok \in BOOLEAN : Storage!Written(Storage!Bootstrap, ok)
  BY DEF Storage!SetDirectory
<1> QED
  BY <1>1, <1>2, <1>3, <1>4, BootstrapWritten, LayeredStays

\* A step of the layered migration leaves the bootstrap and its record alone.
LEMMA Lists ==
    /\ <<>> \in TodoOf["layered"] /\ <<>> \in TodoOf["bootstrap"] /\ <<"logs">> \in TodoOf["layered"]
    /\ <<"config", "draft", "tasks">> \in TodoOf["layered"]
    /\ <<"config", "draft", "tasks">> # <<"logs">> /\ <<"config", "draft", "tasks">> # <<>>
    /\ <<>> # <<"logs">>
  BY DEF TodoOf

LEMMA BootstrapStays ==
    ASSUME StorageInv, moves' \in [Storage!Jobs -> WorkSet],
           moves'["bootstrap"] = moves["bootstrap"], UNCHANGED <<stops, attempts>>,
           json'.dir = json.dir, json'.legacy = json.legacy, json'.attempted = json.attempted,
           diskFaults' \in 0 .. FileFaults, diskFaults <= diskFaults'
    PROVE  /\ BootstrapTypes' /\ AttemptsTold' /\ attempts' \in Nat
           /\ Copying("bootstrap")' <=> Copying("bootstrap")
<1>1. BootstrapTypes' /\ (Copying("bootstrap")' <=> Copying("bootstrap"))
      /\ (Running("bootstrap")' <=> Running("bootstrap"))
  BY StorageParts DEF BootstrapTypes, Copying, Running
<1>2. AttemptsTold'
  BY <1>1, FewAttempts DEF AttemptsTold
<1> QED
  BY <1>1, <1>2, FewAttempts

\* The layered migration is neither copying nor moving after its step.
LEMMA LayeredSteps ==
    ASSUME StorageInv, moves' \in [Storage!Jobs -> WorkSet],
           moves'["bootstrap"] = moves["bootstrap"], json' \in JsonSet,
           UNCHANGED <<disk, custom, held, cleaned, stops, attempts>>,
           json'.dir = json.dir, json'.legacy = json.legacy, json'.attempted = json.attempted,
           json'.layered => Background \subseteq json'.steps,
           diskFaults' \in 0 .. FileFaults, diskFaults <= diskFaults', main' = "up",
           main \in {"moving", "up"}, LayeredTypes', ~Copying("layered")',
           moves'["layered"].todo # <<"logs">>,
           moves'["layered"].layered => Background \subseteq moves'["layered"].steps,
           moves'["layered"].pc = "next" =>
              moves'["layered"].todo = <<"config", "draft", "tasks">>
    PROVE  StorageInv'
<1>1. /\ BootstrapTypes' /\ AttemptsTold' /\ attempts' \in Nat
      /\ Copying("bootstrap")' <=> Copying("bootstrap")
  BY BootstrapStays
<1>2. StorageTypes'
  BY <1>1 DEF StorageInv, StorageTypes, WorkSet, JsonSet
<1>3. PhasesFit'
  BY <1>1 DEF StorageInv, PhasesFit, Storage!Jobs
<1>4. \A x \in Background : \E i \in DOMAIN <<"config", "draft", "tasks">> :
         <<"config", "draft", "tasks">>[i] = x
  <2>1. DOMAIN <<"config", "draft", "tasks">> = 1 .. 3
    OBVIOUS
  <2> QED
    BY <2>1 DEF Background
<1>5. StepsTold'
  BY <1>4 DEF StepsTold, Running
<1>6. LogMoves' /\ OldThere'
  BY DEF StorageInv, LogMoves, OldThere, Copying
<1> QED
  BY <1>1, <1>2, <1>3, <1>5, <1>6 DEF StorageInv

\* What is merged into storage.json keeps what the bootstrap recorded.
LEMMA MergedIs ==
    ASSUME json \in JsonSet, NEW w \in WorkSet, w.steps \subseteq Storage!Steps,
           w.errors \subseteq Storage!Steps
    PROVE  /\ Storage!Merged(w) \in JsonSet
           /\ Storage!Merged(w).dir = json.dir /\ Storage!Merged(w).legacy = json.legacy
           /\ Storage!Merged(w).attempted = json.attempted
           /\ Storage!Merged(w).layered = w.layered /\ Storage!Merged(w).steps = w.steps
<1>1. w.layered \in BOOLEAN
  BY DEF WorkSet
<1> QED
  BY <1>1 DEF Storage!Merged, JsonSet

LEMMA ResolveDoneStep == ASSUME StorageInv, Storage!ResolveDone PROVE StorageInv'
<1>1. UNCHANGED <<disk, custom, json, diskFaults, stops, held, attempts, cleaned>>
  BY DEF Storage!ResolveDone, Storage!ghosts
<1>2. moves["bootstrap"].pc = "done" /\ ~Running("bootstrap")
  BY DEF Storage!ResolveDone, Running, Copying
<1>3. Storage!Idle \in WorkSet /\ Storage!Idle.pc = "idle" /\ Storage!Idle.todo = <<>>
  BY StorageIdle, StorageParts DEF WorkSet, TodoOf
<1>4. /\ json \in JsonSet /\ (json.layered => Background \subseteq json.steps)
      /\ moves \in [Storage!Jobs -> WorkSet] /\ None \in Storage!Contents
      /\ diskFaults \in 0 .. FileFaults /\ attempts \in Nat
  BY StorageParts DEF StepsTold
<1>5. CASE /\ main = "up" /\ UNCHANGED main
           /\ moves' = [moves EXCEPT !["bootstrap"] = Storage!Idle]
  <2>1. /\ moves' \in [Storage!Jobs -> WorkSet] /\ moves'["layered"] = moves["layered"]
        /\ moves'["bootstrap"] = Storage!Idle
    BY <1>3, <1>4, <1>5 DEF Storage!Jobs
  <2>2. BootstrapTypes' /\ ~Copying("bootstrap")' /\ ~Running("bootstrap")'
    BY <1>3, <2>1 DEF BootstrapTypes, Copying, Running, TodoOf
  <2>3. AttemptsTold'
    BY <1>1, <1>2, <2>2, FewAttempts DEF AttemptsTold
  <2> QED
    BY <1>1, <1>3, <1>4, <1>5, <2>1, <2>2, <2>3, LayeredStays
<1>6. CASE /\ main = "resolving" /\ main' = "moving"
           /\ moves' = [j \in Storage!Jobs |->
                          IF j = "bootstrap" THEN Storage!Idle
                          ELSE [pc |-> "next", todo |-> Storage!SyncSteps, reads |-> None,
                                steps |-> json.steps, errors |-> json.errors,
                                layered |-> json.layered]]
  <2> DEFINE w == [pc |-> "next", todo |-> <<"logs">>, reads |-> None, steps |-> json.steps,
                   errors |-> json.errors, layered |-> json.layered]
  <2>1. /\ w \in WorkSet /\ w.pc = "next" /\ w.todo = <<"logs">> /\ w.layered = json.layered
        /\ w.steps = json.steps /\ w.steps \cup w.errors \subseteq Storage!Steps
    BY <1>4, Lists DEF WorkSet, JsonSet
  <2>2. moves' = [j \in Storage!Jobs |-> IF j = "bootstrap" THEN Storage!Idle ELSE w]
    BY <1>6 DEF Storage!SyncSteps
  <2> HIDE DEF w
  <2>3. /\ moves' \in [Storage!Jobs -> WorkSet] /\ moves'["layered"] = w
        /\ moves'["bootstrap"] = Storage!Idle
    BY <1>3, <2>1, <2>2 DEF Storage!Jobs
  <2>4. LayeredTypes' /\ BootstrapTypes' /\ ~Copying("bootstrap")' /\ ~Running("bootstrap")'
        /\ ~Copying("layered")' /\ Running("layered")'
    BY <1>3, <2>1, <2>3, Lists DEF LayeredTypes, BootstrapTypes, Copying, Running
  <2>5. AttemptsTold'
    BY <1>1, <1>2, <2>4, FewAttempts DEF AttemptsTold
  <2>6. StorageTypes'
    BY <1>1, <1>6, <2>3 DEF StorageInv, StorageTypes, WorkSet
  <2>7. PhasesFit'
    BY <1>3, <1>6, <2>1, <2>3, <2>4 DEF PhasesFit, Storage!Jobs
  <2>8. StepsTold'
    BY <1>1, <1>4, <1>6, <2>1, <2>3 DEF StepsTold
  <2>9. LogMoves' /\ OldThere'
    BY <1>1, <2>1, <2>3 DEF StorageInv, LogMoves, OldThere
  <2> QED
    BY <2>4, <2>5, <2>6, <2>7, <2>8, <2>9 DEF StorageInv
<1> QED
  BY <1>5, <1>6 DEF Storage!ResolveDone

LEMMA SyncPersistStep == ASSUME StorageInv, Storage!SyncPersist PROVE StorageInv'
<1>1. UNCHANGED <<disk, custom, stops, held, attempts, cleaned>> /\ main' = "up" /\ main = "moving"
  BY DEF Storage!SyncPersist, Storage!ghosts
<1> DEFINE w == moves["layered"]
           idle == Storage!Idle
<1>2. /\ w \in WorkSet /\ w.steps \subseteq Storage!Steps /\ w.errors \subseteq Storage!Steps
      /\ w.layered => Background \subseteq w.steps
      /\ json \in JsonSet /\ (json.layered => Background \subseteq json.steps)
      /\ moves \in [Storage!Jobs -> WorkSet]
  BY StorageParts DEF LayeredTypes, StepsTold
<1>3. PICK ok \in BOOLEAN :
         /\ Storage!Written(Storage!Merged(w), ok)
         /\ moves' = [moves EXCEPT !["layered"] = [idle EXCEPT !.pc = IF ok THEN "wait" ELSE @]]
  BY DEF Storage!SyncPersist
<1>4. /\ idle \in WorkSet /\ idle.pc = "idle" /\ idle.todo = <<>> /\ ~idle.layered
      /\ idle.steps \cup idle.errors = {}
  BY StorageIdle, StorageParts DEF WorkSet, TodoOf
<1> HIDE DEF idle
<1> DEFINE v == [idle EXCEPT !.pc = IF ok THEN "wait" ELSE @]
<1>5. /\ v \in WorkSet /\ v.pc \in {"idle", "wait"} /\ v.todo = <<>> /\ ~v.layered
      /\ v.steps \cup v.errors = {}
  BY <1>4 DEF WorkSet
<1>6. moves' = [moves EXCEPT !["layered"] = v]
  BY <1>3
<1> HIDE DEF v
<1>7. /\ moves' \in [Storage!Jobs -> WorkSet] /\ moves'["layered"] = v
      /\ moves'["bootstrap"] = moves["bootstrap"]
  BY <1>2, <1>5, <1>6 DEF Storage!Jobs
<1> DEFINE new == Storage!Merged(w)
<1>8. /\ new \in JsonSet /\ new.dir = json.dir /\ new.legacy = json.legacy
      /\ new.attempted = json.attempted /\ new.layered = w.layered /\ new.steps = w.steps
  BY <1>2, MergedIs
<1>9. /\ json' \in JsonSet /\ (json' = new \/ json' = json)
      /\ diskFaults' \in 0 .. FileFaults /\ diskFaults <= diskFaults'
  BY <1>3, <1>8, WrittenIs
<1> HIDE DEF new, w
<1>10. /\ json'.dir = json.dir /\ json'.legacy = json.legacy /\ json'.attempted = json.attempted
       /\ json'.layered => Background \subseteq json'.steps
  BY <1>2, <1>8, <1>9
<1>11. LayeredTypes' /\ ~Copying("layered")'
  BY <1>5, <1>7 DEF LayeredTypes, Copying, TodoOf
<1> QED
  BY <1>1, <1>5, <1>7, <1>9, <1>10, <1>11, Lists, LayeredSteps

LEMMA BackgroundBeginStep == ASSUME StorageInv, Storage!BackgroundBegin PROVE StorageInv'
<1>1. UNCHANGED <<disk, custom, json, main, diskFaults, stops, held, attempts, cleaned>>
  BY DEF Storage!BackgroundBegin, Storage!ghosts
<1>2. main = "up"
  BY StorageParts DEF Storage!BackgroundBegin, PhasesFit, Running, Copying
<1> DEFINE w == [pc |-> "next", todo |-> <<"config", "draft", "tasks">>, reads |-> None,
                 steps |-> json.steps, errors |-> json.errors, layered |-> json.layered]
<1>3. /\ json \in JsonSet /\ (json.layered => Background \subseteq json.steps)
      /\ moves \in [Storage!Jobs -> WorkSet] /\ None \in Storage!Contents
      /\ diskFaults \in 0 .. FileFaults /\ diskFaults <= diskFaults
  BY StorageParts, FewAttempts DEF StepsTold
<1>4. /\ w \in WorkSet /\ w.pc = "next" /\ w.todo = <<"config", "draft", "tasks">>
      /\ w.layered = json.layered /\ w.steps = json.steps
      /\ w.steps \cup w.errors \subseteq Storage!Steps
  BY <1>3, Lists DEF WorkSet, JsonSet
<1>5. moves' = [moves EXCEPT !["layered"] = w]
  BY DEF Storage!BackgroundBegin, Storage!BackgroundSteps
<1> HIDE DEF w
<1>6. /\ moves' \in [Storage!Jobs -> WorkSet] /\ moves'["layered"] = w
      /\ moves'["bootstrap"] = moves["bootstrap"]
  BY <1>3, <1>4, <1>5 DEF Storage!Jobs
<1>7. LayeredTypes' /\ ~Copying("layered")' /\ w.todo # <<"logs">>
  BY <1>4, <1>6, Lists DEF LayeredTypes, Copying
<1> QED
  BY <1>1, <1>2, <1>3, <1>4, <1>6, <1>7, LayeredSteps

\* A list that is done with and left no error marked every step of it.
LEMMA BackgroundPersistStep == ASSUME StorageInv, Storage!BackgroundPersist PROVE StorageInv'
<1>1. /\ UNCHANGED <<disk, custom, main, stops, held, attempts, cleaned>> /\ main = "up"
      /\ moves["layered"].pc = "next" /\ moves["layered"].todo = <<>>
  BY DEF Storage!BackgroundPersist, Storage!ghosts
<1> DEFINE w == moves["layered"]
           idle == Storage!Idle
           over == Storage!Completed(w)
<1>2. /\ w \in WorkSet /\ w.steps \subseteq Storage!Steps /\ w.errors \subseteq Storage!Steps
      /\ w.layered => Background \subseteq w.steps
      /\ json \in JsonSet /\ (json.layered => Background \subseteq json.steps)
      /\ moves \in [Storage!Jobs -> WorkSet]
  BY StorageParts DEF LayeredTypes, StepsTold
<1>3. Background \subseteq w.steps \cup w.errors
  BY <1>1, StorageParts DEF StepsTold, Running
<1>4. /\ over \in WorkSet /\ over.steps = w.steps /\ over.errors = w.errors
      /\ over.layered => w.layered \/ w.errors = {}
  BY <1>2 DEF Storage!Completed, WorkSet
<1>5. over.layered => Background \subseteq over.steps
  BY <1>2, <1>3, <1>4
<1>6. PICK ok \in BOOLEAN : Storage!Written(Storage!Merged(over), ok)
  BY DEF Storage!BackgroundPersist
<1>7. moves' = [moves EXCEPT !["layered"] = [idle EXCEPT !.pc = "over"]]
  BY DEF Storage!BackgroundPersist
<1> HIDE DEF w, over
<1>8. /\ idle \in WorkSet /\ idle.todo = <<>> /\ ~idle.layered /\ idle.steps \cup idle.errors = {}
  BY StorageIdle, StorageParts DEF WorkSet, TodoOf
<1> HIDE DEF idle
<1> DEFINE v == [idle EXCEPT !.pc = "over"]
<1>9. /\ v \in WorkSet /\ v.pc = "over" /\ v.todo = <<>> /\ ~v.layered
      /\ v.steps \cup v.errors = {}
  BY <1>8 DEF WorkSet
<1> HIDE DEF v
<1>10. /\ moves' \in [Storage!Jobs -> WorkSet] /\ moves'["layered"] = v
       /\ moves'["bootstrap"] = moves["bootstrap"]
  BY <1>2, <1>7, <1>9 DEF Storage!Jobs, v
<1> DEFINE new == Storage!Merged(over)
<1>11. /\ new \in JsonSet /\ new.dir = json.dir /\ new.legacy = json.legacy
       /\ new.attempted = json.attempted /\ new.layered = over.layered
       /\ new.steps = over.steps
  BY <1>2, <1>4, MergedIs
<1>12. /\ json' \in JsonSet /\ (json' = new \/ json' = json)
       /\ diskFaults' \in 0 .. FileFaults /\ diskFaults <= diskFaults'
  BY <1>6, <1>11, WrittenIs
<1> HIDE DEF new
<1>13. /\ json'.dir = json.dir /\ json'.legacy = json.legacy /\ json'.attempted = json.attempted
       /\ json'.layered => Background \subseteq json'.steps
  BY <1>2, <1>5, <1>11, <1>12
<1>14. LayeredTypes' /\ ~Copying("layered")'
  BY <1>9, <1>10 DEF LayeredTypes, Copying, TodoOf
<1> QED
  BY <1>1, <1>9, <1>10, <1>12, <1>13, <1>14, Lists, LayeredSteps

LEMMA StartStep == ASSUME StorageInv, Storage!Start PROVE StorageInv'
<1>1. UNCHANGED <<disk, custom, json, moves, diskFaults, stops, held, attempts, cleaned>>
      /\ main = "down" /\ main' = "resolving"
  BY DEF Storage!Start, Storage!ghosts
<1>2. StorageTypes' /\ LayeredTypes' /\ BootstrapTypes' /\ LogMoves' /\ OldThere'
  BY <1>1 DEF StorageInv, StorageTypes, LayeredTypes, BootstrapTypes, LogMoves, OldThere
<1>3. PhasesFit' /\ StepsTold' /\ AttemptsTold'
  BY <1>1 DEF StorageInv, PhasesFit, StepsTold, AttemptsTold, Running, Copying
<1> QED
  BY <1>2, <1>3 DEF StorageInv

\* Every stop allows for one copy of a custom directory more.
LEMMA StopStep == ASSUME StorageInv, Storage!Stop PROVE StorageInv'
<1>1. UNCHANGED <<disk, custom, json, diskFaults, held, attempts, cleaned>> /\ main' = "down"
      /\ stops < Stops /\ stops' = stops + 1 /\ moves' = [j \in Storage!Jobs |-> Storage!Idle]
  BY DEF Storage!Stop, Storage!ghosts
<1>2. /\ Storage!Idle \in WorkSet /\ Storage!Idle.pc = "idle" /\ Storage!Idle.todo = <<>>
      /\ Storage!Idle.steps \cup Storage!Idle.errors = {} /\ ~Storage!Idle.layered
  BY StorageIdle, StorageParts DEF WorkSet, TodoOf
<1>3. /\ moves' \in [Storage!Jobs -> WorkSet]
      /\ \A j \in Storage!Jobs : moves'[j] = Storage!Idle
  BY <1>1, <1>2
<1>4. stops' \in 0 .. Stops
  BY <1>1, StorageParts, FewAttempts
<1>5. StorageTypes'
  BY <1>1, <1>3, <1>4 DEF StorageInv, StorageTypes, WorkSet
<1>6. LayeredTypes' /\ BootstrapTypes' /\ \A j \in Storage!Jobs : ~Running(j)' /\ ~Copying(j)'
  BY <1>2, <1>3 DEF LayeredTypes, BootstrapTypes, Running, Copying, Storage!Jobs, TodoOf
<1>7. PhasesFit' /\ StepsTold'
  BY <1>1, <1>2, <1>3, <1>6 DEF StorageInv, PhasesFit, StepsTold, Storage!Jobs
<1>8. AttemptsTold'
  BY <1>1, <1>6, FewAttempts DEF AttemptsTold, Storage!Jobs
<1>9. LogMoves' /\ OldThere'
  BY <1>1, <1>2, <1>3 DEF StorageInv, LogMoves, OldThere, Storage!Jobs
<1> QED
  BY <1>5, <1>6, <1>7, <1>8, <1>9 DEF StorageInv

LEMMA SaveConfigStep ==
    ASSUME StorageInv, Storage!SaveConfig
    PROVE  StorageInv' /\ disk'["desktop-config.json"] = "newer"
<1>1. UNCHANGED <<custom, json, main, moves, diskFaults, stops, held, attempts, cleaned>>
      /\ disk' = [disk EXCEPT !["desktop-config.json"] = "newer"]
  BY DEF Storage!SaveConfig, Storage!ghosts
<1>2. /\ disk' \in [Storage!Paths -> Storage!Contents] /\ disk'["desktop-config.json"] = "newer"
      /\ \A p \in Storage!Paths \ {"desktop-config.json"} : disk'[p] = disk[p]
  <2>1. "desktop-config.json" \in Storage!Paths /\ "newer" \in Storage!Contents
    BY StorageSets DEF Storage!Contents
  <2> QED
    BY <1>1, <2>1, StorageParts
<1>3. StorageTypes' /\ LayeredTypes' /\ BootstrapTypes' /\ LogMoves' /\ OldThere'
  BY <1>1, <1>2, StorageSets
  DEF StorageInv, StorageTypes, LayeredTypes, BootstrapTypes, LogMoves, OldThere
<1>4. PhasesFit' /\ StepsTold' /\ AttemptsTold'
  BY <1>1 DEF StorageInv, PhasesFit, StepsTold, AttemptsTold, Running, Copying
<1> QED
  BY <1>2, <1>3, <1>4 DEF StorageInv

LEMMA ForceCleanStep ==
    ASSUME StorageInv, Storage!ForceClean
    PROVE  StorageInv' /\ disk'["desktop-config.json"] = disk["desktop-config.json"]
<1>1. UNCHANGED <<custom, json, main, moves, diskFaults, stops, held, attempts>>
      /\ main = "up" /\ cleaned' = TRUE
      /\ disk' = [p \in Storage!Paths |-> IF p \in Storage!Cleanable THEN None ELSE disk[p]]
  BY DEF Storage!ForceClean
<1>2. Storage!Cleanable = {"cfip-log.txt", "config.json"}
  BY StorageSets DEF Storage!Cleanable
<1>3. /\ disk' \in [Storage!Paths -> Storage!Contents]
      /\ \A p \in Storage!Paths \ {"cfip-log.txt", "config.json"} : disk'[p] = disk[p]
  BY <1>1, <1>2, StorageParts
<1>4. StorageTypes' /\ LayeredTypes' /\ BootstrapTypes' /\ OldThere'
  BY <1>1, <1>3, StorageSets DEF StorageInv, StorageTypes, LayeredTypes, BootstrapTypes, OldThere
<1>5. PhasesFit' /\ StepsTold' /\ AttemptsTold'
  BY <1>1 DEF StorageInv, PhasesFit, StepsTold, AttemptsTold, Running, Copying
<1>6. LogMoves'
  BY <1>1 DEF StorageInv, PhasesFit, LogMoves
<1> QED
  BY <1>3, <1>4, <1>5, <1>6, StorageSets DEF StorageInv

\* The names of the variables, of the files and of the bounds are enough.
LEMMA StorageStep ==
    ASSUME StorageInv, Storage!Next
    PROVE  /\ StorageInv'
           /\ disk["desktop-config.json"] = "newer" => disk'["desktop-config.json"] \in {"newer", None}
<1>1. CASE \E j \in Storage!Jobs : Storage!Look(j) \/ Storage!CopyOpen(j) \/ Storage!CopyDone(j)
                                   \/ Storage!CopyFails(j)
  BY <1>1, CopyStep DEF Copies
<1>2. CASE \/ Storage!ResolveBegin \/ Storage!ResolveCopied \/ Storage!ResolveWrite
           \/ Storage!ResolveDone \/ Storage!SyncPersist \/ Storage!BackgroundBegin
           \/ Storage!BackgroundPersist \/ Storage!Start \/ Storage!Stop \/ Storage!SetDirectory
  <2>1. StorageInv'
    BY <1>2, ResolveBeginStep, ResolveCopiedStep, ResolveWriteStep, ResolveDoneStep,
       SyncPersistStep, BackgroundBeginStep, BackgroundPersistStep, StartStep, StopStep,
       SetDirectoryStep
  <2>2. UNCHANGED disk
    BY <1>2 DEF Storage!ResolveBegin, Storage!ResolveCopied, Storage!ResolveWrite,
       Storage!ResolveDone, Storage!SyncPersist, Storage!BackgroundBegin,
       Storage!BackgroundPersist, Storage!Start, Storage!Stop, Storage!SetDirectory
  <2> QED
    BY <2>1, <2>2
<1>3. CASE Storage!SaveConfig
  BY <1>3, SaveConfigStep
<1>4. CASE Storage!ForceClean
  BY <1>4, ForceCleanStep
<1> QED
  BY <1>1, <1>2, <1>3, <1>4 DEF Storage!Next

LEMMA StorageInit == Storage!Init => StorageInv
<1> SUFFICES ASSUME Storage!Init PROVE StorageInv
  OBVIOUS
<1>1. /\ Storage!Idle \in WorkSet /\ Storage!Idle.pc = "idle" /\ Storage!Idle.todo = <<>>
      /\ Storage!Idle.steps \cup Storage!Idle.errors = {} /\ ~Storage!Idle.layered
  BY StorageIdle DEF WorkSet, TodoOf, Storage!Contents
<1>2. moves \in [Storage!Jobs -> WorkSet] /\ \A j \in Storage!Jobs : moves[j] = Storage!Idle
  BY <1>1 DEF Storage!Init
<1>3. held \subseteq {"cfip-log.txt", "config.json"} /\ main = "down" /\ cleaned = FALSE
      /\ diskFaults = 0 /\ stops = 0 /\ attempts = (IF json.attempted THEN 1 ELSE 0)
      /\ custom \subseteq {"desktop-config.json", "cfip-log.txt"}
  BY DEF Storage!Init
<1>4. /\ disk \in [Storage!Paths -> Storage!Contents] /\ disk["desktop-draft.json"] = "old"
      /\ \A p \in held : disk[p] = "old"
  <2>1. disk = [p \in Storage!Paths |-> IF p \in held \cup {"tasks", "desktop-draft.json"}
                                        THEN "old" ELSE None]
    BY StorageSets DEF Storage!Init
  <2> QED
    BY <2>1, <1>3, StorageSets DEF Storage!Contents
<1>5. json \in JsonSet /\ ~json.layered
      /\ (json.dir = Custom => json.attempted \/ ~(json.legacy = Custom /\ json.attempted))
  <2>1. CASE json = Storage!Absent
    BY <2>1, StorageIdle DEF JsonSet
  <2>2. CASE \E again \in BOOLEAN :
                json = [Storage!Absent EXCEPT !.exists = TRUE, !.dir = Custom, !.attempted = again,
                                              !.legacy = IF again THEN Custom ELSE NoDir]
    <3> DEFINE absent == Storage!Absent
    <3>1. absent \in JsonSet /\ ~absent.layered
      BY StorageIdle DEF JsonSet
    <3>2. PICK again \in BOOLEAN :
             json = [absent EXCEPT !.exists = TRUE, !.dir = Custom, !.attempted = again,
                                   !.legacy = IF again THEN Custom ELSE NoDir]
      BY <2>2
    <3> HIDE DEF absent
    <3> QED
      BY <3>1, <3>2 DEF JsonSet
  <2> QED
    BY <2>1, <2>2 DEF Storage!Init
<1>6. json.dir = Custom /\ json.attempted => json.legacy = Custom
  <2>1. CASE json = Storage!Absent
    BY <2>1, StorageIdle
  <2>2. CASE \E again \in BOOLEAN :
                json = [Storage!Absent EXCEPT !.exists = TRUE, !.dir = Custom, !.attempted = again,
                                              !.legacy = IF again THEN Custom ELSE NoDir]
    <3> DEFINE absent == Storage!Absent
    <3>1. absent \in JsonSet
      BY StorageIdle DEF JsonSet
    <3>2. PICK again \in BOOLEAN :
             json = [absent EXCEPT !.exists = TRUE, !.dir = Custom, !.attempted = again,
                                   !.legacy = IF again THEN Custom ELSE NoDir]
      BY <2>2
    <3> HIDE DEF absent
    <3> QED
      BY <3>1, <3>2 DEF JsonSet
  <2> QED
    BY <2>1, <2>2 DEF Storage!Init
<1>7. StorageTypes /\ LayeredTypes /\ BootstrapTypes
  <2>1. diskFaults \in 0 .. FileFaults /\ stops \in 0 .. Stops /\ attempts \in Nat
    BY <1>3, StorageNames
  <2>2. StorageTypes
    BY <1>2, <1>3, <1>4, <1>5, <2>1 DEF StorageTypes, WorkSet, JsonSet
  <2>3. LayeredTypes /\ BootstrapTypes
    BY <1>1, <1>2, Lists DEF LayeredTypes, BootstrapTypes, Storage!Jobs
  <2> QED
    BY <2>2, <2>3
<1>8. PhasesFit /\ StepsTold /\ LogMoves /\ OldThere
  BY <1>1, <1>2, <1>3, <1>4, <1>5
  DEF PhasesFit, StepsTold, LogMoves, OldThere, Storage!Jobs, Running, Copying
<1>9. AttemptsTold
  BY <1>1, <1>2, <1>3, <1>5, <1>6 DEF AttemptsTold, Storage!Jobs, Running, Copying, JsonSet
<1> QED
  BY <1>7, <1>8, <1>9 DEF StorageInv

LEMMA StorageIsSafe == StorageInv => Storage!Safety
<1> SUFFICES ASSUME StorageInv PROVE Storage!Safety
  OBVIOUS
<1>1. Storage!TypeOK
  BY StorageParts, StorageSets DEF Storage!TypeOK, WorkSet, JsonSet
<1>2. Storage!OldKept
  BY StorageParts, StorageSets, StorageNames DEF Storage!OldKept, OldThere, StorageInv, StorageTypes
<1>3. Storage!CompletedIsTrue
  <2>1. Storage!ToSet(Storage!BackgroundSteps) = Background
    BY DEF Storage!ToSet, Storage!BackgroundSteps, Background
  <2> QED
    BY <2>1, StorageParts DEF Storage!CompletedIsTrue, StepsTold
<1>4. Storage!OneTime
  BY StorageParts DEF Storage!OneTime, AttemptsTold
<1> QED
  BY <1>1, <1>2, <1>3, <1>4 DEF Storage!Safety

LEMMA StorageStays == StorageInv /\ UNCHANGED storageVars => StorageInv'
  BY DEF StorageInv, StorageTypes, LayeredTypes, BootstrapTypes, PhasesFit, StepsTold, LogMoves,
         OldThere, AttemptsTold, Running, Copying, storageVars

-----------------------------------------------------------------------------
(* Both kinds of files, in every behaviour of the services.                *)

FilesInv == StoreInv /\ StorageInv
NewerStep ==
    disk["desktop-config.json"] = "newer" => disk'["desktop-config.json"] \in {"newer", None}

LEMMA FilesInit == Init => FilesInv
  BY StoreInit, StorageInit DEF Init, FilesInv

LEMMA FilesStep ==
    FilesInv /\ [Next]_vars => FilesInv' /\ KeptSteps /\ NewerStep
<1> SUFFICES ASSUME FilesInv, [Next]_vars PROVE FilesInv' /\ KeptSteps /\ NewerStep
  OBVIOUS
<1>0. StoreInv /\ StorageInv
  BY DEF FilesInv
<1>1. StoreInv' /\ KeptSteps
  <2>1. CASE Store!Next
    BY <1>0, <2>1, StoreStep
  <2>2. CASE UNCHANGED storeVars
    BY <1>0, <2>2, StoreStays
  <2> QED
    BY <2>1, <2>2, PartSteps
<1>2. StorageInv' /\ NewerStep
  <2>1. CASE Storage!Next
    BY <1>0, <2>1, StorageStep DEF NewerStep
  <2>2. CASE UNCHANGED storageVars
    BY <1>0, <2>2, StorageStays DEF NewerStep, storageVars
  <2> QED
    BY <2>1, <2>2, PartSteps
<1> QED
  BY <1>1, <1>2 DEF FilesInv

\* An old configuration is backed up before the new schema is written; moving
\* and copying the storage lose nothing, whatever fails, and what is recorded
\* as completed is (config.go, storage_migration.go).
THEOREM FilesAlwaysSafe == Spec => []FilesSafe
<1>1. FilesInv => FilesSafe
  BY StoreIsSafe, StorageIsSafe DEF FilesInv, FilesSafe
<1>2. FilesInv /\ [Next]_vars => FilesInv'
  BY FilesStep
<1> QED
  BY <1>1, <1>2, FilesInit, PTL DEF Spec

\* A profile command or an import changes both files or none, the configuration
\* has the sources of the active profile, noting statuses undoes no save, and
\* no migration puts an older file over a saved one
\* (source_profiles_service.go, archive_service.go, storage_migration.go).
THEOREM FilesAlwaysKept == Spec => FilesKept
<1>1. FilesInv /\ [Next]_vars => FilesInv'
  BY FilesStep
<1>2. FilesInv /\ [Next]_vars => [AllOrNothingStep]_Store!vars
  BY FilesStep DEF KeptSteps
<1>3. FilesInv /\ [Next]_vars => [ActiveStep]_Store!vars
  BY FilesStep DEF KeptSteps
<1>4. FilesInv /\ [Next]_vars => [StatusStep]_Store!vars
  BY FilesStep DEF KeptSteps
<1>5. FilesInv /\ [Next]_vars => [NewerStep]_Storage!vars
  BY FilesStep
<1>6. Spec => []FilesInv
  BY <1>1, FilesInit, PTL DEF Spec
<1>7. Spec => [][AllOrNothingStep]_Store!vars
  BY <1>2, <1>6, PTL DEF Spec
<1>8. Spec => [][ActiveStep]_Store!vars
  BY <1>3, <1>6, PTL DEF Spec
<1>9. Spec => [][StatusStep]_Store!vars
  BY <1>4, <1>6, PTL DEF Spec
<1>10. Spec => [][NewerStep]_Storage!vars
  BY <1>5, <1>6, PTL DEF Spec
<1>11. Spec => Store!AllOrNothing
  BY <1>7 DEF Store!AllOrNothing, AllOrNothingStep
<1>12. Spec => Store!ActiveIsConfigured
  BY <1>8 DEF Store!ActiveIsConfigured, ActiveStep
<1>13. Spec => Store!StatusKeepsEdits
  BY <1>9 DEF Store!StatusKeepsEdits, StatusStep
<1>14. Spec => Storage!NewerKept
  BY <1>10 DEF Storage!NewerKept, NewerStep
<1> QED
  BY <1>11, <1>12, <1>13, <1>14 DEF FilesKept, Store!Kept


-----------------------------------------------------------------------------
(* The event hub of the web UI.                                            *)

Later(x, y) == x.task = y.task => x.seq < y.seq
Ordered(s) == \A i, j \in DOMAIN s : i < j => Later(s[i], s[j])
Below(S, T) == \A x \in S, y \in T : Later(x, y)
Els(s) == {s[i] : i \in DOMAIN s}
OnWay(c) == Els(conn[c].replay) \cup Els(conn[c].queue)

ConnSet == [open : BOOLEAN, queue : Seq(Hub!Events), replay : Seq(Hub!Events),
            frame : Hub!Events \cup {Hub!NoEvent}, times : Nat]
PageSet == [task : Tasks \cup {NoTask}, first : Nat, lastSeq : Nat,
            lastId : Hub!Events \cup {Hub!NoEvent}, knowsEnd : BOOLEAN, reconciled : BOOLEAN]
HubTypes ==
    /\ eventSeq \in [Tasks -> Nat] /\ ended \in SUBSET Tasks
    /\ history \in Seq(Hub!Events) /\ log \in Seq(Hub!Events)
    /\ pub \in [ev : Hub!Events \cup {Hub!NoEvent}, todo : SUBSET Clients,
                step : {"idle", "offer", "drop", "retry"}, to : Clients \cup {"none"}]
    /\ conn \in [Clients -> ConnSet]
    /\ page \in [Clients -> PageSet]
    /\ received \in [Clients -> Seq(Hub!Events)]
    /\ lost \in [Clients -> SUBSET Hub!Events] /\ missed \in [Clients -> SUBSET Hub!Events]
\* The numbers of a task go up and the hub keeps the last events.
LogFits ==
    /\ \A e \in Els(log) : e.seq <= eventSeq[e.task]
    /\ Ordered(log)
HistoryFits ==
    /\ Len(history) <= Len(log) /\ Len(history) <= HistoryLimit
    /\ Len(history) < HistoryLimit => Len(history) = Len(log)
    /\ \A i \in 1 .. Len(history) : history[i] = log[Len(log) - Len(history) + i]
\* The event under way is the newest one.
PubFits ==
    /\ pub.step = "idle" => pub.todo = {}
    /\ pub.step # "idle" => log # <<>> /\ pub.ev = log[Len(log)]
    /\ pub.step \in {"drop", "retry"} => pub.to \in pub.todo
    /\ pub.step = "retry" => Len(conn[pub.to].queue) < QueueCap
    /\ \A c \in pub.todo : conn[c].open
ConnFits(c) ==
    /\ ~conn[c].open => conn[c].queue = <<>> /\ conn[c].replay = <<>> /\ conn[c].frame = Hub!NoEvent
    /\ Len(conn[c].queue) <= QueueCap
    /\ Els(received[c]) \cup OnWay(c) \cup lost[c] \subseteq Els(log)
    /\ conn[c].frame \in Els(log) \cup {Hub!NoEvent}
    /\ page[c].lastId = IF received[c] = <<>> THEN Hub!NoEvent
                        ELSE received[c][Len(received[c])]
\* What a client received, what its handler holds, its replay, its queue and
\* the event it is still to be offered are in this order.
InTurn(c) ==
    /\ Ordered(received[c]) /\ Ordered(conn[c].replay) /\ Ordered(conn[c].queue)
    /\ Below(Els(received[c]), OnWay(c) \cup {conn[c].frame})
    /\ Below({conn[c].frame}, OnWay(c))
    /\ Below(Els(conn[c].replay), Els(conn[c].queue))
    /\ c \in pub.todo =>
         Below(Els(received[c]) \cup OnWay(c) \cup {conn[c].frame}, {pub.ev})
\* An event that is nowhere comes after the last one its client received.
Known(c) ==
    \A e \in Els(log) :
      \/ e \in Els(received[c]) \cup OnWay(c) \cup {conn[c].frame} \cup lost[c] \cup missed[c]
      \/ c \in pub.todo /\ e = pub.ev
      \/ ~conn[c].open /\ Later(page[c].lastId, e)
NewestIn(c) == log # <<>> => log[Len(log)] \notin lost[c]
\* The page has every number up to the last one, or has read the snapshot.
Numbered(c) ==
    page[c].lastSeq > 0 =>
      /\ page[c].task \in Tasks /\ page[c].first \in 1 .. page[c].lastSeq
      /\ ~page[c].reconciled =>
           \A n \in page[c].first .. page[c].lastSeq : \E e \in Els(received[c]) :
              e.task = page[c].task /\ e.seq = n
ClientFits(c) == ConnFits(c) /\ InTurn(c) /\ Known(c) /\ NewestIn(c) /\ Numbered(c)
HubInv ==
    /\ HubTypes /\ LogFits /\ HistoryFits /\ PubFits
    /\ \A c \in Clients : ClientFits(c)

LEMMA HubNames ==
    /\ NoTask \notin Tasks /\ HistoryLimit \in Nat /\ HistoryLimit > 0
    /\ QueueCap \in Nat /\ QueueCap > 1
  BY HubAssumption DEF HubAssumption, Hub!NoTaskAssumption, Hub!CapacityAssumption

LEMMA HubNone ==
    /\ \A e \in Hub!Events : e # Hub!NoEvent /\ e.task \in Tasks /\ e.seq \in Nat /\ e.seq > 0
    /\ \A e : Later(Hub!NoEvent, e) <=> (e.task = NoTask => 0 < e.seq)
    /\ \A e \in Hub!Events : Later(Hub!NoEvent, e) /\ Later(e, Hub!NoEvent)
    /\ Hub!NoEvent.task = NoTask /\ Hub!NoEvent.seq = 0
  BY HubNames DEF Hub!Events, Hub!NoEvent, Later

\* An event at the end of a sequence of events.
LEMMA Appended ==
    ASSUME NEW s \in Seq(Hub!Events), NEW e \in Hub!Events
    PROVE  /\ Append(s, e) \in Seq(Hub!Events) /\ Len(Append(s, e)) = Len(s) + 1
           /\ Append(s, e)[Len(s) + 1] = e /\ Append(s, e) # <<>>
           /\ \A i \in 1 .. Len(s) : Append(s, e)[i] = s[i]
           /\ Els(Append(s, e)) = Els(s) \cup {e}
           /\ Ordered(s) /\ Below(Els(s), {e}) => Ordered(Append(s, e))
<1> DEFINE a == Append(s, e)
<1>1. /\ a \in Seq(Hub!Events) /\ Len(a) = Len(s) + 1 /\ a[Len(s) + 1] = e /\ a # <<>>
      /\ \A i \in 1 .. Len(s) : a[i] = s[i]
      /\ Len(s) \in Nat /\ DOMAIN s = 1 .. Len(s) /\ DOMAIN a = 1 .. (Len(s) + 1)
  OBVIOUS
<1> HIDE DEF a
<1>2. Els(a) = Els(s) \cup {e}
  BY <1>1 DEF Els
<1>3. ASSUME Ordered(s), Below(Els(s), {e}) PROVE Ordered(a)
  <2> SUFFICES ASSUME NEW i \in 1 .. (Len(s) + 1), NEW j \in 1 .. (Len(s) + 1), i < j
               PROVE  Later(a[i], a[j])
    BY <1>1 DEF Ordered
  <2>1. i \in 1 .. Len(s) /\ a[i] = s[i] /\ s[i] \in Els(s)
    BY <1>1 DEF Els
  <2>2. CASE j = Len(s) + 1
    BY <1>1, <1>3, <2>1, <2>2 DEF Below
  <2>3. CASE j # Len(s) + 1
    <3>1. j \in 1 .. Len(s) /\ a[j] = s[j]
      BY <1>1, <2>3
    <3> QED
      BY <1>1, <1>3, <2>1, <3>1 DEF Ordered
  <2> QED
    BY <2>2, <2>3
<1> QED
  BY <1>1, <1>2, <1>3 DEF a

\* The first event of a sequence, and the others.
LEMMA Taken ==
    ASSUME NEW s \in Seq(Hub!Events), s # <<>>
    PROVE  /\ Head(s) \in Hub!Events /\ Head(s) \in Els(s) /\ Tail(s) \in Seq(Hub!Events)
           /\ Len(Tail(s)) = Len(s) - 1 /\ Len(s) \in Nat
           /\ Els(s) = {Head(s)} \cup Els(Tail(s))
           /\ Ordered(s) => Ordered(Tail(s)) /\ Below({Head(s)}, Els(Tail(s)))
<1> DEFINE t == Tail(s)
<1>1. /\ Len(s) \in Nat /\ Len(s) > 0 /\ Head(s) = s[1] /\ s[1] \in Hub!Events /\ t \in Seq(Hub!Events)
      /\ Len(t) = Len(s) - 1 /\ \A i \in 1 .. Len(t) : t[i] = s[i + 1]
      /\ DOMAIN s = 1 .. Len(s) /\ DOMAIN t = 1 .. Len(t)
  OBVIOUS
<1> HIDE DEF t
<1>2. \A i \in 1 .. Len(s) : s[i] = Head(s) \/ s[i] \in Els(t)
  <2> SUFFICES ASSUME NEW i \in 1 .. Len(s), i # 1 PROVE s[i] \in Els(t)
    BY <1>1
  <2>1. i - 1 \in 1 .. Len(t) /\ t[i - 1] = s[i]
    BY <1>1
  <2> QED
    BY <1>1, <2>1 DEF Els
<1>3. \A i \in 1 .. Len(t) : t[i] = s[i + 1] /\ i + 1 \in 1 .. Len(s)
  BY <1>1
<1>4. 1 \in 1 .. Len(s)
  BY <1>1
<1>5. Els(s) = {Head(s)} \cup Els(t)
  <2>1. \A i \in 1 .. Len(t) : t[i] \in Els(s)
    BY <1>1, <1>3 DEF Els
  <2>2. Head(s) \in Els(s)
    BY <1>1, <1>4 DEF Els
  <2>3. Els(t) \subseteq Els(s)
    BY <1>1, <2>1 DEF Els
  <2>4. Els(s) \subseteq {Head(s)} \cup Els(t)
    BY <1>1, <1>2 DEF Els
  <2> QED
    BY <2>2, <2>3, <2>4
<1>6. ASSUME Ordered(s) PROVE Ordered(t) /\ Below({Head(s)}, Els(t))
  <2>1. Ordered(t)
    <3> SUFFICES ASSUME NEW i \in 1 .. Len(t), NEW j \in 1 .. Len(t), i < j
                 PROVE  Later(t[i], t[j])
      BY <1>1 DEF Ordered
    <3>1. i + 1 < j + 1
      BY <1>1
    <3> QED
      BY <1>1, <1>3, <1>6, <3>1 DEF Ordered
  <2>2. ASSUME NEW i \in 1 .. Len(t) PROVE Later(Head(s), t[i])
    <3>1. 1 < i + 1
      OBVIOUS
    <3> QED
      BY <1>1, <1>3, <1>4, <1>6, <3>1 DEF Ordered
  <2> QED
    BY <1>1, <2>1, <2>2 DEF Below, Els
<1> QED
  BY <1>1, <1>5, <1>6 DEF t

LEMMA NothingIn == /\ Els(<<>>) = {} /\ Ordered(<<>>) /\ <<>> \in Seq(Hub!Events) /\ Len(<<>>) = 0
  BY DEF Els, Ordered

LEMMA ClientTypes ==
    ASSUME HubTypes, NEW c \in Clients
    PROVE  /\ conn[c].open \in BOOLEAN /\ conn[c].queue \in Seq(Hub!Events)
           /\ conn[c].replay \in Seq(Hub!Events) /\ conn[c].times \in Nat
           /\ conn[c].frame \in Hub!Events \cup {Hub!NoEvent}
           /\ Len(conn[c].queue) \in Nat /\ Len(conn[c].replay) \in Nat
           /\ page[c].task \in Tasks \cup {NoTask} /\ page[c].first \in Nat
           /\ page[c].lastSeq \in Nat /\ page[c].lastId \in Hub!Events \cup {Hub!NoEvent}
           /\ page[c].knowsEnd \in BOOLEAN /\ page[c].reconciled \in BOOLEAN
           /\ received[c] \in Seq(Hub!Events) /\ Len(received[c]) \in Nat
           /\ lost[c] \subseteq Hub!Events /\ missed[c] \subseteq Hub!Events
<1>1. conn[c] \in ConnSet /\ page[c] \in PageSet
  BY DEF HubTypes
<1>2. received[c] \in Seq(Hub!Events) /\ lost[c] \subseteq Hub!Events /\ missed[c] \subseteq Hub!Events
  BY DEF HubTypes
<1>3. Len(received[c]) \in Nat
  BY <1>2
<1>4. /\ conn[c].open \in BOOLEAN /\ conn[c].queue \in Seq(Hub!Events)
      /\ conn[c].replay \in Seq(Hub!Events) /\ conn[c].times \in Nat
      /\ conn[c].frame \in Hub!Events \cup {Hub!NoEvent}
  BY <1>1 DEF ConnSet
<1>5. Len(conn[c].queue) \in Nat /\ Len(conn[c].replay) \in Nat
  BY <1>4
<1>6. /\ page[c].task \in Tasks \cup {NoTask} /\ page[c].first \in Nat
      /\ page[c].lastSeq \in Nat /\ page[c].lastId \in Hub!Events \cup {Hub!NoEvent}
      /\ page[c].knowsEnd \in BOOLEAN /\ page[c].reconciled \in BOOLEAN
  BY <1>1 DEF PageSet
<1> QED
  BY <1>2, <1>3, <1>4, <1>5, <1>6

LEMMA HubParts ==
    ASSUME HubTypes
    PROVE  /\ pub.ev \in Hub!Events \cup {Hub!NoEvent} /\ pub.todo \subseteq Clients
           /\ pub.step \in {"idle", "offer", "drop", "retry"} /\ pub.to \in Clients \cup {"none"}
           /\ log \in Seq(Hub!Events) /\ Len(log) \in Nat /\ Els(log) \subseteq Hub!Events
           /\ history \in Seq(Hub!Events) /\ Len(history) \in Nat
           /\ \A t \in Tasks : eventSeq[t] \in Nat
           /\ log # <<>> => log[Len(log)] \in Els(log)
  BY DEF HubTypes, Els

\* What is not the client's own and not the log does not matter to it.
LEMMA Unmoved ==
    ASSUME NEW c \in Clients, ClientFits(c), HubTypes, HubTypes',
           UNCHANGED <<conn[c], page[c], received[c], lost[c], missed[c], log>>,
           (c \in pub'.todo) <=> (c \in pub.todo),
           c \in pub.todo => pub'.ev = pub.ev
    PROVE  ClientFits(c)'
<1>1. OnWay(c)' = OnWay(c)
  BY DEF OnWay
<1>2. ConnFits(c)'
  BY <1>1 DEF ClientFits, ConnFits
<1>5. NewestIn(c)'
  BY DEF ClientFits, NewestIn
<1>6. Numbered(c)'
  BY DEF ClientFits, Numbered
<1>3. InTurn(c)'
  BY <1>1 DEF ClientFits, InTurn
<1>4. Known(c)'
  BY <1>1 DEF ClientFits, Known
<1> QED
  BY <1>2, <1>3, <1>4, <1>5, <1>6 DEF ClientFits

LEMMA OthersFit ==
    ASSUME HubInv, HubTypes', NEW c \in Clients, ClientFits(c)',
           UNCHANGED <<page, received, log, missed>>,
           \A d \in Clients \ {c} : conn'[d] = conn[d] /\ lost'[d] = lost[d],
           \A d \in Clients \ {c} : d \in pub'.todo <=> d \in pub.todo,
           pub'.ev = pub.ev
    PROVE  \A d \in Clients : ClientFits(d)'
<1> SUFFICES ASSUME NEW d \in Clients \ {c} PROVE ClientFits(d)'
  OBVIOUS
<1> QED
  BY Unmoved DEF HubInv

\* The publisher puts its event into the queue of a client.
LEMMA Enqueued ==
    ASSUME HubInv, NEW c \in Clients, c \in pub.todo, pub.step # "idle",
           Len(conn[c].queue) < QueueCap, conn' = Hub!Queued(c, pub.ev),
           pub'.todo = pub.todo \ {c}, pub'.ev = pub.ev,
           pub'.step = "offer", pub'.to = pub.to, pub' = [pub EXCEPT !.step = "offer", !.todo = pub.todo \ {c}],
           UNCHANGED <<eventSeq, ended, history, page, log, received, lost, missed>>
    PROVE  HubInv'
<1>0. HubTypes /\ LogFits /\ HistoryFits /\ PubFits /\ ClientFits(c)
  BY DEF HubInv
<1> DEFINE q == conn[c].queue
<1>1. q \in Seq(Hub!Events) /\ Len(q) \in Nat
  BY <1>0, ClientTypes
<1>2. pub.ev = log[Len(log)] /\ pub.ev \in Els(log) /\ pub.ev \in Hub!Events
  BY <1>0, HubParts DEF PubFits
<1>3. /\ conn'[c] = [conn[c] EXCEPT !.queue = Append(q, pub.ev)]
      /\ conn'[c].queue = Append(q, pub.ev) /\ conn'[c].replay = conn[c].replay
      /\ conn'[c].frame = conn[c].frame /\ conn'[c].open = conn[c].open
      /\ \A d \in Clients \ {c} : conn'[d] = conn[d]
  BY <1>0 DEF Hub!Queued, HubTypes
<1>4. HubTypes'
  <2>1. Append(q, pub.ev) \in Seq(Hub!Events)
    BY <1>1, <1>2, Appended
  <2>4. /\ conn \in [Clients -> ConnSet]
        /\ conn' = [conn EXCEPT ![c] = [conn[c] EXCEPT !.queue = Append(q, pub.ev)]]
    BY <1>0 DEF Hub!Queued, HubTypes, ConnSet
  <2>5. [conn[c] EXCEPT !.queue = Append(q, pub.ev)] \in ConnSet
    BY <2>1, <2>4 DEF ConnSet
  <2>2. conn' \in [Clients -> ConnSet]
    BY <2>4, <2>5
  <2>3. pub' \in [ev : Hub!Events \cup {Hub!NoEvent}, todo : SUBSET Clients,
                  step : {"idle", "offer", "drop", "retry"}, to : Clients \cup {"none"}]
    BY <1>0 DEF HubTypes
  <2> QED
    BY <1>0, <2>2, <2>3 DEF HubTypes, ConnSet
<1>5. /\ Els(Append(q, pub.ev)) = Els(q) \cup {pub.ev} /\ Len(Append(q, pub.ev)) = Len(q) + 1
      /\ Ordered(q) /\ Below(Els(q), {pub.ev}) => Ordered(Append(q, pub.ev))
  <2> HIDE DEF q
  <2>1. /\ Els(Append(q, pub.ev)) = Els(q) \cup {pub.ev} /\ Len(Append(q, pub.ev)) = Len(q) + 1
    BY <1>1, <1>2, Appended
  <2>2. Ordered(q) /\ Below(Els(q), {pub.ev}) => Ordered(Append(q, pub.ev))
    BY <1>1, <1>2, Appended
  <2> QED
    BY <2>1, <2>2
<1>6. /\ OnWay(c)' = OnWay(c) \cup {pub.ev}
      /\ Els(conn[c].queue)' = Els(q) \cup {pub.ev} /\ Els(conn[c].replay)' = Els(conn[c].replay)
      /\ OnWay(c) = Els(conn[c].replay) \cup Els(q)
  BY <1>3, <1>5 DEF OnWay
<1>7. ClientFits(c)'
  <2>1. ConnFits(c)'
    BY <1>0, <1>1, <1>2, <1>3, <1>5, <1>6, HubNames DEF ConnFits, ClientFits, PubFits
  <2>2. InTurn(c)'
    <3>1. Below(Els(received[c]) \cup OnWay(c) \cup {conn[c].frame}, {pub.ev})
      BY <1>0 DEF ClientFits, InTurn
    <3>2. Ordered(conn[c].queue)'
      BY <1>0, <1>3, <1>5, <1>6, <3>1 DEF Below, ClientFits, InTurn
    <3> QED
      BY <1>0, <1>3, <1>6, <3>1, <3>2 DEF Below, ClientFits, InTurn
  <2>3. Known(c)'
    BY <1>0, <1>3, <1>6 DEF ClientFits, Known
  <2>4. NewestIn(c)' /\ Numbered(c)'
    BY <1>0 DEF ClientFits, NewestIn, Numbered
  <2> QED
    BY <2>1, <2>2, <2>3, <2>4 DEF ClientFits
<1>8. \A d \in Clients : ClientFits(d)'
  BY <1>3, <1>4, <1>7, OthersFit
<1>9. LogFits' /\ HistoryFits'
  BY <1>0 DEF LogFits, HistoryFits
<1>10. PubFits'
  BY <1>0, <1>3 DEF PubFits, HubTypes
<1> QED
  BY <1>4, <1>8, <1>9, <1>10 DEF HubInv

LEMMA PubStep ==
    ASSUME HubInv, NEW next \in {"offer", "drop"}, NEW c \in pub.todo,
           pub' = [pub EXCEPT !.step = next, !.to = c], pub.step = "offer",
           UNCHANGED <<eventSeq, ended, history, conn, page, log, received, lost, missed>>
    PROVE  HubInv'
<1>0. HubTypes /\ LogFits /\ HistoryFits /\ PubFits
  BY DEF HubInv
<1>1. /\ pub'.ev = pub.ev /\ pub'.todo = pub.todo /\ pub'.step = next /\ pub'.to = c
      /\ c \in Clients
  BY <1>0 DEF HubTypes
<1>2. HubTypes'
  <2>1. pub' \in [ev : Hub!Events \cup {Hub!NoEvent}, todo : SUBSET Clients,
                  step : {"idle", "offer", "drop", "retry"}, to : Clients \cup {"none"}]
    BY <1>0, <1>1 DEF HubTypes
  <2> QED
    BY <1>0, <2>1 DEF HubTypes
<1>3. \A d \in Clients : ClientFits(d)'
  BY <1>0, <1>1, <1>2, Unmoved DEF HubInv
<1> QED
  BY <1>0, <1>1, <1>2, <1>3 DEF HubInv, LogFits, HistoryFits, PubFits

LEMMA OfferStep == ASSUME HubInv, NEW c \in Clients, Hub!Offer(c) PROVE HubInv'
<1>0. HubTypes /\ PubFits /\ c \in pub.todo /\ pub.step = "offer"
  BY DEF HubInv, Hub!Offer
<1>1. CASE Len(conn[c].queue) < QueueCap
  <2>1. conn' = Hub!Queued(c, pub.ev) /\ pub' = [pub EXCEPT !.todo = @ \ {c}]
    BY <1>1 DEF Hub!Offer
  <2>2. /\ pub'.todo = pub.todo \ {c} /\ pub'.ev = pub.ev /\ pub'.step = "offer" /\ pub'.to = pub.to
        /\ pub' = [pub EXCEPT !.step = "offer", !.todo = pub.todo \ {c}]
    BY <1>0, <2>1 DEF HubTypes
  <2>3. UNCHANGED <<eventSeq, ended, history, page, log, received, lost, missed>>
    BY DEF Hub!Offer, Hub!hubVars, Hub!ghostVars
  <2> QED
    BY <1>0, <1>1, <2>1, <2>2, <2>3, Enqueued
<1>2. CASE ~(Len(conn[c].queue) < QueueCap)
  <2>1. pub' = [pub EXCEPT !.step = "drop", !.to = c] /\ UNCHANGED conn
    BY <1>2 DEF Hub!Offer
  <2>3. UNCHANGED <<eventSeq, ended, history, conn, page, log, received, lost, missed>>
    BY <2>1 DEF Hub!Offer, Hub!hubVars, Hub!ghostVars
  <2> QED
    BY <1>0, <2>1, <2>3, PubStep
<1> QED
  BY <1>1, <1>2

LEMMA DropOldestStep == ASSUME HubInv, Hub!DropOldest PROVE HubInv'
<1>0. HubTypes /\ LogFits /\ HistoryFits /\ PubFits /\ pub.step = "drop"
  BY DEF HubInv, Hub!DropOldest
<1>1. PICK c \in Clients : c = pub.to /\ c \in pub.todo /\ ClientFits(c)
  BY <1>0, HubParts DEF PubFits, HubInv
<1> DEFINE q == conn[c].queue
<1>2. q \in Seq(Hub!Events) /\ Len(q) \in Nat /\ Len(q) <= QueueCap
  BY <1>0, <1>1, ClientTypes DEF ClientFits, ConnFits
<1>3. /\ UNCHANGED <<eventSeq, ended, history, page, log, received, missed>>
      /\ pub' = [pub EXCEPT !.step = "retry"]
  BY DEF Hub!DropOldest, Hub!hubVars
<1>4. pub'.ev = pub.ev /\ pub'.todo = pub.todo /\ pub'.step = "retry" /\ pub'.to = c
  BY <1>0, <1>1, <1>3 DEF HubTypes
<1>5. pub' \in [ev : Hub!Events \cup {Hub!NoEvent}, todo : SUBSET Clients,
                step : {"idle", "offer", "drop", "retry"}, to : Clients \cup {"none"}]
  BY <1>0, <1>3 DEF HubTypes
<1>6. CASE q = <<>>
  <2>1. UNCHANGED <<conn, lost>>
    BY <1>1, <1>6 DEF Hub!DropOldest
  <2>2. HubTypes'
    BY <1>0, <1>3, <1>5, <2>1 DEF HubTypes
  <2>3. \A d \in Clients : ClientFits(d)'
    BY <1>0, <1>3, <1>4, <2>1, <2>2, Unmoved DEF HubInv
  <2>4. LogFits' /\ HistoryFits'
    BY <1>0, <1>3 DEF LogFits, HistoryFits
  <2>5. PubFits'
    BY <1>0, <1>3, <1>4, <1>6, <1>1, <2>1, HubNames DEF PubFits
  <2> QED
    BY <2>2, <2>3, <2>4, <2>5 DEF HubInv
<1>7. CASE q # <<>>
  <2>1. /\ conn' = [conn EXCEPT ![c] = [conn[c] EXCEPT !.queue = Tail(q)]]
        /\ lost' = [lost EXCEPT ![c] = lost[c] \cup {Head(q)}]
    BY <1>1, <1>7 DEF Hub!DropOldest
  <2>2. /\ Head(q) \in Hub!Events /\ Head(q) \in Els(q) /\ Tail(q) \in Seq(Hub!Events)
        /\ Len(Tail(q)) = Len(q) - 1 /\ Els(q) = {Head(q)} \cup Els(Tail(q))
        /\ Ordered(q) => Ordered(Tail(q)) /\ Below({Head(q)}, Els(Tail(q)))
    BY <1>2, <1>7, Taken
  <2>3. /\ conn'[c] = [conn[c] EXCEPT !.queue = Tail(q)]
        /\ conn'[c].queue = Tail(q) /\ conn'[c].replay = conn[c].replay
        /\ conn'[c].frame = conn[c].frame /\ conn'[c].open = conn[c].open
        /\ lost'[c] = lost[c] \cup {Head(q)}
        /\ \A d \in Clients \ {c} : conn'[d] = conn[d] /\ lost'[d] = lost[d]
    BY <1>0, <1>1, <2>1 DEF HubTypes, ConnSet
  <2>4. HubTypes'
    <3>1. conn[c] \in ConnSet /\ conn \in [Clients -> ConnSet]
      BY <1>0, <1>1 DEF HubTypes
    <3>2. [conn[c] EXCEPT !.queue = Tail(q)] \in ConnSet
      BY <3>1, <2>2 DEF ConnSet
    <3>3. conn' \in [Clients -> ConnSet]
      BY <3>1, <3>2, <2>1
    <3>4. lost' \in [Clients -> SUBSET Hub!Events]
      BY <1>0, <1>1, <2>1, <2>2 DEF HubTypes
    <3> QED
      BY <1>0, <1>3, <1>5, <3>3, <3>4 DEF HubTypes
  <2>5. /\ OnWay(c) = OnWay(c)' \cup {Head(q)} /\ Head(q) \in OnWay(c)
        /\ Els(conn[c].queue)' = Els(Tail(q)) /\ Els(conn[c].replay)' = Els(conn[c].replay)
        /\ OnWay(c)' \subseteq OnWay(c) /\ Els(Tail(q)) \subseteq Els(q)
    BY <2>2, <2>3 DEF OnWay
  <2>6. ConnFits(c)'
    BY <1>1, <1>2, <1>3, <2>2, <2>3, <2>5, HubNames DEF ClientFits, ConnFits
  <2>7. InTurn(c)'
    BY <1>1, <1>3, <1>4, <2>2, <2>3, <2>5 DEF ClientFits, InTurn, Below
  <2>8. Known(c)'
    BY <1>1, <1>3, <1>4, <2>3, <2>5 DEF ClientFits, Known
  <2>9. NewestIn(c)'
    <3>1. Later(Head(q), pub.ev)
      BY <1>1, <2>5 DEF ClientFits, InTurn, Below
    <3>2. Head(q) # pub.ev
      BY <2>2, <3>1, HubNone DEF Later
    <3>3. pub.ev = log[Len(log)]
      BY <1>0 DEF PubFits
    <3> QED
      BY <1>1, <1>3, <2>3, <3>2, <3>3 DEF ClientFits, NewestIn
  <2>10. Numbered(c)'
    BY <1>1, <1>3 DEF ClientFits, Numbered
  <2>11. ClientFits(c)'
    BY <2>6, <2>7, <2>8, <2>9, <2>10 DEF ClientFits
  <2>12. \A d \in Clients : ClientFits(d)'
    BY <1>1, <1>3, <1>4, <2>3, <2>4, <2>11, OthersFit
  <2>13. LogFits' /\ HistoryFits'
    BY <1>0, <1>3 DEF LogFits, HistoryFits
  <2>14. PubFits'
    <3>1. Len(conn'[c].queue) < QueueCap
      BY <1>2, <2>2, <2>3, HubNames
    <3>2. \A d \in pub.todo : conn'[d].open
      BY <1>0, <1>1, <2>3, HubParts DEF PubFits
    <3> QED
      BY <1>0, <1>1, <1>3, <1>4, <3>1, <3>2 DEF PubFits
  <2> QED
    BY <2>4, <2>12, <2>13, <2>14 DEF HubInv
<1> QED
  BY <1>6, <1>7

\* As nobody else sends, the event fits in the second time.
LEMMA OfferAgainStep == ASSUME HubInv, Hub!OfferAgain PROVE HubInv'
<1>0. HubTypes /\ PubFits /\ pub.step = "retry"
  BY DEF HubInv, Hub!OfferAgain
<1>1. PICK c \in Clients : c = pub.to /\ c \in pub.todo /\ Len(conn[c].queue) < QueueCap
  BY <1>0, HubParts DEF PubFits
<1>2. /\ conn' = Hub!Queued(c, pub.ev) /\ pub' = [pub EXCEPT !.step = "offer", !.todo = @ \ {c}]
      /\ UNCHANGED <<eventSeq, ended, history, page, log, received, lost, missed>>
  BY <1>1 DEF Hub!OfferAgain, Hub!hubVars
<1>3. /\ pub'.todo = pub.todo \ {c} /\ pub'.ev = pub.ev /\ pub'.step = "offer" /\ pub'.to = pub.to
      /\ pub' = [pub EXCEPT !.step = "offer", !.todo = pub.todo \ {c}]
  BY <1>0, <1>2 DEF HubTypes
<1> QED
  BY <1>0, <1>1, <1>2, <1>3, Enqueued

LEMMA PublishEndStep == ASSUME HubInv, Hub!PublishEnd PROVE HubInv'
<1>0. HubTypes /\ LogFits /\ HistoryFits /\ PubFits /\ pub.todo = {}
  BY DEF HubInv, Hub!PublishEnd
<1>1. /\ UNCHANGED <<eventSeq, ended, history, conn, page, log, received, lost, missed>>
      /\ pub' = Hub!Idle
  BY DEF Hub!PublishEnd, Hub!hubVars, Hub!ghostVars
<1>2. pub'.todo = {} /\ pub'.step = "idle" /\ pub'.ev = Hub!NoEvent /\ pub'.to = "none"
  BY <1>1 DEF Hub!Idle
<1>3. HubTypes'
  <2>1. pub' \in [ev : Hub!Events \cup {Hub!NoEvent}, todo : SUBSET Clients,
                  step : {"idle", "offer", "drop", "retry"}, to : Clients \cup {"none"}]
    BY <1>1 DEF Hub!Idle
  <2> QED
    BY <1>0, <1>1, <2>1 DEF HubTypes
<1>4. \A d \in Clients : ClientFits(d)'
  BY <1>0, <1>1, <1>2, <1>3, Unmoved DEF HubInv
<1> QED
  BY <1>0, <1>1, <1>2, <1>3, <1>4 DEF HubInv, LogFits, HistoryFits, PubFits

\* The conjuncts a step of one client's connection or page leaves alone.
LEMMA ClientStep ==
    ASSUME HubInv, HubTypes', NEW c \in Clients, ClientFits(c)',
           UNCHANGED <<eventSeq, ended, history, pub, log, lost>>,
           \A d \in Clients \ {c} : /\ conn'[d] = conn[d] /\ page'[d] = page[d]
                                   /\ received'[d] = received[d] /\ missed'[d] = missed[d],
           c \in pub.todo => conn'[c].open,
           Len(conn[c].queue) < QueueCap => Len(conn'[c].queue) < QueueCap
    PROVE  HubInv'
<1>0. HubTypes /\ LogFits /\ HistoryFits /\ PubFits
  BY DEF HubInv
<1>1. \A d \in Clients : ClientFits(d)'
  <2> SUFFICES ASSUME NEW d \in Clients \ {c} PROVE ClientFits(d)'
    OBVIOUS
  <2> QED
    BY <1>0, Unmoved DEF HubInv
<1>2. \A d \in pub.todo : conn'[d].open
  BY <1>0, HubParts DEF PubFits
<1>3. pub.step = "retry" => Len(conn'[pub.to].queue) < QueueCap
  BY <1>0, HubParts DEF PubFits
<1> QED
  BY <1>0, <1>1, <1>2, <1>3 DEF HubInv, LogFits, HistoryFits, PubFits

LEMMA TakeStep == ASSUME HubInv, NEW c \in Clients, Hub!Take(c) PROVE HubInv'
<1>0. HubTypes /\ PubFits /\ ClientFits(c) /\ conn[c].open /\ conn[c].frame = Hub!NoEvent
  BY DEF HubInv, Hub!Take
<1>1. UNCHANGED <<eventSeq, ended, history, pub, page, log, received, lost, missed>>
  BY DEF Hub!Take, Hub!hubVars, Hub!ghostVars
<1>2. conn \in [Clients -> ConnSet] /\ conn[c] \in ConnSet
  BY <1>0 DEF HubTypes
<1>3. CASE /\ conn[c].replay # <<>>
           /\ conn' = [conn EXCEPT ![c].frame = Head(conn[c].replay), ![c].replay = Tail(@)]
  <2> DEFINE r == conn[c].replay
  <2>1. r \in Seq(Hub!Events)
    BY <1>0, ClientTypes
  <2>2. /\ Head(r) \in Hub!Events /\ Head(r) \in Els(r) /\ Tail(r) \in Seq(Hub!Events)
        /\ Els(r) = {Head(r)} \cup Els(Tail(r))
        /\ Ordered(r) => Ordered(Tail(r)) /\ Below({Head(r)}, Els(Tail(r)))
    BY <1>3, <2>1, Taken
  <2>3. conn' = [conn EXCEPT ![c] = [conn[c] EXCEPT !.frame = Head(r), !.replay = Tail(r)]]
    BY <1>2, <1>3
  <2>4. /\ conn'[c].frame = Head(r) /\ conn'[c].replay = Tail(r)
        /\ conn'[c].queue = conn[c].queue /\ conn'[c].open = conn[c].open
        /\ \A d \in Clients \ {c} : conn'[d] = conn[d]
    BY <1>2, <2>3 DEF ConnSet
  <2>5. HubTypes'
    <3>1. [conn[c] EXCEPT !.frame = Head(r), !.replay = Tail(r)] \in ConnSet
      BY <1>2, <2>2 DEF ConnSet
    <3>2. conn' \in [Clients -> ConnSet]
      BY <1>2, <2>3, <3>1
    <3> QED
      BY <1>0, <1>1, <3>2 DEF HubTypes
  <2>6. /\ OnWay(c) = OnWay(c)' \cup {Head(r)} /\ Head(r) \in OnWay(c)
        /\ Els(conn[c].replay)' = Els(Tail(r)) /\ Els(conn[c].queue)' = Els(conn[c].queue)
        /\ OnWay(c)' = Els(Tail(r)) \cup Els(conn[c].queue)
        /\ OnWay(c)' \subseteq OnWay(c) /\ Els(Tail(r)) \subseteq Els(r)
    BY <2>2, <2>4 DEF OnWay
  <2>7. ConnFits(c)'
    BY <1>0, <1>1, <2>4, <2>6 DEF ClientFits, ConnFits
  <2>8. InTurn(c)'
    <3>1. InTurn(c)
      BY <1>0 DEF ClientFits
    <3>2. Below({Head(r)}, Els(Tail(r))) /\ Ordered(Tail(r))
      BY <2>2, <3>1 DEF InTurn
    <3>3. Below({Head(r)}, Els(conn[c].queue)) /\ Below(Els(Tail(r)), Els(conn[c].queue))
      BY <2>2, <2>6, <3>1 DEF InTurn, Below
    <3>4. Below({conn[c].frame}, OnWay(c))'
      BY <2>4, <2>6, <3>2, <3>3 DEF Below
    <3>5. Below(Els(received[c]), OnWay(c) \cup {conn[c].frame})'
      BY <1>1, <2>4, <2>6, <3>1 DEF InTurn, Below
    <3>6. c \in pub'.todo => Below(Els(received[c]) \cup OnWay(c) \cup {conn[c].frame}, {pub.ev})'
      BY <1>1, <2>4, <2>6, <3>1 DEF InTurn, Below
    <3> QED
      BY <1>1, <2>4, <2>6, <3>1, <3>2, <3>3, <3>4, <3>5, <3>6 DEF InTurn
  <2>9. Known(c)'
    BY <1>0, <1>1, <2>4, <2>6, HubParts, HubNone DEF ClientFits, Known
  <2>10. NewestIn(c)' /\ Numbered(c)'
    BY <1>0, <1>1 DEF ClientFits, NewestIn, Numbered
  <2>11. ClientFits(c)'
    BY <2>7, <2>8, <2>9, <2>10 DEF ClientFits
  <2> QED
    BY <1>0, <1>1, <2>4, <2>5, <2>11, ClientStep
<1>4. CASE /\ conn[c].replay = <<>> /\ conn[c].queue # <<>>
           /\ conn' = [conn EXCEPT ![c].frame = Head(conn[c].queue), ![c].queue = Tail(@)]
  <2> DEFINE q == conn[c].queue
  <2>1. q \in Seq(Hub!Events)
    BY <1>0, ClientTypes
  <2>2. /\ Head(q) \in Hub!Events /\ Head(q) \in Els(q) /\ Tail(q) \in Seq(Hub!Events)
        /\ Els(q) = {Head(q)} \cup Els(Tail(q)) /\ Len(Tail(q)) = Len(q) - 1 /\ Len(q) \in Nat
        /\ Ordered(q) => Ordered(Tail(q)) /\ Below({Head(q)}, Els(Tail(q)))
    BY <1>4, <2>1, Taken
  <2>3. conn' = [conn EXCEPT ![c] = [conn[c] EXCEPT !.frame = Head(q), !.queue = Tail(q)]]
    BY <1>2, <1>4
  <2>4. /\ conn'[c].frame = Head(q) /\ conn'[c].queue = Tail(q)
        /\ conn'[c].replay = <<>> /\ conn'[c].open = conn[c].open
        /\ \A d \in Clients \ {c} : conn'[d] = conn[d]
    BY <1>2, <1>4, <2>3 DEF ConnSet
  <2>5. HubTypes'
    <3>1. [conn[c] EXCEPT !.frame = Head(q), !.queue = Tail(q)] \in ConnSet
      BY <1>2, <2>2 DEF ConnSet
    <3>2. conn' \in [Clients -> ConnSet]
      BY <1>2, <2>3, <3>1
    <3> QED
      BY <1>0, <1>1, <3>2 DEF HubTypes
  <2>6. /\ OnWay(c) = OnWay(c)' \cup {Head(q)} /\ Head(q) \in OnWay(c)
        /\ Els(conn[c].queue)' = Els(Tail(q)) /\ Els(conn[c].replay)' = {}
        /\ OnWay(c)' = Els(Tail(q)) /\ OnWay(c) = Els(q)
        /\ OnWay(c)' \subseteq OnWay(c) /\ Els(Tail(q)) \subseteq Els(q)
    BY <1>4, <2>2, <2>4, NothingIn DEF OnWay
  <2>7. ConnFits(c)'
    BY <1>0, <1>1, <2>2, <2>4, <2>6, HubNames DEF ClientFits, ConnFits
  <2>8. InTurn(c)'
    BY <1>0, <1>1, <2>2, <2>4, <2>6, NothingIn DEF ClientFits, InTurn, Below
  <2>9. Known(c)'
    BY <1>0, <1>1, <2>4, <2>6, HubParts, HubNone DEF ClientFits, Known
  <2>10. NewestIn(c)' /\ Numbered(c)'
    BY <1>0, <1>1 DEF ClientFits, NewestIn, Numbered
  <2>11. ClientFits(c)'
    BY <2>7, <2>8, <2>9, <2>10 DEF ClientFits
  <2>12. Len(conn[c].queue) < QueueCap => Len(conn'[c].queue) < QueueCap
    BY <2>2, <2>4, HubNames
  <2> QED
    BY <1>0, <1>1, <2>4, <2>5, <2>11, <2>12, ClientStep
<1> QED
  BY <1>3, <1>4 DEF Hub!Take

LEMMA BreakStep == ASSUME HubInv, NEW c \in Clients, Hub!Break(c) PROVE HubInv'
<1>0. /\ HubTypes /\ PubFits /\ ClientFits(c) /\ conn[c].open /\ pub.step = "idle"
      /\ pub.todo = {}
  BY DEF HubInv, Hub!Break, PubFits
<1>1. UNCHANGED <<eventSeq, ended, history, pub, page, log, received, lost, missed>>
  BY DEF Hub!Break, Hub!hubVars, Hub!ghostVars
<1>2. conn \in [Clients -> ConnSet] /\ conn[c] \in ConnSet
  BY <1>0 DEF HubTypes
<1>3. conn' = [conn EXCEPT ![c] = [Hub!Closed EXCEPT !.times = conn[c].times]]
  BY DEF Hub!Break
<1>4. /\ conn'[c].open = FALSE /\ conn'[c].queue = <<>> /\ conn'[c].replay = <<>>
      /\ conn'[c].frame = Hub!NoEvent
      /\ \A d \in Clients \ {c} : conn'[d] = conn[d]
  BY <1>2, <1>3 DEF Hub!Closed
<1>5. HubTypes'
  <2>1. [Hub!Closed EXCEPT !.times = conn[c].times] \in ConnSet
    <3>1. conn[c].times \in Nat
      BY <1>2 DEF ConnSet
    <3> QED
      BY <3>1, NothingIn DEF ConnSet, Hub!Closed
  <2>2. conn' \in [Clients -> ConnSet]
    BY <1>2, <1>3, <2>1
  <2> QED
    BY <1>0, <1>1, <2>2 DEF HubTypes
<1>6. /\ OnWay(c)' = {} /\ Els(conn[c].queue)' = {} /\ Els(conn[c].replay)' = {}
      /\ Ordered(conn[c].replay)' /\ Ordered(conn[c].queue)'
  BY <1>4, NothingIn DEF OnWay
<1>7. ConnFits(c)'
  BY <1>0, <1>1, <1>4, <1>6, NothingIn, HubNames DEF ClientFits, ConnFits
<1>8. InTurn(c)'
  <2>1. \A x \in Els(received[c]) : Later(x, Hub!NoEvent)
    BY <1>0, HubNone, HubParts DEF ClientFits, ConnFits
  <2> QED
    BY <1>0, <1>1, <1>4, <1>6, <2>1 DEF ClientFits, InTurn, Below
<1>9. Known(c)'
  <2> SUFFICES ASSUME NEW e \in Els(log), e \in OnWay(c) \cup {conn[c].frame}
               PROVE  Later(page[c].lastId, e)
    BY <1>0, <1>1, <1>4, <1>6 DEF ClientFits, Known
  <2>1. e \in Hub!Events
    BY <1>0, HubParts
  <2>2. CASE received[c] = <<>>
    BY <1>0, <2>1, <2>2, HubNone DEF ClientFits, ConnFits
  <2>3. CASE received[c] # <<>>
    <3>1. received[c][Len(received[c])] \in Els(received[c])
      BY <1>0, <2>3, ClientTypes DEF Els
    <3> QED
      BY <1>0, <2>3, <3>1 DEF ClientFits, ConnFits, InTurn, Below
  <2> QED
    BY <2>2, <2>3
<1>10. NewestIn(c)' /\ Numbered(c)'
  BY <1>0, <1>1 DEF ClientFits, NewestIn, Numbered
<1>11. ClientFits(c)'
  BY <1>7, <1>8, <1>9, <1>10 DEF ClientFits
<1>12. Len(conn'[c].queue) < QueueCap
  BY <1>4, NothingIn, HubNames
<1> QED
  BY <1>0, <1>1, <1>4, <1>5, <1>11, <1>12, ClientStep

\* A frame reaches the page.
LEMMA DeliverStep == ASSUME HubInv, NEW c \in Clients, Hub!Deliver(c) PROVE HubInv'
<1> DEFINE ev == conn[c].frame
           p == page[c]
           d == Hub!Decision(p, ev)
           takes == d \in {"accept", "gap"}
           q == [task |-> IF takes THEN ev.task ELSE p.task,
                 first |-> IF takes /\ p.lastSeq = 0 THEN ev.seq ELSE p.first,
                 lastSeq |-> IF takes THEN ev.seq ELSE p.lastSeq,
                 lastId |-> ev,
                 knowsEnd |-> p.knowsEnd \/ (takes /\ ev.kind = "end"),
                 reconciled |-> p.reconciled \/ d = "gap"]
<1>0. HubTypes /\ PubFits /\ ClientFits(c) /\ conn[c].open /\ ev # Hub!NoEvent
  BY DEF HubInv, Hub!Deliver
<1>1. /\ UNCHANGED <<eventSeq, ended, history, pub, log, lost, missed>>
      /\ conn' = [conn EXCEPT ![c].frame = Hub!NoEvent]
      /\ received' = [received EXCEPT ![c] = Append(received[c], ev)]
      /\ page' = [page EXCEPT ![c] = q]
  BY DEF Hub!Deliver, Hub!hubVars, Hub!ghostVars
<1>2. conn \in [Clients -> ConnSet] /\ conn[c] \in ConnSet
  BY <1>0 DEF HubTypes
<1>3. /\ ev \in Hub!Events /\ ev \in Els(log) /\ received[c] \in Seq(Hub!Events)
      /\ Len(received[c]) \in Nat
  BY <1>0, ClientTypes DEF ClientFits, ConnFits
<1> DEFINE g == Append(received[c], ev)
<1>4. /\ g \in Seq(Hub!Events) /\ Len(g) = Len(received[c]) + 1 /\ g[Len(received[c]) + 1] = ev
      /\ g # <<>> /\ Els(g) = Els(received[c]) \cup {ev}
      /\ Ordered(received[c]) /\ Below(Els(received[c]), {ev}) => Ordered(g)
  BY <1>3, Appended
<1>5. /\ conn'[c].frame = Hub!NoEvent /\ conn'[c].queue = conn[c].queue
      /\ conn'[c].replay = conn[c].replay /\ conn'[c].open = conn[c].open
      /\ page'[c] = q /\ received'[c] = g
      /\ \A e \in Clients \ {c} : conn'[e] = conn[e] /\ page'[e] = page[e] /\ received'[e] = received[e]
  BY <1>0, <1>1, <1>2 DEF HubTypes, ConnSet
<1>6. /\ p.task \in Tasks \cup {NoTask} /\ p.first \in Nat /\ p.lastSeq \in Nat
      /\ p.knowsEnd \in BOOLEAN /\ p.reconciled \in BOOLEAN
      /\ ev.task \in Tasks /\ ev.seq \in Nat /\ ev.seq > 0
  BY <1>0, <1>3, ClientTypes, HubNone
<1> HIDE DEF g
<1>7. HubTypes'
  <2>1. conn' \in [Clients -> ConnSet]
    <3>1. [conn[c] EXCEPT !.frame = Hub!NoEvent] \in ConnSet
      BY <1>2 DEF ConnSet
    <3>2. conn' = [conn EXCEPT ![c] = [conn[c] EXCEPT !.frame = Hub!NoEvent]]
      BY <1>1, <1>2
    <3> QED
      BY <1>2, <3>1, <3>2
  <2>2. received' \in [Clients -> Seq(Hub!Events)]
    BY <1>0, <1>1, <1>4 DEF HubTypes, g
  <2>3. q \in PageSet
    BY <1>3, <1>6 DEF PageSet
  <2>4. page' \in [Clients -> PageSet]
    <3> HIDE DEF q
    <3> QED
      BY <1>0, <1>1, <2>3 DEF HubTypes
  <2> QED
    BY <1>0, <1>1, <2>1, <2>2, <2>4 DEF HubTypes
<1>8. /\ OnWay(c)' = OnWay(c) /\ Els(received[c])' = Els(received[c]) \cup {ev}
      /\ Els(conn[c].queue)' = Els(conn[c].queue) /\ Els(conn[c].replay)' = Els(conn[c].replay)
  BY <1>4, <1>5 DEF OnWay
<1>9. ConnFits(c)'
  BY <1>0, <1>1, <1>3, <1>4, <1>5, <1>8 DEF ClientFits, ConnFits
<1>10. InTurn(c)'
  <2>1. InTurn(c)
    BY <1>0 DEF ClientFits
  <2>2. Ordered(received[c])'
    BY <1>4, <1>5, <2>1 DEF InTurn, Below
  <2>3. \A x \in Hub!Events : Later(x, Hub!NoEvent) /\ Later(Hub!NoEvent, x)
    BY HubNone
  <2>4. Els(received[c]) \cup OnWay(c) \subseteq Hub!Events /\ pub.ev \in Hub!Events \cup {Hub!NoEvent}
    BY <1>0, HubParts DEF ClientFits, ConnFits
  <2>5. Below(Els(received[c]), OnWay(c) \cup {conn[c].frame})'
    BY <1>3, <1>5, <1>8, <2>1, <2>3, <2>4 DEF InTurn, Below
  <2>6. Below({conn[c].frame}, OnWay(c))'
    BY <1>5, <1>8, <2>3, <2>4 DEF Below
  <2>7. c \in pub'.todo => Below(Els(received[c]) \cup OnWay(c) \cup {conn[c].frame}, {pub.ev})'
    <3> SUFFICES ASSUME c \in pub.todo
                 PROVE  Below(Els(received[c]) \cup OnWay(c) \cup {conn[c].frame}, {pub.ev})'
      BY <1>1
    <3>1. pub.ev \in Hub!Events
      BY <1>0, HubParts DEF PubFits
    <3> QED
      BY <1>1, <1>5, <1>8, <2>1, <2>3, <3>1 DEF InTurn, Below
  <2> QED
    BY <1>5, <1>8, <2>1, <2>2, <2>5, <2>6, <2>7 DEF InTurn
<1>11. Known(c)'
  BY <1>0, <1>1, <1>5, <1>8 DEF ClientFits, Known
<1>12. NewestIn(c)'
  BY <1>0, <1>1 DEF ClientFits, NewestIn
<1>13. Numbered(c)'
  <2>1. Numbered(c)
    BY <1>0 DEF ClientFits
  <2>2. ev \in Els(received[c])' /\ Els(received[c]) \subseteq Els(received[c])'
    BY <1>8
  <2>3. CASE ~takes
    <3>1. q.task = p.task /\ q.first = p.first /\ q.lastSeq = p.lastSeq /\ q.reconciled = p.reconciled
      BY <1>6, <2>3
    <3> QED
      BY <1>5, <2>1, <2>2, <3>1 DEF Numbered
  <2>4. CASE takes /\ p.lastSeq = 0
    <3>1. q.task = ev.task /\ q.first = ev.seq /\ q.lastSeq = ev.seq
      BY <2>4
    <3>2. \A n \in ev.seq .. ev.seq : n = ev.seq
      BY <1>6
    <3> QED
      BY <1>5, <1>6, <2>2, <3>1, <3>2 DEF Numbered
  <2>5. CASE d = "gap" /\ p.lastSeq # 0
    <3>1. q.task = ev.task /\ q.first = p.first /\ q.lastSeq = ev.seq /\ q.reconciled
      BY <2>5
    <3>2. ev.seq > p.lastSeq
      BY <1>6, <2>5 DEF Hub!Decision
    <3>3. p.first \in 1 .. ev.seq
      BY <1>6, <2>1, <2>5, <3>2 DEF Numbered
    <3> QED
      BY <1>5, <1>6, <3>1, <3>3 DEF Numbered
  <2>6. CASE d = "accept" /\ p.lastSeq # 0
    <3>1. q.task = ev.task /\ q.first = p.first /\ q.lastSeq = ev.seq /\ q.reconciled = p.reconciled
      BY <1>6, <2>6
    <3>2. p.lastSeq > 0 /\ p.task \in Tasks /\ p.first \in 1 .. p.lastSeq
      BY <1>6, <2>1, <2>6 DEF Numbered
    <3>3. ev.task = p.task /\ ev.seq = p.lastSeq + 1
      BY <1>6, <2>6, <3>2, HubNames DEF Hub!Decision
    <3>4. p.first \in 1 .. ev.seq /\ \A n \in p.first .. ev.seq : n \in p.first .. p.lastSeq \/ n = ev.seq
      BY <1>6, <3>2, <3>3
    <3>5. ~p.reconciled => \A n \in p.first .. p.lastSeq : \E e \in Els(received[c]) :
                              e.task = p.task /\ e.seq = n
      BY <2>1, <3>2 DEF Numbered
    <3> HIDE DEF q
    <3> QED
      BY <1>5, <1>6, <2>2, <3>1, <3>3, <3>4, <3>5 DEF Numbered
  <2> QED
    BY <2>3, <2>4, <2>5, <2>6
<1>14. ClientFits(c)'
  BY <1>9, <1>10, <1>11, <1>12, <1>13 DEF ClientFits
<1> QED
  BY <1>0, <1>1, <1>5, <1>7, <1>14, ClientStep

LEMMA PageStartsStep ==
    ASSUME HubInv, NEW c \in Clients, NEW t \in Tasks, Hub!PageStarts(c, t) PROVE HubInv'
<1>0. HubTypes /\ ClientFits(c)
  BY DEF HubInv
<1> DEFINE q == [page[c] EXCEPT !.task = t, !.first = 0, !.lastSeq = 0, !.knowsEnd = FALSE,
                               !.reconciled = FALSE]
<1>1. /\ UNCHANGED <<eventSeq, ended, history, pub, conn, log, received, lost, missed>>
      /\ page' = [page EXCEPT ![c] = q]
  BY <1>0 DEF Hub!PageStarts, Hub!hubVars, Hub!ghostVars, HubTypes
<1>2. page \in [Clients -> PageSet] /\ page[c] \in PageSet
  BY <1>0 DEF HubTypes
<1>3. q \in PageSet /\ q.lastSeq = 0 /\ q.lastId = page[c].lastId
  BY <1>2 DEF PageSet
<1> HIDE DEF q
<1>4. page'[c] = q /\ \A d \in Clients \ {c} : page'[d] = page[d]
  BY <1>1, <1>2
<1>5. HubTypes'
  BY <1>0, <1>1, <1>2, <1>3 DEF HubTypes
<1>6. OnWay(c)' = OnWay(c)
  BY <1>1 DEF OnWay
<1>7. ConnFits(c)'
  BY <1>0, <1>1, <1>3, <1>4, <1>6 DEF ClientFits, ConnFits
<1>8. InTurn(c)'
  BY <1>0, <1>1, <1>6 DEF ClientFits, InTurn
<1>9. Known(c)'
  BY <1>0, <1>1, <1>3, <1>4, <1>6 DEF ClientFits, Known
<1>10. NewestIn(c)' /\ Numbered(c)'
  BY <1>0, <1>1, <1>3, <1>4 DEF ClientFits, NewestIn, Numbered
<1>11. ClientFits(c)'
  BY <1>7, <1>8, <1>9, <1>10 DEF ClientFits
<1>12. c \in pub.todo => conn'[c].open
  BY <1>1 DEF HubInv, PubFits
<1> QED
  BY <1>0, <1>1, <1>4, <1>5, <1>11, <1>12, ClientStep

\* A client connects: what it has not received and what is within reach comes
\* from the history.
LEMMA SubscribeStep == ASSUME HubInv, NEW c \in Clients, Hub!Subscribe(c) PROVE HubInv'
<1> DEFINE id == page[c].lastId
           old == {e \in Hub!Range(history) : e.task = id.task /\ e.seq > id.seq}
           r == Hub!EventsAfter(id)
           gone == Hub!Unavailable(id) \ Hub!Range(received[c])
<1>0. /\ HubTypes /\ LogFits /\ HistoryFits /\ PubFits /\ ClientFits(c) /\ ~conn[c].open
      /\ pub.step = "idle" /\ pub.todo = {}
  BY DEF HubInv, Hub!Subscribe, PubFits
<1>1. /\ UNCHANGED <<eventSeq, ended, history, pub, page, log, received, lost>>
      /\ conn' = [conn EXCEPT ![c] = [Hub!Closed EXCEPT !.open = TRUE, !.replay = r,
                                    !.times = conn[c].times + 1]]
      /\ missed' = [missed EXCEPT ![c] = missed[c] \cup gone]
  BY DEF Hub!Subscribe, Hub!hubVars
<1>2. conn \in [Clients -> ConnSet] /\ conn[c] \in ConnSet
  BY <1>0 DEF HubTypes
<1>3. /\ log \in Seq(Hub!Events) /\ history \in Seq(Hub!Events) /\ Len(log) \in Nat
      /\ Len(history) \in Nat /\ DOMAIN log = 1 .. Len(log) /\ DOMAIN history = 1 .. Len(history)
      /\ received[c] \in Seq(Hub!Events) /\ id \in Hub!Events \cup {Hub!NoEvent}
      /\ DOMAIN received[c] = 1 .. Len(received[c]) /\ Len(received[c]) \in Nat
  BY <1>0, HubParts, ClientTypes
<1>4. /\ Hub!Range(history) = Els(history) /\ Hub!Range(log) = Els(log)
      /\ Hub!Range(received[c]) = Els(received[c])
  BY DEF Hub!Range, Els
\* What the history holds is of the log, in the order of the log.
<1>5. \A i \in 1 .. Len(history) : /\ Len(log) - Len(history) + i \in 1 .. Len(log)
                                  /\ history[i] = log[Len(log) - Len(history) + i]
  <2> SUFFICES ASSUME NEW i \in 1 .. Len(history)
               PROVE  /\ Len(log) - Len(history) + i \in 1 .. Len(log)
                      /\ history[i] = log[Len(log) - Len(history) + i]
    OBVIOUS
  <2>1. Len(history) <= Len(log) /\ history[i] = log[Len(log) - Len(history) + i]
    BY <1>0 DEF HistoryFits
  <2>2. \A n, m \in Nat : \A k \in 1 .. m : m <= n => n - m + k \in 1 .. n
    OBVIOUS
  <2> QED
    BY <1>3, <2>1, <2>2
<1>6. Els(history) \subseteq Els(log)
  BY <1>3, <1>5 DEF Els
<1>7. PICK h : Follows(h, r, history, old, Len(history)) /\ r \in Seq(Hub!Events)
  <2>1. r = OnlyIn(history, old)
    BY DEF Hub!EventsAfter, Hub!OnlyIn, OnlyIn
  <2>2. IsPart(OnlyIn(history, old), Hub!Events, history, old, Len(history))
    BY <1>3, OnlyInParts
  <2> QED
    BY <2>1, <2>2 DEF IsPart
<1> HIDE DEF r
<1>8. /\ Len(r) \in Nat /\ DOMAIN r = 1 .. Len(r)
      /\ \A k \in 1 .. Len(r) : h[k] \in 1 .. Len(history) /\ r[k] = history[h[k]] /\ r[k] \in old
      /\ \A k, l \in 1 .. Len(r) : k < l => h[k] < h[l]
      /\ \A j \in 1 .. Len(history) : history[j] \in old => \E k \in 1 .. Len(r) : h[k] = j
  BY <1>7 DEF Follows
<1>9. Els(r) = old
  <2>1. ASSUME NEW e \in old PROVE e \in Els(r)
    <3>1. PICK j \in 1 .. Len(history) : history[j] = e
      BY <1>3, <1>4, <2>1 DEF Els
    <3>2. PICK k \in 1 .. Len(r) : h[k] = j
      BY <1>8, <2>1, <3>1
    <3> QED
      BY <1>8, <3>1, <3>2 DEF Els
  <2>2. \A k \in 1 .. Len(r) : r[k] \in old
    BY <1>8
  <2> HIDE DEF old
  <2>3. Els(r) \subseteq old
    BY <1>8, <2>2 DEF Els
  <2> QED
    BY <2>1, <2>3
<1>10. Ordered(r)
  <2> SUFFICES ASSUME NEW k \in 1 .. Len(r), NEW l \in 1 .. Len(r), k < l
               PROVE  Later(r[k], r[l])
    BY <1>8 DEF Ordered
  <2>1. /\ h[k] \in 1 .. Len(history) /\ h[l] \in 1 .. Len(history) /\ h[k] < h[l]
        /\ r[k] = history[h[k]] /\ r[l] = history[h[l]]
    BY <1>8
  <2>2. Len(log) - Len(history) + h[k] < Len(log) - Len(history) + h[l]
    BY <1>3, <2>1
  <2> QED
    BY <1>0, <1>3, <1>5, <2>1, <2>2 DEF LogFits, Ordered
<1>11. /\ conn'[c].open = TRUE /\ conn'[c].queue = <<>> /\ conn'[c].replay = r
       /\ conn'[c].frame = Hub!NoEvent /\ missed'[c] = missed[c] \cup gone
       /\ \A d \in Clients \ {c} : conn'[d] = conn[d] /\ missed'[d] = missed[d]
  <2> HIDE DEF gone
  <2> QED
    BY <1>0, <1>1, <1>2 DEF Hub!Closed, HubTypes
<1>12. gone \subseteq Els(log) /\ Els(log) \subseteq Hub!Events
  <2>1. \A i \in 1 .. (Len(log) - HistoryLimit) : i \in 1 .. Len(log)
    BY <1>3, HubNames
  <2>2. \A i \in 1 .. (Len(log) - HistoryLimit) : log[i] \in Els(log)
    BY <1>3, <2>1 DEF Els
  <2>3. Hub!Unavailable(id) \subseteq Els(log)
    BY <1>4, <2>2 DEF Hub!Unavailable
  <2> QED
    BY <1>0, <2>3, HubParts
<1>13. HubTypes'
  <2>1. conn[c].times + 1 \in Nat
    BY <1>2 DEF ConnSet
  <2>2. [Hub!Closed EXCEPT !.open = TRUE, !.replay = r, !.times = conn[c].times + 1] \in ConnSet
    BY <1>7, <2>1, NothingIn DEF ConnSet, Hub!Closed
  <2>3. conn' \in [Clients -> ConnSet]
    BY <1>1, <1>2, <2>2
  <2>4. missed' \in [Clients -> SUBSET Hub!Events]
    <3> HIDE DEF gone
    <3> QED
      BY <1>0, <1>1, <1>12 DEF HubTypes
  <2> QED
    BY <1>0, <1>1, <2>3, <2>4 DEF HubTypes
<1>14. /\ OnWay(c)' = old /\ Els(conn[c].queue)' = {} /\ Els(conn[c].replay)' = old
       /\ Ordered(conn[c].queue)'
  BY <1>9, <1>11, NothingIn DEF OnWay
<1>15. \A e \in old : e \in Els(log) /\ e \in Hub!Events /\ e.task = id.task /\ e.seq > id.seq
  BY <1>4, <1>6, <1>12
<1>16. ConnFits(c)'
  <2>1. old \subseteq Els(log)
    BY <1>15
  <2> HIDE DEF old
  <2> QED
    BY <1>0, <1>1, <1>11, <1>14, <2>1, NothingIn, HubNames DEF ClientFits, ConnFits
<1>17. InTurn(c)'
  <2>1. Ordered(received[c]) /\ Els(received[c]) \subseteq Hub!Events
    BY <1>0, HubParts DEF ClientFits, InTurn, ConnFits
  <2>2. ASSUME NEW x \in Els(received[c]), NEW e \in old PROVE Later(x, e)
    <3>1. PICK i \in 1 .. Len(received[c]) : x = received[c][i]
      BY <1>3 DEF Els
    <3>2. id = received[c][Len(received[c])] /\ id \in Hub!Events
      BY <1>0, <1>3, <3>1 DEF ClientFits, ConnFits
    <3>3. i = Len(received[c]) \/ Later(x, id)
      BY <1>3, <2>1, <3>1, <3>2 DEF Ordered
    <3>4. e.task = id.task /\ e.seq > id.seq /\ e.seq \in Nat /\ id.seq \in Nat /\ x.seq \in Nat
      BY <1>15, <2>1, <3>2, HubNone
    <3> QED
      BY <3>1, <3>2, <3>3, <3>4 DEF Later
  <2>3. \A x \in Els(received[c]) \cup old : Later(x, Hub!NoEvent) /\ Later(Hub!NoEvent, x)
    BY <1>15, <2>1, HubNone
  <2> HIDE DEF old
  <2> QED
    BY <1>0, <1>1, <1>10, <1>11, <1>14, <2>1, <2>2, <2>3 DEF InTurn, Below
<1>18. Known(c)'
  <2> SUFFICES ASSUME NEW e \in Els(log),
                      e \notin Els(received[c]) \cup old \cup lost[c] \cup missed[c] \cup gone
               PROVE  FALSE
    <3> HIDE DEF gone, old
    <3> QED
      BY <1>0, <1>1, <1>11, <1>14 DEF Known
  <2>1. e \in Hub!Events /\ e # Hub!NoEvent /\ e.seq \in Nat
    BY <1>12, HubNone
  <2>2. Later(id, e)
    <3>1. conn[c].frame = Hub!NoEvent /\ OnWay(c) = {}
      BY <1>0, NothingIn DEF ClientFits, ConnFits, OnWay
    <3> QED
      BY <1>0, <2>1, <3>1 DEF ClientFits, Known
  <2>3. e \notin Hub!Unavailable(id)
    BY <1>4
  <2>4. e.task = id.task
    BY <1>4, <2>3 DEF Hub!Unavailable
  <2>5. e.seq > id.seq
    BY <1>3, <2>1, <2>2, <2>4, HubNone DEF Later
  <2>6. PICK i \in 1 .. Len(log) : log[i] = e
    BY <1>3 DEF Els
  <2>7. ~(i <= Len(log) - HistoryLimit)
    <3> SUFFICES ASSUME i <= Len(log) - HistoryLimit PROVE FALSE
      OBVIOUS
    <3>1. i \in 1 .. (Len(log) - HistoryLimit)
      BY <1>3, HubNames
    <3> QED
      BY <2>3, <2>6, <3>1 DEF Hub!Unavailable
  <2>8. i - (Len(log) - Len(history)) \in 1 .. Len(history)
    <3>1. /\ Len(history) <= Len(log) /\ Len(history) <= HistoryLimit
          /\ Len(history) < HistoryLimit => Len(history) = Len(log)
      BY <1>0 DEF HistoryFits
    <3>2. \A n, m, l \in Nat : \A k \in 1 .. n :
             m <= n /\ m <= l /\ (m < l => m = n) /\ ~(k <= n - l) => k - (n - m) \in 1 .. m
      OBVIOUS
    <3> QED
      BY <1>3, <2>7, <3>1, <3>2, HubNames
  <2>9. Len(log) - Len(history) + (i - (Len(log) - Len(history))) = i
    BY <1>3
  <2>10. history[i - (Len(log) - Len(history))] = e
    BY <1>5, <2>6, <2>8, <2>9
  <2>11. e \in Hub!Range(history)
    BY <1>3, <1>4, <2>8, <2>10 DEF Els
  <2> QED
    BY <2>4, <2>5, <2>11
<1>19. NewestIn(c)' /\ Numbered(c)'
  BY <1>0, <1>1 DEF ClientFits, NewestIn, Numbered
<1>20. ClientFits(c)'
  BY <1>16, <1>17, <1>18, <1>19 DEF ClientFits
<1>21. Len(conn'[c].queue) < QueueCap
  BY <1>11, NothingIn, HubNames
<1> QED
  BY <1>0, <1>1, <1>11, <1>13, <1>20, <1>21, ClientStep

\* The last n elements of a sequence.
LEMMA LastOfIs ==
    ASSUME NEW s \in Seq(Hub!Events), NEW n \in Nat
    PROVE  /\ Hub!LastOf(s, n) \in Seq(Hub!Events)
           /\ n >= Len(s) => Len(Hub!LastOf(s, n)) = Len(s)
           /\ n < Len(s) => Len(Hub!LastOf(s, n)) = n
           /\ \A i \in 1 .. Len(Hub!LastOf(s, n)) :
                 Hub!LastOf(s, n)[i] = s[Len(s) - Len(Hub!LastOf(s, n)) + i]
<1>1. Len(s) \in Nat
  OBVIOUS
<1> DEFINE m == Hub!Min({n, Len(s)})
<1>2. m \in Nat /\ m <= Len(s) /\ (n >= Len(s) => m = Len(s)) /\ (n < Len(s) => m = n)
  <2>1. \E x \in {n, Len(s)} : \A y \in {n, Len(s)} : x <= y
    BY <1>1
  <2>2. m \in {n, Len(s)} /\ \A y \in {n, Len(s)} : m <= y
    BY <2>1 DEF Hub!Min
  <2> HIDE DEF m
  <2> QED
    BY <1>1, <2>2
<1>3. Hub!LastOf(s, n) = SubSeq(s, Len(s) - m + 1, Len(s))
  BY DEF Hub!LastOf
<1> HIDE DEF m
<1>4. Len(s) - m + 1 \in 1 .. Len(s) + 1
  BY <1>1, <1>2
<1>5. /\ SubSeq(s, Len(s) - m + 1, Len(s)) \in Seq(Hub!Events)
      /\ Len(SubSeq(s, Len(s) - m + 1, Len(s))) = m
      /\ \A i \in 1 .. m : SubSeq(s, Len(s) - m + 1, Len(s))[i] = s[Len(s) - m + i]
  BY <1>1, <1>2, <1>4
<1> QED
  BY <1>1, <1>2, <1>3, <1>5

LEMMA PublishBeginStep ==
    ASSUME HubInv, NEW t \in Tasks, NEW kind \in Hub!Kinds, Hub!PublishBegin(t, kind)
    PROVE  HubInv'
<1> DEFINE ev == [task |-> t, seq |-> eventSeq[t] + 1, kind |-> kind]
           a == Append(log, ev)
<1>0. /\ HubTypes /\ LogFits /\ HistoryFits /\ PubFits /\ pub.step = "idle" /\ pub.todo = {}
      /\ \A c \in Clients : ClientFits(c)
  BY DEF HubInv, Hub!PublishBegin, PubFits
<1>1. /\ UNCHANGED <<conn, page, received, lost, missed>>
      /\ eventSeq' = [eventSeq EXCEPT ![t] = @ + 1]
      /\ ended' = (IF kind = "end" THEN ended \cup {t} ELSE ended)
      /\ history' = Hub!LastOf(Append(history, ev), HistoryLimit)
      /\ log' = a
      /\ pub' = [ev |-> ev, todo |-> Hub!Subscribers, step |-> "offer", to |-> "none"]
  BY DEF Hub!PublishBegin, Hub!Remember, Hub!ghostVars
<1>2. /\ eventSeq[t] \in Nat /\ ev \in Hub!Events /\ ev.task = t /\ ev.seq = eventSeq[t] + 1
      /\ log \in Seq(Hub!Events) /\ Len(log) \in Nat /\ Els(log) \subseteq Hub!Events
      /\ history \in Seq(Hub!Events) /\ Len(history) \in Nat
      /\ \A u \in Tasks : eventSeq[u] \in Nat
  BY <1>0, HubParts DEF Hub!Events
<1> HIDE DEF ev
<1>3. /\ a \in Seq(Hub!Events) /\ Len(a) = Len(log) + 1 /\ a[Len(log) + 1] = ev /\ a # <<>>
      /\ \A i \in 1 .. Len(log) : a[i] = log[i]
      /\ Els(a) = Els(log) \cup {ev}
      /\ Ordered(log) /\ Below(Els(log), {ev}) => Ordered(a)
  BY <1>2, Appended
<1> HIDE DEF a
<1>4. /\ pub'.ev = ev /\ pub'.todo = Hub!Subscribers /\ pub'.step = "offer" /\ pub'.to = "none"
      /\ Hub!Subscribers = {c \in Clients : conn[c].open}
  BY <1>1 DEF Hub!Subscribers
<1>5. \A e \in Els(log) : Later(e, ev) /\ e # ev
  <2> SUFFICES ASSUME NEW e \in Els(log), e.task = t PROVE e.seq < ev.seq
    BY <1>2 DEF Later
  <2>1. e.seq <= eventSeq[t] /\ e.seq \in Nat
    BY <1>0, <1>2, HubNone DEF LogFits
  <2> QED
    BY <1>2, <2>1
<1>6. Els(log)' = Els(log) \cup {ev} /\ log' # <<>> /\ Len(log') = Len(log) + 1 /\ log'[Len(log')] = ev
  BY <1>1, <1>2, <1>3
<1>7. HistoryFits' /\ history' \in Seq(Hub!Events)
  <2> DEFINE b == Append(history, ev)
  <2>1. /\ b \in Seq(Hub!Events) /\ Len(b) = Len(history) + 1 /\ b[Len(history) + 1] = ev
        /\ \A i \in 1 .. Len(history) : b[i] = history[i]
    BY <1>2, Appended
  <2> HIDE DEF b
  <2> DEFINE l == Hub!LastOf(b, HistoryLimit)
  <2>2. /\ l \in Seq(Hub!Events)
        /\ HistoryLimit >= Len(b) => Len(l) = Len(b)
        /\ HistoryLimit < Len(b) => Len(l) = HistoryLimit
        /\ \A i \in 1 .. Len(l) : l[i] = b[Len(b) - Len(l) + i]
    BY <2>1, HubNames, LastOfIs
  <2>3. history' = l
    BY <1>1 DEF b
  <2> HIDE DEF l
  <2>4. /\ Len(history) <= Len(log) /\ Len(history) <= HistoryLimit
        /\ Len(history) < HistoryLimit => Len(history) = Len(log)
        /\ \A i \in 1 .. Len(history) : history[i] = log[Len(log) - Len(history) + i]
    BY <1>0 DEF HistoryFits
  <2>5. Len(l) \in Nat
    BY <2>2
  <2>6. /\ Len(l) <= Len(log) + 1 /\ Len(l) <= HistoryLimit /\ Len(l) <= Len(history) + 1
        /\ Len(l) < HistoryLimit => Len(l) = Len(log) + 1
    BY <1>2, <2>1, <2>2, <2>4, <2>5, HubNames
  <2>7. ASSUME NEW i \in 1 .. Len(l) PROVE l[i] = a[Len(log) + 1 - Len(l) + i]
    <3> DEFINE j == Len(history) + 1 - Len(l) + i
               k == Len(log) + 1 - Len(l) + i
    <3>1. l[i] = b[j] /\ j \in 1 .. Len(history) + 1 /\ k \in 1 .. Len(log) + 1
      BY <1>2, <2>1, <2>2, <2>5, <2>6
    <3>2. k = Len(log) - Len(history) + j
      BY <1>2, <2>5
    <3>3. CASE j = Len(history) + 1
      <4>1. k = Len(log) + 1
        BY <1>2, <3>2, <3>3
      <4> QED
        BY <1>3, <2>1, <3>1, <3>3, <4>1
    <3>4. CASE j # Len(history) + 1
      <4>1. j \in 1 .. Len(history) /\ k \in 1 .. Len(log)
        <5>1. \A n, m, o \in Nat : \A x \in 1 .. o :
                 m <= n /\ m + 1 - o + x \in 1 .. m + 1 /\ m + 1 - o + x # m + 1
                 => m + 1 - o + x \in 1 .. m /\ n + 1 - o + x \in 1 .. n
          OBVIOUS
        <5> QED
          BY <1>2, <2>4, <2>5, <3>1, <3>4, <5>1
      <4> QED
        BY <1>3, <2>1, <2>4, <3>1, <3>2, <4>1
    <3> QED
      BY <3>3, <3>4
  <2> QED
    BY <1>1, <1>3, <2>2, <2>3, <2>6, <2>7 DEF HistoryFits
<1>8. HubTypes'
  <2>1. eventSeq' \in [Tasks -> Nat]
    BY <1>0, <1>1, <1>2 DEF HubTypes
  <2>2. pub' \in [ev : Hub!Events \cup {Hub!NoEvent}, todo : SUBSET Clients,
                  step : {"idle", "offer", "drop", "retry"}, to : Clients \cup {"none"}]
    BY <1>1, <1>2, <1>4
  <2>3. ended' \in SUBSET Tasks
    BY <1>0, <1>1 DEF HubTypes
  <2> QED
    BY <1>0, <1>1, <1>3, <1>7, <2>1, <2>2, <2>3 DEF HubTypes
<1>9. LogFits'
  <2>1. Ordered(log)'
    BY <1>0, <1>1, <1>3, <1>5 DEF LogFits, Below
  <2>2. ASSUME NEW e \in Els(log) PROVE e.seq <= eventSeq'[e.task]
    <3>1. e.task \in Tasks /\ e.seq <= eventSeq[e.task] /\ e.seq \in Nat
      BY <1>0, <1>2, HubNone DEF LogFits
    <3> QED
      BY <1>0, <1>1, <1>2, <3>1 DEF HubTypes
  <2>3. ev.seq <= eventSeq'[ev.task]
    BY <1>0, <1>1, <1>2 DEF HubTypes
  <2> QED
    BY <1>6, <2>1, <2>2, <2>3 DEF LogFits
<1>10. PubFits'
  BY <1>1, <1>4, <1>6 DEF PubFits
<1>11. ASSUME NEW c \in Clients PROVE ClientFits(c)'
  <2>0. ClientFits(c) /\ (c \in pub'.todo <=> conn[c].open) /\ c \notin pub.todo
    BY <1>0, <1>4
  <2>1. OnWay(c)' = OnWay(c)
    BY <1>1 DEF OnWay
  <2>2. ConnFits(c)'
    BY <1>1, <1>6, <2>0, <2>1 DEF ClientFits, ConnFits
  <2>3. InTurn(c)'
    <3>1. Later(Hub!NoEvent, ev)
      BY <1>2, HubNone
    <3>2. Below(Els(received[c]) \cup OnWay(c) \cup {conn[c].frame}, {ev})
      BY <1>5, <2>0, <3>1 DEF ClientFits, ConnFits, Below
    <3> QED
      BY <1>1, <1>4, <2>0, <2>1, <3>2 DEF ClientFits, InTurn
  <2>4. Known(c)'
    <3>1. ~conn[c].open => Later(page[c].lastId, ev)
      <4>1. CASE received[c] = <<>>
        BY <1>2, <2>0, <4>1, HubNone DEF ClientFits, ConnFits
      <4>2. CASE received[c] # <<>>
        <5>1. received[c][Len(received[c])] \in Els(received[c])
          BY <1>0, <4>2, ClientTypes DEF Els
        <5> QED
          BY <1>5, <2>0, <4>2, <5>1 DEF ClientFits, ConnFits
      <4> QED
        BY <4>1, <4>2
    <3> QED
      BY <1>1, <1>4, <1>6, <2>0, <2>1, <3>1 DEF ClientFits, Known
  <2>5. NewestIn(c)'
    BY <1>1, <1>5, <1>6, <2>0 DEF ClientFits, ConnFits, NewestIn
  <2>6. Numbered(c)'
    BY <1>1, <2>0 DEF ClientFits, Numbered
  <2> QED
    BY <2>2, <2>3, <2>4, <2>5, <2>6 DEF ClientFits
<1> QED
  BY <1>7, <1>8, <1>9, <1>10, <1>11 DEF HubInv

LEMMA HubStep == ASSUME HubInv, Hub!Next PROVE HubInv'
<1>1. CASE \E t \in Tasks, kind \in Hub!Kinds : Hub!PublishBegin(t, kind)
  BY <1>1, PublishBeginStep
<1>2. CASE Hub!DropOldest \/ Hub!OfferAgain \/ Hub!PublishEnd
  BY <1>2, DropOldestStep, OfferAgainStep, PublishEndStep
<1>3. CASE \E c \in Clients : \/ Hub!Offer(c) \/ Hub!Subscribe(c) \/ Hub!Take(c)
                              \/ Hub!Break(c) \/ Hub!Deliver(c)
  BY <1>3, OfferStep, SubscribeStep, TakeStep, BreakStep, DeliverStep
<1>4. CASE \E c \in Clients, t \in Tasks : Hub!PageStarts(c, t)
  BY <1>4, PageStartsStep
<1> QED
  BY <1>1, <1>2, <1>3, <1>4 DEF Hub!Next

LEMMA HubInit == Hub!Init => HubInv
<1> SUFFICES ASSUME Hub!Init PROVE HubInv
  OBVIOUS
<1>1. /\ eventSeq = [t \in Tasks |-> 0] /\ ended = {} /\ history = <<>> /\ pub = Hub!Idle
      /\ conn = [c \in Clients |-> Hub!Closed] /\ log = <<>>
      /\ received = [c \in Clients |-> <<>>] /\ lost = [c \in Clients |-> {}]
      /\ missed = [c \in Clients |-> {}]
      /\ \A c \in Clients : page[c].lastSeq = 0 /\ page[c].lastId = Hub!NoEvent
  BY DEF Hub!Init
<1>2. /\ Hub!Closed \in ConnSet /\ Hub!Closed.open = FALSE /\ Hub!Closed.queue = <<>>
      /\ Hub!Closed.replay = <<>> /\ Hub!Closed.frame = Hub!NoEvent
  BY NothingIn DEF Hub!Closed, ConnSet
<1>3. /\ Hub!Idle.todo = {} /\ Hub!Idle.step = "idle"
      /\ Hub!Idle \in [ev : Hub!Events \cup {Hub!NoEvent}, todo : SUBSET Clients,
                       step : {"idle", "offer", "drop", "retry"}, to : Clients \cup {"none"}]
  BY DEF Hub!Idle
<1>4. HubTypes
  <2>1. page \in [Clients -> PageSet]
    BY DEF Hub!Init, PageSet
  <2>2. log \in Seq(Hub!Events) /\ history \in Seq(Hub!Events)
    BY <1>1, NothingIn
  <2>3. received \in [Clients -> Seq(Hub!Events)]
    BY <1>1, NothingIn
  <2> QED
    BY <1>1, <1>2, <1>3, <2>1, <2>2, <2>3 DEF HubTypes
<1>5. LogFits /\ HistoryFits /\ PubFits
  BY <1>1, <1>3, NothingIn, HubNames DEF LogFits, HistoryFits, PubFits
<1>6. ASSUME NEW c \in Clients PROVE ClientFits(c)
  <2>1. /\ conn[c] = Hub!Closed /\ received[c] = <<>> /\ lost[c] = {}
    BY <1>1
  <2>2. OnWay(c) = {} /\ Els(received[c]) = {} /\ Els(log) = {}
    BY <1>1, <1>2, <2>1, NothingIn DEF OnWay
  <2>3. ConnFits(c)
    BY <1>1, <1>2, <2>1, <2>2, NothingIn, HubNames DEF ConnFits
  <2>4. InTurn(c)
    BY <1>1, <1>2, <1>3, <2>1, <2>2, NothingIn DEF InTurn, Below
  <2> QED
    BY <1>1, <2>2, <2>3, <2>4 DEF ClientFits, Known, NewestIn, Numbered
<1> QED
  BY <1>4, <1>5, <1>6 DEF HubInv

LEMMA HubStays == HubInv /\ UNCHANGED hubVars => HubInv'
<1> SUFFICES ASSUME HubInv, UNCHANGED hubVars PROVE HubInv'
  OBVIOUS
<1>1. UNCHANGED <<eventSeq, ended, history, pub, conn, page, log, received, lost, missed>>
  BY DEF hubVars
<1>2. HubTypes' /\ LogFits' /\ HistoryFits' /\ PubFits'
  BY <1>1 DEF HubInv, HubTypes, LogFits, HistoryFits, PubFits
<1>3. \A c \in Clients : ClientFits(c)'
  BY <1>1, <1>2, Unmoved DEF HubInv
<1> QED
  BY <1>2, <1>3 DEF HubInv

LEMMA HubIsSafe == HubInv => Hub!Safety
<1> SUFFICES ASSUME HubInv PROVE Hub!Safety
  OBVIOUS
<1>0. HubTypes /\ LogFits /\ HistoryFits /\ PubFits /\ \A c \in Clients : ClientFits(c)
  BY DEF HubInv
<1>1. Hub!TypeOK
  <2>1. \A c \in Clients : Len(conn[c].queue) <= QueueCap
    BY <1>0 DEF ClientFits, ConnFits
  <2>2. Len(history) <= HistoryLimit
    BY <1>0 DEF HistoryFits
  <2> QED
    BY <1>0, <2>1, <2>2, HubParts, ClientTypes DEF Hub!TypeOK, HubTypes
<1>2. Hub!InOrder
  <2> SUFFICES ASSUME NEW c \in Clients PROVE Ordered(received[c])
    BY DEF Hub!InOrder, Ordered, Later
  <2> QED
    BY <1>0 DEF ClientFits, InTurn
<1>3. Hub!NothingVanishes
  <2> SUFFICES ASSUME NEW c \in Clients, conn[c].open, NEW e \in Hub!Range(log)
               PROVE  e \in Hub!Range(received[c]) \cup Hub!InConnection(c) \cup lost[c] \cup missed[c]
    BY DEF Hub!NothingVanishes
  <2>1. /\ Hub!Range(log) = Els(log) /\ Hub!Range(received[c]) = Els(received[c])
        /\ OnWay(c) \cup {conn[c].frame} \subseteq Hub!InConnection(c)
        /\ c \in pub.todo => pub.ev \in Hub!InConnection(c)
    BY DEF Hub!Range, Els, OnWay, Hub!InConnection
  <2> QED
    BY <1>0, <2>1 DEF ClientFits, Known
<1>4. Hub!NewestKept
  <2> SUFFICES ASSUME NEW c \in Clients, NEW e \in lost[c]
               PROVE  \E i, j \in DOMAIN log : i < j /\ log[i] = e /\ log[j] \notin lost[c]
    BY DEF Hub!NewestKept
  <2>1. Len(log) \in Nat /\ DOMAIN log = 1 .. Len(log) /\ log \in Seq(Hub!Events)
    BY <1>0, HubParts
  <2>2. PICK i \in 1 .. Len(log) : log[i] = e
    BY <1>0, <2>1 DEF ClientFits, ConnFits, Els
  <2>3. log # <<>> /\ Len(log) \in 1 .. Len(log)
    BY <2>1, <2>2
  <2>4. log[Len(log)] \notin lost[c]
    BY <1>0, <2>3 DEF ClientFits, NewestIn
  <2>5. i < Len(log)
    BY <2>1, <2>2, <2>4
  <2> QED
    BY <2>1, <2>2, <2>3, <2>4, <2>5
<1>5. Hub!GapsNoticed
  <2> SUFFICES ASSUME NEW c \in Clients, page[c].lastSeq > 0, ~page[c].reconciled,
                      NEW e \in Hub!Range(log), e.task = page[c].task,
                      e.seq \in page[c].first .. page[c].lastSeq
               PROVE  e \in Hub!Range(received[c])
    BY DEF Hub!GapsNoticed
  <2>1. /\ Hub!Range(log) = Els(log) /\ Hub!Range(received[c]) = Els(received[c])
    BY DEF Hub!Range, Els
  <2>2. PICK d \in Els(received[c]) : d.task = e.task /\ d.seq = e.seq
    BY <1>0 DEF ClientFits, Numbered
  <2>3. d \in Els(log)
    BY <1>0 DEF ClientFits, ConnFits
  <2>4. d = e
    <3>1. Len(log) \in Nat /\ DOMAIN log = 1 .. Len(log) /\ d.seq \in Nat
      BY <1>0, <2>3, HubParts, HubNone
    <3>2. PICK i \in 1 .. Len(log) : log[i] = d
      BY <2>3, <3>1 DEF Els
    <3>3. PICK j \in 1 .. Len(log) : log[j] = e
      BY <2>1, <3>1 DEF Els
    <3>4. ~(i < j) /\ ~(j < i)
      BY <1>0, <2>2, <3>1, <3>2, <3>3 DEF LogFits, Ordered, Later
    <3> QED
      BY <3>1, <3>2, <3>3, <3>4
  <2> QED
    BY <2>1, <2>4
<1> QED
  BY <1>1, <1>2, <1>3, <1>4, <1>5 DEF Hub!Safety

\* A page receives the events of a task in order and none twice, nothing falls
\* between replay and registration, a full queue gives up old events only, and
\* no gap goes unnoticed (webui_event_hub.go).
THEOREM HubAlwaysSafe == Spec => []HubSafe
<1>1. Init => HubInv
  BY HubInit DEF Init
<1>2. HubInv /\ [Next]_vars => HubInv'
  BY HubStep, HubStays DEF Next, vars
<1>3. HubInv => HubSafe
  BY HubIsSafe DEF HubSafe
<1> QED
  BY <1>1, <1>2, <1>3, PTL DEF Spec
=============================================================================
