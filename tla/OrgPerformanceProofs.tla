------------------------ MODULE OrgPerformanceProofs ------------------------
(***************************************************************************)
(* What OrgPerformance keeps for every set of records and of requests,     *)
(* however the calls of the requests interleave: its types, keys that hang *)
(* from records that are there, nothing left behind by the deletion of a   *)
(* cycle or an OKR, lists that show every record, records that stay        *)
(* deleted and changes that keep what they do not name.                    *)
(***************************************************************************)
EXTENDS OrgPerformanceOverlap, FiniteSetTheorems, TLAPS

Elem == Named \cup Team \cup {"GOAL"}

\* The records with a key under that of a cycle.
Tree == Cycle \cup Quarter \cup KPI \cup KPIValue \cup OKR \cup KeyResult \cup MeetingNote

\* The key of a record, by its kind.
Placed(i, rec) ==
    /\ i \in Cycle => rec.sk = <<i>>
    /\ i \in Quarter \cup KPI \cup OKR => \E c \in Cycle : rec.sk = <<c, i>>
    /\ i \in MeetingNote => rec.quarter \in Quarter /\ \E c \in Cycle : rec.sk = <<c, rec.quarter, i>>
    /\ i \in KPIValue => rec.parent \in KPI /\ \E c \in Cycle : rec.sk = <<c, rec.parent, i>>
    /\ i \in KeyResult => rec.parent \in OKR /\ \E c \in Cycle : rec.sk = <<c, rec.parent, i>>
    /\ i \in GoalEntry \cup Task => rec.parent \in Goal /\ rec.sk = OfGoal(rec.parent, i)
    /\ i \in Tag => rec = New(i, OfGoal(i[1], i[2]), i[1], None).rec

Known(sk) == Range(sk) \cap Named \subseteq created

Puts(r) == Range(req[r].puts)
-----------------------------------------------------------------------------
(* Keys.                                                                   *)

LEMMA RangeOfKey ==
    \A a, b, c : /\ Range(<<a>>) = {a}
                 /\ Range(<<a, b>>) = {a, b}
                 /\ Range(<<a, b, c>>) = {a, b, c}
<1> TAKE a, b, c
<1>1. DOMAIN <<a>> = {1} /\ DOMAIN <<a, b>> = {1, 2} /\ DOMAIN <<a, b, c>> = {1, 2, 3}
  OBVIOUS
<1> QED
  BY <1>1 DEF Range

\* A prefix of a sequence agrees with it as far as it goes.
LEMMA PrefixAgrees ==
    ASSUME NEW S, NEW s \in Seq(S), NEW t \in Seq(S)
    PROVE  IsPrefix(s, t) <=> Len(s) <= Len(t) /\ \A n \in 1..Len(s) : s[n] = t[n]
<1>1. ASSUME Len(s) <= Len(t)
      PROVE  /\ SubSeq(s, 1, Len(s)) = [n \in 1..Len(s) |-> s[n]]
             /\ SubSeq(t, 1, Len(s)) = [n \in 1..Len(s) |-> t[n]]
  BY <1>1
<1> QED
  BY <1>1 DEF IsPrefix

\* The ids of the kinds are apart.
LEMMA KindsApart ==
    /\ Cycle \cap (Quarter \cup KPI \cup KPIValue \cup OKR \cup KeyResult \cup MeetingNote
                   \cup GoalEntry \cup Task \cup Tag) = {}
    /\ Quarter \cap (KPI \cup KPIValue \cup OKR \cup KeyResult \cup MeetingNote
                   \cup GoalEntry \cup Task \cup Tag) = {}
    /\ KPI \cap (KPIValue \cup OKR \cup KeyResult \cup MeetingNote \cup GoalEntry \cup Task \cup Tag) = {}
    /\ KPIValue \cap (OKR \cup KeyResult \cup MeetingNote \cup GoalEntry \cup Task \cup Tag) = {}
    /\ OKR \cap (KeyResult \cup MeetingNote \cup GoalEntry \cup Task \cup Tag) = {}
    /\ KeyResult \cap (MeetingNote \cup GoalEntry \cup Task \cup Tag) = {}
    /\ MeetingNote \cap (GoalEntry \cup Task \cup Tag) = {}
    /\ GoalEntry \cap (Task \cup Tag) = {}
    /\ Task \cap Tag = {}
    /\ "GOAL" \notin Named /\ Team \cap Named = {}
<1>1. DOMAIN Kinds = 1..10
  BY DEF Kinds
<1>2. \A m, n \in 1..10 : m # n => Kinds[m] \cap Kinds[n] = {}
  BY <1>1, KindAssumption
<1>3. /\ Kinds[1] = Cycle /\ Kinds[2] = Quarter /\ Kinds[3] = KPI /\ Kinds[4] = KPIValue
      /\ Kinds[5] = OKR /\ Kinds[6] = KeyResult /\ Kinds[7] = MeetingNote
      /\ Kinds[8] = GoalEntry /\ Kinds[9] = Task /\ Kinds[10] = Tag
  BY DEF Kinds
<1>4. /\ Cycle \cap Quarter = {} /\ Cycle \cap KPI = {} /\ Cycle \cap KPIValue = {} /\ Cycle \cap OKR = {}
      /\ Cycle \cap KeyResult = {} /\ Cycle \cap MeetingNote = {} /\ Cycle \cap GoalEntry = {}
      /\ Cycle \cap Task = {} /\ Cycle \cap Tag = {}
  BY <1>2, <1>3
<1>5. /\ Quarter \cap KPI = {} /\ Quarter \cap KPIValue = {} /\ Quarter \cap OKR = {}
      /\ Quarter \cap KeyResult = {} /\ Quarter \cap MeetingNote = {} /\ Quarter \cap GoalEntry = {}
      /\ Quarter \cap Task = {} /\ Quarter \cap Tag = {}
  BY <1>2, <1>3
<1>6. /\ KPI \cap KPIValue = {} /\ KPI \cap OKR = {} /\ KPI \cap KeyResult = {} /\ KPI \cap MeetingNote = {}
      /\ KPI \cap GoalEntry = {} /\ KPI \cap Task = {} /\ KPI \cap Tag = {}
  BY <1>2, <1>3
<1>7. /\ KPIValue \cap OKR = {} /\ KPIValue \cap KeyResult = {} /\ KPIValue \cap MeetingNote = {}
      /\ KPIValue \cap GoalEntry = {} /\ KPIValue \cap Task = {} /\ KPIValue \cap Tag = {}
  BY <1>2, <1>3
<1>8. /\ OKR \cap KeyResult = {} /\ OKR \cap MeetingNote = {} /\ OKR \cap GoalEntry = {}
      /\ OKR \cap Task = {} /\ OKR \cap Tag = {}
  BY <1>2, <1>3
<1>9. /\ KeyResult \cap MeetingNote = {} /\ KeyResult \cap GoalEntry = {} /\ KeyResult \cap Task = {}
      /\ KeyResult \cap Tag = {}
      /\ MeetingNote \cap GoalEntry = {} /\ MeetingNote \cap Task = {} /\ MeetingNote \cap Tag = {}
      /\ GoalEntry \cap Task = {} /\ GoalEntry \cap Tag = {} /\ Task \cap Tag = {}
  BY <1>2, <1>3
<1> QED
  BY <1>4, <1>5, <1>6, <1>7, <1>8, <1>9, KindAssumption

\* The key of a record of a cycle names the cycle, perhaps what it hangs from,
\* and the record, all of them by their ids.
LEMMA KeyOfTree ==
    ASSUME NEW i \in Tree, NEW rec \in Record, Placed(i, rec)
    PROVE  /\ rec.sk \in Seq(Tree) /\ Len(rec.sk) \in 1..3
           /\ Head(rec.sk) = rec.sk[1] /\ Head(rec.sk) \in Cycle
           /\ Head(rec.sk) \in Range(rec.sk) /\ i \in Range(rec.sk) /\ Range(rec.sk) \subseteq Tree
           /\ \A x \in Range(rec.sk) : x = i \/ x = Head(rec.sk) \/ x = rec.parent \/ x = rec.quarter
           /\ \A x \in Range(rec.sk) \cap Cycle : x = Head(rec.sk)
           /\ \A x \in Range(rec.sk) \cap KeyResult : x = i
           /\ i \in Cycle <=> Len(rec.sk) = 1
           /\ i \in Cycle => Head(rec.sk) = i
           /\ i \in KeyResult => Len(rec.sk) = 3 /\ rec.parent \in OKR /\ rec.parent \in Range(rec.sk)
           /\ i \in OKR => Len(rec.sk) = 2
<1>1. CASE i \in Cycle
  <2>1. rec.sk = <<i>>
    BY <1>1 DEF Placed
  <2> QED
    BY <1>1, <2>1, RangeOfKey, KindsApart DEF Tree
<1>2. CASE i \in Quarter \cup KPI \cup OKR
  <2>1. PICK c \in Cycle : rec.sk = <<c, i>>
    BY <1>2 DEF Placed
  <2>2. Range(rec.sk) = {c, i} /\ Head(rec.sk) = c /\ Len(rec.sk) = 2
    BY <2>1, RangeOfKey
  <2> QED
    BY <1>2, <2>1, <2>2, KindsApart DEF Tree
<1>3. CASE i \in MeetingNote
  <2>1. rec.quarter \in Quarter
    BY <1>3 DEF Placed
  <2>2. PICK c \in Cycle : rec.sk = <<c, rec.quarter, i>>
    BY <1>3 DEF Placed
  <2>3. Range(rec.sk) = {c, rec.quarter, i} /\ Head(rec.sk) = c /\ Len(rec.sk) = 3
    BY <2>2, RangeOfKey
  <2> QED
    BY <1>3, <2>1, <2>2, <2>3, KindsApart DEF Tree
<1>4. CASE i \in KPIValue
  <2>1. rec.parent \in KPI
    BY <1>4 DEF Placed
  <2>2. PICK c \in Cycle : rec.sk = <<c, rec.parent, i>>
    BY <1>4 DEF Placed
  <2>3. Range(rec.sk) = {c, rec.parent, i} /\ Head(rec.sk) = c /\ Len(rec.sk) = 3
    BY <2>2, RangeOfKey
  <2> QED
    BY <1>4, <2>1, <2>2, <2>3, KindsApart DEF Tree
<1>5. CASE i \in KeyResult
  <2>1. rec.parent \in OKR
    BY <1>5 DEF Placed
  <2>2. PICK c \in Cycle : rec.sk = <<c, rec.parent, i>>
    BY <1>5 DEF Placed
  <2>3. Range(rec.sk) = {c, rec.parent, i} /\ Head(rec.sk) = c /\ Len(rec.sk) = 3
    BY <2>2, RangeOfKey
  <2> QED
    BY <1>5, <2>1, <2>2, <2>3, KindsApart DEF Tree
<1> QED
  BY <1>1, <1>2, <1>3, <1>4, <1>5 DEF Tree

\* Any other key begins with the mark of what is attached to a goal.
LEMMA KeyOfGoal ==
    ASSUME NEW i \in Id \ Tree, NEW rec \in Record, Placed(i, rec)
    PROVE  Head(rec.sk) = "GOAL"
<1>1. i \in GoalEntry \cup Task \cup Tag
  BY DEF Id, Named, Tree
<1> QED
  BY <1>1 DEF Placed, OfGoal, New
-----------------------------------------------------------------------------
(* What the table and the requests hold.                                   *)

\* Every record, in the table or about to be put, is under the key of its kind, and
\* all ids in a key were given out.
Filed == /\ \A i \in Id : Present(i) => Placed(i, table[i]) /\ Known(table[i].sk)
         /\ \A r \in Request : \A p \in Puts(r) : Placed(p.id, p.rec) /\ Known(p.rec.sk)
         /\ \A r \in Request : req[r].target \in Named => req[r].target \in created

\* What a request has left to do, by what it began as.
Shape(q) ==
    /\ q.puts # <<>> => q.then = "end" /\ q.dels = {}
    /\ \A m, n \in DOMAIN q.puts : q.puts[m].id = q.puts[n].id => m = n
    /\ \A n \in DOMAIN q.puts : n > 1 => q.puts[n].id \in KeyResult \cup {q.target}
    /\ q.then # "end" => q.target \in Id
    /\ q.then = "related" => q.target \in Cycle
    /\ q.then = "below" => q.target \in Goal
    /\ q.then = "subs" => q.target \in KPI
    /\ q.then \in {"subs", "below"} => q.puts = <<>> /\ q.at \in Seq(Tree) /\ Len(q.at) = 2
    /\ q.puts = <<>> /\ q.target \in Cycle => q.at = <<q.target>>
    /\ q.dels # {} /\ q.then \notin {"record", "end"} => q.target \in KPI
    /\ \A i \in q.dels \cap (Cycle \cup OKR) : i = q.target \/ (q.target \in Cycle /\ i \in OKR)

IInv == TypeOK /\ Filed /\ \A r \in Request : Shape(req[r])
-----------------------------------------------------------------------------
(* How a request begins.                                                   *)

IsPatch(old, new) == \E f \in {"owner", "value", "parentKpiId"} : new = [old EXCEPT ![f] = new[f]]

\* A record that is put is the target, changed, or hangs from the target; a key
\* result may hang from the OKR that is put before it.
Fits(target, puts, p) ==
    /\ Placed(p.id, p.rec)
    /\ \A x \in Range(p.rec.sk) \cap Named : x \in created \/ (x # target /\ \E m \in Range(puts) : m.id = x)
    /\ p.id = target => IsPatch(table[p.id], p.rec)
    /\ p.id # target /\ p.id \in Named => p.id \notin created
    /\ target = None => p.id \in Cycle
    /\ p.id \in Tree /\ target # None =>
          /\ target \in Tree /\ IsPrefix(table[target].sk, p.rec.sk)
          /\ \A x \in Range(p.rec.sk) : x \in Range(table[target].sk) \/ x \notin created
    /\ p.id \in KeyResult /\ p.id # target =>
          \E m \in Range(puts) : m.id = p.rec.parent /\ IsPrefix(m.rec.sk, p.rec.sk)

Starts(q) ==
    /\ q.dels = {} /\ Shape(q)
    /\ q.target # None => Present(q.target) /\ q.at = table[q.target].sk
    /\ \A p \in Range(q.puts) : Fits(q.target, q.puts, p)
    /\ q.puts = <<>> /\ q.then \in {"record", "end"} => q.target \notin Cycle \cup OKR

Began(r) ==
    /\ req[r] = Idle
    /\ \E q \in InFlight :
          /\ req' = [req EXCEPT ![r] = q] /\ Starts(q)
          /\ created \subseteq created' /\ created' \subseteq Named
          /\ \A p \in Range(q.puts) : Known(p.rec.sk)'
    /\ UNCHANGED <<table, faults>>

LEMMA IdleStarts == Idle \in InFlight /\ Shape(Idle)
BY NoneAssumption DEF Idle, InFlight, Shape, Id, Named, Goal

LEMMA CreateBegins ==
    ASSUME IInv, NEW r \in Request, NEW target \in Id \cup {None},
           NEW puts \in Seq([id : Id, rec : Record]), Create(r, target, puts),
           target # None => Present(target),
           \A m, n \in DOMAIN puts : puts[m].id = puts[n].id => m = n,
           \A n \in DOMAIN puts : n > 1 => puts[n].id \in KeyResult \cup {target},
           \A p \in Range(puts) : Fits(target, puts, p), puts # <<>>
    PROVE  Began(r)
<1> DEFINE at == IF target \in Id /\ Present(target) THEN table[target].sk ELSE <<>>
           q == [target |-> target, puts |-> puts, dels |-> {}, then |-> "end", at |-> at]
           ids == ({puts[n].id : n \in DOMAIN puts} \cap Named) \ {target}
<1>1. req[r] = Idle /\ req' = [req EXCEPT ![r] = q] /\ UNCHANGED <<table, faults>> /\ created' = created \cup ids
  BY DEF Create, Begin
<1>2. at \in Seq(Elem) /\ (target # None => at = table[target].sk)
  BY DEF IInv, TypeOK, Record, Elem, Present
<1>3. q \in InFlight
  BY <1>2 DEF InFlight, Elem
<1>4. Shape(q)
  BY DEF Shape
<1>5. Starts(q)
  BY <1>2, <1>4 DEF Starts
<1>6. created' \subseteq Named /\ created \subseteq created'
  BY <1>1 DEF IInv, TypeOK
<1>7. ASSUME NEW p \in Range(puts) PROVE Known(p.rec.sk)'
  <2>1. \A m \in Range(puts) : m.id \in Named /\ m.id # target => m.id \in ids
    BY DEF Range
  <2> QED
    BY <1>1, <1>7, <2>1 DEF Fits, Known
<1> HIDE DEF q, ids
<1> QED
  BY <1>1, <1>3, <1>5, <1>6, <1>7 DEF Began, q

LEMMA PatchIsRecord ==
    ASSUME NEW rec \in Record, NEW patch \in Patch
    PROVE  /\ patchRecord(rec, patch) \in Record
           /\ IsPatch(rec, patchRecord(rec, patch))
           /\ \A i : Placed(i, rec) /\ i \notin Tag => Placed(i, patchRecord(rec, patch))
           /\ patchRecord(rec, patch).sk = rec.sk
           /\ patchRecord(rec, patch).parent = rec.parent
           /\ patchRecord(rec, patch).quarter = rec.quarter
<1> DEFINE new == patchRecord(rec, patch)
<1>1. \/ patch.field = "owner" /\ patch.to \in User
      \/ patch.field = "value" /\ patch.to \in 0..1
      \/ patch.field = "parentKpiId" /\ patch.to \in KPI
  BY PatchAssumption
<1>2. new = [rec EXCEPT ![patch.field] = patch.to]
  BY DEF patchRecord
<1>3. new \in Record /\ new[patch.field] = patch.to
  BY <1>1, <1>2 DEF Record
<1>4. new.sk = rec.sk /\ new.parent = rec.parent /\ new.quarter = rec.quarter
  BY <1>1, <1>2 DEF Record
<1>5. IsPatch(rec, new)
  BY <1>1, <1>2, <1>3 DEF IsPatch
<1>6. ASSUME NEW i, Placed(i, rec), i \notin Tag PROVE Placed(i, new)
  BY <1>4, <1>6 DEF Placed
<1> QED
  BY <1>3, <1>4, <1>5, <1>6

LEMMA UpdateBegins ==
    ASSUME IInv, NEW r \in Request, NEW i \in Named, NEW patch \in Patch, Update(r, i, patch)
    PROVE  Began(r)
<1> DEFINE new == patchRecord(table[i], patch)
           p == [id |-> i, rec |-> new]
           q == [target |-> i, puts |-> <<p>>, dels |-> {}, then |-> "end", at |-> table[i].sk]
<1>1. i \in Id /\ i \notin Tag /\ i # None
  BY KindsApart, NoneAssumption DEF Id, Named
<1>2. /\ Present(i) /\ table[i] \in Record /\ Placed(i, table[i]) /\ Known(table[i].sk)
      /\ req[r] = Idle /\ req' = [req EXCEPT ![r] = q] /\ UNCHANGED <<table, faults, created>>
  BY <1>1 DEF Update, Change, Begin, IInv, TypeOK, Filed, Present
<1>3. /\ new \in Record /\ IsPatch(table[i], new) /\ Placed(i, new) /\ new.sk = table[i].sk
  BY <1>1, <1>2, PatchIsRecord
<1>4. i \in created
  <2>1. i \in Tree => i \in Range(table[i].sk)
    BY <1>2, KeyOfTree
  <2>2. i \in GoalEntry \cup Task => table[i].sk = <<"GOAL", table[i].parent, i>>
    BY <1>2 DEF Placed, OfGoal
  <2>3. i \in Range(table[i].sk)
    BY <2>1, <2>2, RangeOfKey DEF Tree, Named
  <2> QED
    BY <1>2, <2>3 DEF Known
<1>5. p \in [id : Id, rec : Record] /\ Range(<<p>>) = {p} /\ <<p>> \in Seq([id : Id, rec : Record])
  BY <1>1, <1>3, RangeOfKey
<1>6. q \in InFlight
  BY <1>1, <1>2, <1>5 DEF InFlight, Record
<1>7. Shape(q)
  BY <1>1, KindsApart DEF Shape
<1>8. Fits(i, <<p>>, p)
  <2>1. IsPrefix(table[i].sk, new.sk)
    BY <1>2, <1>3, PrefixAgrees DEF Record
  <2> QED
    BY <1>1, <1>2, <1>3, <1>4, <2>1 DEF Fits, Known
<1>9. Starts(q)
  BY <1>2, <1>5, <1>7, <1>8 DEF Starts
<1>10. Range(p.rec.sk) \cap Named \subseteq created'
  BY <1>2, <1>3 DEF Known
<1>11. \A x \in Range(q.puts) : Known(x.rec.sk)'
  BY <1>5, <1>10 DEF Known
<1>12. created' \subseteq Named /\ created \subseteq created'
  BY <1>2 DEF IInv, TypeOK
<1> HIDE DEF q
<1> QED
  BY <1>2, <1>6, <1>9, <1>11, <1>12 DEF Began, q

LEMMA DeleteBegins ==
    ASSUME IInv, NEW r \in Request, NEW i \in Id, Delete(r, i, "record"), i \notin Cycle \cup OKR
    PROVE  Began(r)
<1> DEFINE q == [target |-> i, puts |-> <<>>, dels |-> {}, then |-> "record", at |-> table[i].sk]
<1>1. /\ Present(i) /\ table[i] \in Record
      /\ req[r] = Idle /\ req' = [req EXCEPT ![r] = q] /\ UNCHANGED <<table, faults, created>>
  BY DEF Delete, Change, Begin, IInv, TypeOK, Present
<1>2. q \in InFlight
  BY <1>1 DEF InFlight, Record
<1>3. Starts(q)
  BY <1>1 DEF Starts, Shape, Range
<1>4. Range(q.puts) = {}
  BY DEF Range
<1>5. created' \subseteq Named /\ created \subseteq created'
  BY <1>1 DEF IInv, TypeOK
<1> HIDE DEF q
<1> QED
  BY <1>1, <1>2, <1>3, <1>4, <1>5 DEF Began, q

LEMMA DeleteAllBegins ==
    ASSUME IInv, NEW r \in Request, NEW i \in Cycle \cup Goal, NEW first \in {"related", "subs", "below"},
           Delete(r, i, first), first = "related" <=> i \in Cycle, first = "subs" => i \in KPI
    PROVE  Began(r)
<1> DEFINE q == [target |-> i, puts |-> <<>>, dels |-> {}, then |-> first, at |-> table[i].sk]
<1>1. i \in Id /\ i \in Tree /\ i # None
  BY NoneAssumption DEF Id, Named, Goal, Tree
<1>2. /\ Present(i) /\ table[i] \in Record /\ Placed(i, table[i])
      /\ req[r] = Idle /\ req' = [req EXCEPT ![r] = q] /\ UNCHANGED <<table, faults, created>>
  BY <1>1 DEF Delete, Change, Begin, IInv, TypeOK, Present, Filed
<1>3. q \in InFlight
  BY <1>1, <1>2 DEF InFlight, Record
<1>4. q.at \in Seq(Tree) /\ (i \in Goal => Len(q.at) = 2) /\ (i \in Cycle => q.at = <<i>>)
  <2>1. i \in KPI => \E c \in Cycle : table[i].sk = <<c, i>>
    BY <1>2 DEF Placed
  <2> QED
    BY <1>1, <1>2, <2>1, KeyOfTree DEF Placed, Goal
<1>5. Shape(q)
  BY <1>1, <1>4, KindsApart DEF Shape, Goal
<1>6. Starts(q)
  BY <1>2, <1>5 DEF Starts, Range
<1>7. Range(q.puts) = {}
  BY DEF Range
<1>8. created' \subseteq Named /\ created \subseteq created'
  BY <1>2 DEF IInv, TypeOK
<1> HIDE DEF q
<1> QED
  BY <1>2, <1>3, <1>6, <1>7, <1>8 DEF Began, q
-----------------------------------------------------------------------------
(* Every operation begins so.                                              *)

LEMMA NewIsRecord ==
    ASSUME NEW i, NEW sk \in Seq(Elem), NEW parent \in Goal \cup {None}, NEW owner \in User \cup {None}
    PROVE  /\ New(i, sk, parent, owner).id = i
           /\ New(i, sk, parent, owner).rec \in Record
           /\ New(i, sk, parent, owner).rec.sk = sk
           /\ New(i, sk, parent, owner).rec.parent = parent
BY DEF New, Record, Elem

LEMMA NewInIsRecord ==
    ASSUME NEW i, NEW sk \in Seq(Elem), NEW quarter \in Quarter \cup {None}, NEW parent \in Goal \cup {None}
    PROVE  /\ NewIn(i, sk, quarter, parent)
                  = [id |-> i, rec |-> [sk |-> sk, quarter |-> quarter, parent |-> parent,
                                        parentKpiId |-> None, owner |-> None, value |-> 0]]
           /\ NewIn(i, sk, quarter, parent).rec \in Record
BY DEF New, NewIn, Record, Elem

LEMMA ValueIsRecord ==
    ASSUME NEW sk \in Seq(Elem), NEW quarter \in Quarter \cup {None}, NEW parent \in Goal \cup {None},
           NEW value \in 0..1
    PROVE  [sk |-> sk, quarter |-> quarter, parent |-> parent,
            parentKpiId |-> None, owner |-> None, value |-> value] \in Record
BY DEF Record, Elem

LEMMA AppendToKey ==
    ASSUME NEW a \in Elem, NEW b \in Elem, NEW c \in Elem
    PROVE  Append(<<a, b>>, c) = <<a, b, c>>
<1> DEFINE s == Append(<<a, b>>, c)
           t == <<a, b, c>>
<1>1. s \in Seq(Elem) /\ Len(s) = 3 /\ s[1] = a /\ s[2] = b /\ s[3] = c
  OBVIOUS
<1>2. t \in Seq(Elem) /\ Len(t) = 3 /\ t[1] = a /\ t[2] = b /\ t[3] = c
  OBVIOUS
<1> HIDE DEF s, t
<1>3. \A n \in 1..3 : s[n] = t[n]
  BY <1>1, <1>2
<1>4. s = [n \in 1..3 |-> s[n]] /\ t = [n \in 1..3 |-> t[n]]
  BY <1>1, <1>2
<1> QED
  BY <1>3, <1>4 DEF s, t

\* What is known of a record that is there.
LEMMA TargetIsFiled ==
    ASSUME IInv, NEW i \in Id, Present(i)
    PROVE  /\ table[i] \in Record /\ table[i].sk \in Seq(Elem) /\ Placed(i, table[i])
           /\ Range(table[i].sk) \cap Named \subseteq created
           /\ i \in Named => i \in created
           /\ i # None
           /\ i \in Tree => Range(table[i].sk) \subseteq created
<1>1. /\ table[i] \in Record /\ table[i].sk \in Seq(Elem) /\ Placed(i, table[i])
      /\ Range(table[i].sk) \cap Named \subseteq created /\ i # None
  BY NoneAssumption DEF IInv, TypeOK, Filed, Present, Known, Record, Elem
<1>2. i \in Tree => i \in Range(table[i].sk) /\ Range(table[i].sk) \subseteq Tree
  BY <1>1, KeyOfTree
<1>3. i \in GoalEntry \cup Task => table[i].sk = <<"GOAL", table[i].parent, i>>
  BY <1>1 DEF Placed, OfGoal
<1>4. i \in Named => i \in Range(table[i].sk)
  BY <1>2, <1>3, RangeOfKey DEF Named, Tree
<1> QED
  BY <1>1, <1>2, <1>4 DEF Named, Tree

LEMMA FreshIds ==
    ASSUME NEW r, NEW target, NEW puts, Create(r, target, puts)
    PROVE  \A n \in DOMAIN puts : puts[n].id \in Named /\ puts[n].id # target => puts[n].id \notin created
BY DEF Create, Fresh

LEMMA OneBegins ==
    ASSUME IInv, NEW r \in Request, NEW target \in Id \cup {None}, target # None => Present(target),
           NEW p \in [id : Id, rec : Record], Create(r, target, <<p>>), Fits(target, <<p>>, p)
    PROVE  Began(r)
<1> DEFINE puts == <<p>>
<1>1. puts \in Seq([id : Id, rec : Record]) /\ Range(puts) = {p} /\ DOMAIN puts = {1} /\ puts # <<>>
  BY RangeOfKey
<1>2. \A m, n \in DOMAIN puts : puts[m].id = puts[n].id => m = n
  BY <1>1
<1>3. \A n \in DOMAIN puts : n > 1 => puts[n].id \in KeyResult \cup {target}
  BY <1>1
<1>4. \A x \in Range(puts) : Fits(target, puts, x)
  BY <1>1
<1>5. Create(r, target, puts)
  OBVIOUS
<1> HIDE DEF puts
<1> QED
  BY <1>1, <1>2, <1>3, <1>4, <1>5, CreateBegins

LEMMA ChildBegins ==
    ASSUME IInv, NEW r \in Request, NEW target \in Tree, Present(target),
           NEW i \in Tree \ (Cycle \cup KeyResult), NEW rec \in Record, i # target, Placed(i, rec),
           rec.sk = Append(table[target].sk, i), Create(r, target, <<[id |-> i, rec |-> rec]>>)
    PROVE  Began(r)
<1> DEFINE p == [id |-> i, rec |-> rec]
           puts == <<p>>
<1>1. i \in Id /\ i \in Named /\ target \in Id
  BY DEF Id, Named, Tree
<1>2. table[target].sk \in Seq(Elem) /\ Range(table[target].sk) \subseteq created /\ target # None
  BY <1>1, TargetIsFiled
<1>3. p \in [id : Id, rec : Record] /\ puts \in Seq([id : Id, rec : Record]) /\ Range(puts) = {p}
      /\ DOMAIN puts = {1} /\ puts[1] = p
  BY <1>1, RangeOfKey
<1>4. i \notin created
  BY <1>1, <1>3, FreshIds
<1>5. IsPrefix(table[target].sk, rec.sk)
  <2>1. rec.sk \in Seq(Elem)
    BY DEF Record, Elem
  <2>2. /\ Len(table[target].sk) <= Len(rec.sk)
        /\ \A n \in 1..Len(table[target].sk) : table[target].sk[n] = rec.sk[n]
    BY <1>2, <2>1
  <2> QED
    BY <1>2, <2>1, <2>2, PrefixAgrees
<1>6. \A x \in Range(rec.sk) : x \in Range(table[target].sk) \/ x = i
  <2>1. \A n \in DOMAIN rec.sk : rec.sk[n] = i \/ (n \in DOMAIN table[target].sk /\ rec.sk[n] = table[target].sk[n])
    BY <1>2
  <2> QED
    BY <2>1 DEF Range
<1>7. Fits(target, puts, p)
  BY <1>2, <1>3, <1>4, <1>5, <1>6 DEF Fits
<1> QED
  BY <1>1, <1>3, <1>7, OneBegins

LEMMA AttachedBegins ==
    ASSUME IInv, NEW r \in Request, NEW g \in Goal, Present(g),
           NEW i \in GoalEntry \cup Task \cup Tag, NEW rec \in Record, Placed(i, rec),
           Range(rec.sk) \cap Named \subseteq {g, i}, Create(r, g, <<[id |-> i, rec |-> rec]>>)
    PROVE  Began(r)
<1> DEFINE p == [id |-> i, rec |-> rec]
           puts == <<p>>
<1>1. i \in Id /\ i \notin Tree /\ g \in Id /\ g \in Named /\ i # g
  BY KindsApart DEF Id, Named, Tree, Goal
<1>2. g \in created /\ g # None
  BY <1>1, TargetIsFiled
<1>3. p \in [id : Id, rec : Record] /\ puts \in Seq([id : Id, rec : Record]) /\ Range(puts) = {p}
      /\ DOMAIN puts = {1} /\ puts[1] = p
  BY <1>1, RangeOfKey
<1>4. i \in Named => i \notin created
  BY <1>1, <1>3, FreshIds
<1>5. Fits(g, puts, p)
  BY <1>1, <1>2, <1>3, <1>4, KindsApart DEF Fits
<1> QED
  BY <1>1, <1>3, <1>5, OneBegins

LEMMA CyclesBegin == ASSUME IInv, NEW r \in Request, Cycles(r) PROVE Began(r)
<1>1. PICK c \in Cycle : \/ CreatePerformanceCycle(r, c)
                         \/ \E patch \in Patch : UpdatePerformanceCycle(r, c, patch)
                         \/ DeletePerformanceCycle(r, c)
                         \/ \E q \in Quarter : CreateQuarter(r, c, q)
  BY DEF Cycles
<1>2. c \in Id /\ c \in Named /\ c \in Tree /\ c # None /\ <<c>> \in Seq(Elem)
  BY NoneAssumption DEF Id, Named, Tree, Elem
<1>3. CASE CreatePerformanceCycle(r, c)
  <2> DEFINE p == New(c, <<c>>, None, None)
  <2>1. p.id = c /\ p.rec \in Record /\ p.rec.sk = <<c>> /\ p = [id |-> p.id, rec |-> p.rec]
    BY <1>2, NewIsRecord DEF New
  <2>2. Create(r, None, <<p>>)
    BY <1>3 DEF CreatePerformanceCycle
  <2> HIDE DEF p
  <2>3. p \in [id : Id, rec : Record] /\ <<p>> \in Seq([id : Id, rec : Record]) /\ Range(<<p>>) = {p}
        /\ DOMAIN <<p>> = {1}
    BY <1>2, <2>1, RangeOfKey
  <2>4. Fits(None, <<p>>, p)
    <3>1. Range(p.rec.sk) = {c} /\ c \notin created
      BY <1>2, <2>1, <2>2, <2>3, FreshIds, RangeOfKey
    <3> QED
      BY <1>2, <2>1, <2>3, <3>1, KindsApart DEF Fits, Placed
  <2> QED
    BY <2>2, <2>3, <2>4, OneBegins
<1>4. CASE \E patch \in Patch : UpdatePerformanceCycle(r, c, patch)
  BY <1>2, <1>4, UpdateBegins DEF UpdatePerformanceCycle
<1>5. CASE DeletePerformanceCycle(r, c)
  BY <1>5, DeleteAllBegins DEF DeletePerformanceCycle
<1>6. ASSUME NEW q \in Quarter, CreateQuarter(r, c, q) PROVE Began(r)
  <2> DEFINE rec == New(q, <<c, q>>, None, None).rec
  <2>1. <<c, q>> \in Seq(Elem) /\ q \in Tree \ (Cycle \cup KeyResult) /\ q # c
    BY <1>2, KindsApart DEF Elem, Named, Tree
  <2>2. rec \in Record /\ rec.sk = <<c, q>> /\ New(q, <<c, q>>, None, None) = [id |-> q, rec |-> rec]
    BY <2>1, NewIsRecord DEF New
  <2>3. Present(c) /\ Create(r, c, <<[id |-> q, rec |-> rec]>>)
    BY <1>6, <2>2 DEF CreateQuarter
  <2>4. table[c].sk = <<c>>
    BY <1>2, <2>3, TargetIsFiled DEF Placed
  <2>5. Placed(q, rec)
    BY <2>2, KindsApart DEF Placed
  <2> HIDE DEF rec
  <2>6. rec.sk = Append(table[c].sk, q)
    BY <2>2, <2>4
  <2> QED
    BY <1>2, <2>1, <2>2, <2>3, <2>5, <2>6, ChildBegins
<1> QED
  BY <1>1, <1>3, <1>4, <1>5, <1>6

LEMMA QuartersBegin == ASSUME IInv, NEW r \in Request, Quarters(r) PROVE Began(r)
<1>1. PICK q \in Quarter : \/ \E patch \in Patch : UpdateQuarter(r, q, patch)
                           \/ DeleteQuarter(r, q)
                           \/ \E n \in MeetingNote : CreateMeetingNote(r, q, n)
  BY DEF Quarters
<1>2. q \in Id /\ q \in Named /\ q \in Tree /\ q \notin Cycle \cup OKR
  BY KindsApart DEF Id, Named, Tree
<1>3. CASE \E patch \in Patch : UpdateQuarter(r, q, patch)
  BY <1>2, <1>3, UpdateBegins DEF UpdateQuarter
<1>4. CASE DeleteQuarter(r, q)
  BY <1>2, <1>4, DeleteBegins DEF DeleteQuarter
<1>5. ASSUME NEW n \in MeetingNote, CreateMeetingNote(r, q, n) PROVE Began(r)
  <2>1. Present(q)
    BY <1>5 DEF CreateMeetingNote
  <2>2. PICK c \in Cycle : table[q].sk = <<c, q>>
    BY <1>2, <2>1, TargetIsFiled DEF Placed
  <2> DEFINE rec == NewIn(n, <<c, q, n>>, q, None).rec
  <2>3. <<c, q, n>> \in Seq(Elem) /\ n \in Tree \ (Cycle \cup KeyResult) /\ n # q
    BY KindsApart DEF Elem, Named, Tree
  <2>4. /\ rec \in Record /\ rec.sk = <<c, q, n>> /\ rec.quarter = q
        /\ NewIn(n, <<c, q, n>>, q, None) = [id |-> n, rec |-> rec]
    <3>1. /\ rec \in Record
          /\ NewIn(n, <<c, q, n>>, q, None)
                 = [id |-> n, rec |-> [sk |-> <<c, q, n>>, quarter |-> q, parent |-> None,
                                       parentKpiId |-> None, owner |-> None, value |-> 0]]
      BY <2>3, NewInIsRecord
    <3> QED
      BY <3>1
  <2>5. Append(table[q].sk, n) = <<c, q, n>>
    BY <2>2, AppendToKey DEF Elem, Named
  <2>6. Create(r, q, <<[id |-> n, rec |-> rec]>>)
    BY <1>5, <2>4, <2>5 DEF CreateMeetingNote
  <2>7. Placed(n, rec)
    BY <2>4, KindsApart DEF Placed
  <2> HIDE DEF rec
  <2>8. rec.sk = Append(table[q].sk, n)
    BY <2>4, <2>5
  <2> QED
    BY <1>2, <2>1, <2>3, <2>4, <2>6, <2>7, <2>8, ChildBegins
<1> QED
  BY <1>1, <1>3, <1>4, <1>5

LEMMA MeetingNotesBegin == ASSUME IInv, NEW r \in Request, MeetingNotes(r) PROVE Began(r)
<1>1. PICK n \in MeetingNote : \/ \E patch \in Patch : UpdateMeetingNote(r, n, patch)
                               \/ DeleteMeetingNote(r, n)
  BY DEF MeetingNotes
<1>2. n \in Id /\ n \in Named /\ n \notin Cycle \cup OKR
  BY KindsApart DEF Id, Named
<1> QED
  BY <1>1, <1>2, UpdateBegins, DeleteBegins DEF UpdateMeetingNote, DeleteMeetingNote

LEMMA CreateKPIBegins ==
    ASSUME IInv, NEW r \in Request, NEW c \in Cycle, NEW k \in KPI, NEW quarter \in Quarter \cup {None},
           NEW parent \in KPI \cup {None}, NEW named \in KPI \cup {None},
           CreateKPI(r, c, k, quarter, parent, named)
    PROVE  Began(r)
<1> DEFINE shown == IF parent = None THEN named ELSE parent
           rec == [sk |-> <<c, k>>, quarter |-> quarter, parent |-> parent, parentKpiId |-> shown,
                   owner |-> None, value |-> 0]
<1>1. c \in Id /\ c \in Tree /\ <<c, k>> \in Seq(Elem) /\ k \in Tree \ (Cycle \cup KeyResult) /\ k # c
  BY KindsApart DEF Id, Elem, Named, Tree
<1>2. /\ rec \in Record /\ rec.sk = <<c, k>>
      /\ [NewIn(k, <<c, k>>, quarter, parent) EXCEPT !.rec.parentKpiId = shown] = [id |-> k, rec |-> rec]
  <2>1. NewIn(k, <<c, k>>, quarter, parent)
            = [id |-> k, rec |-> [sk |-> <<c, k>>, quarter |-> quarter, parent |-> parent,
                                  parentKpiId |-> None, owner |-> None, value |-> 0]]
    BY <1>1, NewInIsRecord DEF Goal
  <2>2. shown \in KPI \cup {None} /\ parent \in Goal \cup {None}
    BY DEF Goal
  <2> QED
    BY <1>1, <2>1, <2>2 DEF Record, Elem
<1>3. Present(c) /\ Create(r, c, <<[id |-> k, rec |-> rec]>>)
  BY <1>2 DEF CreateKPI
<1>4. table[c].sk = <<c>>
  BY <1>1, <1>3, TargetIsFiled DEF Placed
<1>5. Placed(k, rec)
  BY <1>2, KindsApart DEF Placed
<1> HIDE DEF rec
<1>6. rec.sk = Append(table[c].sk, k)
  BY <1>2, <1>4
<1> QED
  BY <1>1, <1>2, <1>3, <1>5, <1>6, ChildBegins

\* The entry is new, and the KPI is put back with its value.
LEMMA AddKPIValueBegins ==
    ASSUME IInv, NEW r \in Request, NEW k \in KPI, NEW v \in KPIValue, NEW value \in 0..1,
           AddKPIValue(r, k, v, value)
    PROVE  Began(r)
<1> DEFINE old == table[k]
<1>1. k \in Id /\ k \in Named /\ k \in Tree /\ v \in Id /\ v \in Named /\ v \in Tree /\ v # k
      /\ k \notin KeyResult /\ v \notin KeyResult /\ v \notin Cycle /\ k # None
  BY KindsApart, NoneAssumption DEF Id, Named, Tree
<1>2. Present(k)
  BY DEF AddKPIValue
<1>3. /\ old \in Record /\ Placed(k, old) /\ Range(old.sk) \subseteq created /\ k \in created
      /\ old.sk \in Seq(Elem)
  BY <1>1, <1>2, TargetIsFiled
<1>4. PICK c \in Cycle : old.sk = <<c, k>>
  BY <1>3 DEF Placed
<1> DEFINE entry == NewIn(v, <<c, k, v>>, old.quarter, k)
           made == [entry EXCEPT !.rec.value = value].rec
           p1 == [id |-> v, rec |-> made]
           new == [old EXCEPT !.value = value]
           p2 == [id |-> k, rec |-> new]
           puts == <<p1, p2>>
<1>5. /\ made \in Record /\ made.sk = <<c, k, v>> /\ made.parent = k
      /\ [entry EXCEPT !.rec.value = value] = [id |-> v, rec |-> made]
  <2>1. <<c, k, v>> \in Seq(Elem)
    BY DEF Elem, Named
  <2>2. old.quarter \in Quarter \cup {None}
    BY <1>3 DEF Record
  <2>3. entry = [id |-> v, rec |-> [sk |-> <<c, k, v>>, quarter |-> old.quarter, parent |-> k,
                                    parentKpiId |-> None, owner |-> None, value |-> 0]]
    BY <2>1, <2>2, NewInIsRecord DEF Goal
  <2>4. [entry EXCEPT !.rec.value = value]
            = [id |-> v, rec |-> [sk |-> <<c, k, v>>, quarter |-> old.quarter, parent |-> k,
                                  parentKpiId |-> None, owner |-> None, value |-> value]]
    BY <2>3
  <2>5. [sk |-> <<c, k, v>>, quarter |-> old.quarter, parent |-> k,
         parentKpiId |-> None, owner |-> None, value |-> value] \in Record
    BY <2>1, <2>2, ValueIsRecord DEF Goal
  <2> QED
    BY <2>4, <2>5
<1>6. new \in Record /\ new.sk = old.sk /\ IsPatch(old, new) /\ Placed(k, new)
  <2>1. new \in Record /\ new.sk = old.sk /\ new.parent = old.parent /\ new.quarter = old.quarter
        /\ new.value = value
    BY <1>3 DEF Record
  <2>2. IsPatch(old, new)
    BY <2>1 DEF IsPatch
  <2> QED
    BY <1>1, <1>3, <2>1, <2>2, KindsApart DEF Placed
<1>7. Create(r, k, puts)
  <2>1. Append(old.sk, v) = <<c, k, v>>
    BY <1>4, AppendToKey DEF Elem, Named
  <2>2. patchRecord(old, [field |-> "value", to |-> value]) = new
    BY DEF patchRecord
  <2>3. Create(r, k, <<[entry EXCEPT !.rec.value = value], p2>>)
    BY <2>1, <2>2 DEF AddKPIValue
  <2> QED
    BY <1>5, <2>3
<1>8. p1.id = v /\ p1.rec = made /\ p2.id = k /\ p2.rec = new
  OBVIOUS
<1> HIDE DEF made, new, entry, p1, p2
<1>9. /\ p1 \in [id : Id, rec : Record] /\ p2 \in [id : Id, rec : Record]
      /\ Range(puts) = {p1, p2} /\ DOMAIN puts = {1, 2} /\ puts[1] = p1 /\ puts[2] = p2
  <2>1. p1 \in [id : Id, rec : Record] /\ p2 \in [id : Id, rec : Record]
    BY <1>1, <1>5, <1>6 DEF p1, p2
  <2> QED
    BY <2>1, RangeOfKey
<1>10. puts \in Seq([id : Id, rec : Record]) /\ puts # <<>>
  BY <1>9
<1> HIDE DEF puts
<1>11. v \notin created
  BY <1>1, <1>7, <1>8, <1>9, FreshIds
<1>12. Fits(k, puts, p1)
  <2>1. Placed(v, made)
    BY <1>5, KindsApart DEF Placed
  <2>2. Range(made.sk) = {c, k, v} /\ Range(old.sk) = {c, k}
    BY <1>4, <1>5, RangeOfKey
  <2>3. IsPrefix(old.sk, made.sk)
    <3>1. made.sk \in Seq(Elem)
      BY <1>5 DEF Record, Elem
    <3>2. Len(old.sk) <= Len(made.sk) /\ \A n \in 1..Len(old.sk) : old.sk[n] = made.sk[n]
      BY <1>4, <1>5
    <3> QED
      BY <1>3, <3>1, <3>2, PrefixAgrees
  <2> QED
    BY <1>1, <1>3, <1>8, <1>9, <1>11, <2>1, <2>2, <2>3 DEF Fits
<1>13. Fits(k, puts, p2)
  <2>1. IsPrefix(old.sk, new.sk)
    BY <1>3, <1>6, PrefixAgrees
  <2> QED
    BY <1>1, <1>3, <1>6, <1>8, <2>1 DEF Fits
<1>14. \A m, n \in DOMAIN puts : puts[m].id = puts[n].id => m = n
  BY <1>1, <1>8, <1>9
<1>15. \A n \in DOMAIN puts : n > 1 => puts[n].id \in KeyResult \cup {k}
  BY <1>8, <1>9
<1>16. \A x \in Range(puts) : Fits(k, puts, x)
  BY <1>9, <1>12, <1>13
<1> QED
  BY <1>1, <1>2, <1>7, <1>10, <1>14, <1>15, <1>16, CreateBegins

LEMMA KPIsBegin == ASSUME IInv, NEW r \in Request, KPIs(r) PROVE Began(r)
<1>1. PICK k \in KPI :
        \/ \E c \in Cycle, quarter \in Quarter \cup {None} :
              \/ \E named \in (KPI \cap created) \cup {None} : CreateKPI(r, c, k, quarter, None, named)
              \/ \E parent \in KPI : CreateSubKPI(r, parent, c, k, quarter)
        \/ \E patch \in Patch : UpdateKPI(r, k, patch)
        \/ \E deleteSubKPIs \in BOOLEAN : DeleteKPI(r, k, deleteSubKPIs)
        \/ \E v \in KPIValue, value \in 0..1 : AddKPIValue(r, k, v, value)
  BY DEF KPIs
<1>2. k \in Named /\ k \notin Cycle
  BY KindsApart DEF Named
<1>3. ASSUME NEW c \in Cycle, NEW quarter \in Quarter \cup {None},
             \/ \E named \in (KPI \cap created) \cup {None} : CreateKPI(r, c, k, quarter, None, named)
             \/ \E parent \in KPI : CreateSubKPI(r, parent, c, k, quarter)
      PROVE  Began(r)
  BY <1>3, CreateKPIBegins DEF CreateSubKPI
<1>4. ASSUME NEW patch \in Patch, UpdateKPI(r, k, patch) PROVE Began(r)
  BY <1>2, <1>4, UpdateBegins DEF UpdateKPI
<1>5. ASSUME NEW deleteSubKPIs \in BOOLEAN, DeleteKPI(r, k, deleteSubKPIs) PROVE Began(r)
  BY <1>2, <1>5, DeleteAllBegins DEF DeleteKPI, Goal
<1>6. ASSUME NEW v \in KPIValue, NEW value \in 0..1, AddKPIValue(r, k, v, value) PROVE Began(r)
  BY <1>6, AddKPIValueBegins
<1> QED
  BY <1>1, <1>3, <1>4, <1>5, <1>6

\* A finite set's sequence names each of its elements once.
LEMMA SeqOfSet ==
    ASSUME NEW S, IsFiniteSet(S)
    PROVE  /\ SetToSeq(S) \in Seq(S)
           /\ \A m, n \in DOMAIN SetToSeq(S) : SetToSeq(S)[m] = SetToSeq(S)[n] => m = n
<1>1. Cardinality(S) \in Nat /\ ExistsBijection(1..Cardinality(S), S)
  BY FS_CardinalityType
<1>2. \E f \in [1..Cardinality(S) -> S] : IsInjective(f)
  BY <1>1 DEF ExistsBijection, Bijection, Injection
<1>3. SetToSeq(S) \in [1..Cardinality(S) -> S] /\ IsInjective(SetToSeq(S))
  BY <1>2 DEF SetToSeq
<1> QED
  BY <1>1, <1>3 DEF IsInjective

\* The OKR is put first, and its key results after it.
LEMMA CreateOKRBegins ==
    ASSUME IInv, NEW r \in Request, NEW c \in Cycle, NEW o \in OKR, NEW quarter \in Quarter \cup {None},
           NEW keyResults \in SUBSET KeyResult, CreateOKR(r, c, o, quarter, keyResults)
    PROVE  Began(r)
<1> DEFINE Of(kr) == NewIn(kr, <<c, o, kr>>, quarter, o)
           made == {Of(kr) : kr \in keyResults}
           rest == SetToSeq(made)
           p == NewIn(o, <<c, o>>, quarter, None)
           puts == <<p>> \o rest
           Put == [id : Id, rec : Record]
<1>1. /\ c \in Id /\ c \in Named /\ c \in Tree /\ o \in Id /\ o \in Named /\ o \in Tree /\ o # c
      /\ o \notin KeyResult /\ c # None
  BY KindsApart, NoneAssumption DEF Id, Named, Tree
<1>2. Present(c) /\ Create(r, c, puts)
  BY DEF CreateOKR
<1>3. table[c].sk = <<c>> /\ c \in created
  BY <1>1, <1>2, TargetIsFiled DEF Placed
<1>4. /\ p = [id |-> o, rec |-> [sk |-> <<c, o>>, quarter |-> quarter, parent |-> None,
                                 parentKpiId |-> None, owner |-> None, value |-> 0]]
      /\ p.rec \in Record
  <2>1. <<c, o>> \in Seq(Elem)
    BY <1>1 DEF Elem
  <2> QED
    BY <2>1, NewInIsRecord
<1>5. p \in Put /\ p.id = o /\ p.rec.sk = <<c, o>>
  BY <1>1, <1>4
<1>6. ASSUME NEW kr \in keyResults
      PROVE  /\ Of(kr) \in Put /\ Of(kr).id = kr /\ Of(kr).rec.sk = <<c, o, kr>> /\ Of(kr).rec.parent = o
             /\ kr \in Id /\ kr \in Named
  <2>1. <<c, o, kr>> \in Seq(Elem) /\ kr \in Id /\ kr \in Named
    BY <1>1 DEF Elem, Named, Id
  <2>2. /\ Of(kr) = [id |-> kr, rec |-> [sk |-> <<c, o, kr>>, quarter |-> quarter, parent |-> o,
                                         parentKpiId |-> None, owner |-> None, value |-> 0]]
        /\ Of(kr).rec \in Record
    BY <2>1, NewInIsRecord DEF Goal
  <2> QED
    BY <2>1, <2>2
<1> HIDE DEF Of, p
<1>7. IsFiniteSet(made)
  <2> DEFINE f == [kr \in keyResults |-> Of(kr)]
  <2>1. IsFiniteSet(keyResults)
    BY FiniteAssumption, FS_Subset
  <2>2. f \in Surjection(keyResults, made)
    BY DEF Surjection
  <2> QED
    BY <2>1, <2>2, FS_Surjection
<1>8. rest \in Seq(made) /\ \A m, n \in DOMAIN rest : rest[m] = rest[n] => m = n
  BY <1>7, SeqOfSet
<1>9. made \subseteq Put
  BY <1>6
<1> HIDE DEF rest
<1>10. rest \in Seq(Put)
  <2> HIDE DEF made, Put
  <2> QED
    BY <1>8, <1>9
<1>11. /\ puts \in Seq(Put) /\ puts # <<>> /\ Len(puts) = Len(rest) + 1 /\ puts[1] = p
       /\ \A n \in DOMAIN puts : n > 1 => n - 1 \in DOMAIN rest /\ puts[n] = rest[n - 1]
  <2>1. <<p>> \in Seq(Put)
    BY <1>5
  <2> QED
    BY <2>1, <1>10
<1> HIDE DEF puts
<1>12. \A n \in DOMAIN puts : n > 1 => puts[n] \in made /\ \E kr \in keyResults : puts[n] = Of(kr)
  BY <1>8, <1>11
<1>13. \A n \in DOMAIN puts : n > 1 => puts[n].id \in keyResults /\ puts[n] = Of(puts[n].id)
  BY <1>6, <1>12
<1>14. ASSUME NEW m \in DOMAIN puts, NEW n \in DOMAIN puts, puts[m].id = puts[n].id
       PROVE  m = n
  <2>1. DOMAIN puts \subseteq Nat \ {0}
    BY <1>11
  <2>2. CASE m > 1 /\ n > 1
    <3>1. rest[m - 1] = rest[n - 1] /\ m - 1 \in DOMAIN rest /\ n - 1 \in DOMAIN rest
      BY <1>11, <1>13, <1>14, <2>2
    <3> QED
      BY <1>8, <2>1, <3>1
  <2>3. CASE ~(m > 1) /\ ~(n > 1)
    BY <2>1, <2>3
  <2>4. CASE m > 1 /\ ~(n > 1)
    BY <1>1, <1>5, <1>11, <1>13, <1>14, <2>1, <2>4
  <2>5. CASE ~(m > 1) /\ n > 1
    BY <1>1, <1>5, <1>11, <1>13, <1>14, <2>1, <2>5
  <2> QED
    BY <2>2, <2>3, <2>4, <2>5
<1>15. \A n \in DOMAIN puts : n > 1 => puts[n].id \in KeyResult \cup {c}
  BY <1>13
<1>16. p \in Range(puts) /\ \A x \in Range(puts) : x = p \/ (x.id \in keyResults /\ x = Of(x.id))
  <2>1. 1 \in DOMAIN puts
    BY <1>11
  <2>2. \A n \in DOMAIN puts : n = 1 \/ n > 1
    BY <1>11
  <2> QED
    BY <1>11, <1>13, <2>1, <2>2 DEF Range
<1>17. \A x \in Range(puts) : x.id \in Named /\ x.id # c => x.id \notin created
  BY <1>2, FreshIds DEF Range
<1>18. Range(table[c].sk) = {c} /\ IsPrefix(<<c>>, <<c, o>>)
  <2>1. <<c>> \in Seq(Elem) /\ <<c, o>> \in Seq(Elem)
    BY <1>1 DEF Elem
  <2>2. /\ Len(<<c>>) <= Len(<<c, o>>)
        /\ \A n \in 1..Len(<<c>>) : <<c>>[n] = <<c, o>>[n]
    OBVIOUS
  <2>3. IsPrefix(<<c>>, <<c, o>>)
    BY <2>1, <2>2, PrefixAgrees
  <2> QED
    BY <1>3, <2>3, RangeOfKey
<1>19. Fits(c, puts, p)
  <2>1. Placed(o, p.rec)
    BY <1>5, KindsApart DEF Placed
  <2>2. Range(p.rec.sk) = {c, o}
    BY <1>5, RangeOfKey
  <2> QED
    BY <1>1, <1>3, <1>5, <1>16, <1>17, <1>18, <2>1, <2>2 DEF Fits
<1>20. ASSUME NEW x \in Range(puts), x # p PROVE Fits(c, puts, x)
  <2>1. PICK kr \in keyResults : x = Of(kr) /\ x.id = kr
    BY <1>16, <1>20
  <2>2. /\ x.rec.sk = <<c, o, kr>> /\ x.rec.parent = o /\ kr \in Named /\ kr \in KeyResult
        /\ kr # c /\ kr \notin Cycle
    BY <1>6, <2>1, KindsApart
  <2>3. Placed(x.id, x.rec)
    BY <2>1, <2>2, KindsApart DEF Placed
  <2>4. Range(x.rec.sk) = {c, o, kr}
    BY <2>2, RangeOfKey
  <2>5. IsPrefix(<<c>>, <<c, o, kr>>) /\ IsPrefix(<<c, o>>, <<c, o, kr>>)
    <3>1. <<c>> \in Seq(Elem) /\ <<c, o>> \in Seq(Elem) /\ <<c, o, kr>> \in Seq(Elem)
      BY <1>1, <2>2 DEF Elem
    <3>2. /\ Len(<<c>>) <= Len(<<c, o, kr>>) /\ \A n \in 1..Len(<<c>>) : <<c>>[n] = <<c, o, kr>>[n]
          /\ Len(<<c, o>>) <= Len(<<c, o, kr>>) /\ \A n \in 1..Len(<<c, o>>) : <<c, o>>[n] = <<c, o, kr>>[n]
      OBVIOUS
    <3> QED
      BY <3>1, <3>2, PrefixAgrees
  <2>6. o \notin created /\ kr \notin created
    BY <1>1, <1>5, <1>16, <1>17, <2>1, <2>2
  <2> QED
    BY <1>1, <1>3, <1>5, <1>16, <1>18, <2>1, <2>2, <2>3, <2>4, <2>5, <2>6 DEF Fits
<1>21. \A x \in Range(puts) : Fits(c, puts, x)
  BY <1>19, <1>20
<1>22. \A m, n \in DOMAIN puts : puts[m].id = puts[n].id => m = n
  BY <1>14
<1> QED
  BY <1>1, <1>2, <1>11, <1>15, <1>21, <1>22, CreateBegins

LEMMA OKRsBegin == ASSUME IInv, NEW r \in Request, OKRs(r) PROVE Began(r)
<1>1. ASSUME NEW o \in OKR, NEW c \in Cycle, NEW quarter \in Quarter \cup {None},
             NEW keyResults \in SUBSET KeyResult, CreateOKR(r, c, o, quarter, keyResults)
      PROVE  Began(r)
  BY <1>1, CreateOKRBegins
<1>2. ASSUME NEW o \in OKR, NEW patch \in Patch, UpdateOKR(r, o, patch) PROVE Began(r)
  BY <1>2, UpdateBegins DEF UpdateOKR, Named
<1>3. ASSUME NEW o \in OKR, DeleteOKR(r, o) PROVE Began(r)
  BY <1>3, DeleteAllBegins, KindsApart DEF DeleteOKR, Goal
<1>4. ASSUME NEW kr \in KeyResult, NEW patch \in Patch, UpdateKeyResult(r, kr, patch) PROVE Began(r)
  BY <1>4, UpdateBegins DEF UpdateKeyResult, Named
<1> QED
  BY <1>1, <1>2, <1>3, <1>4 DEF OKRs

LEMMA GoalsBegin == ASSUME IInv, NEW r \in Request, Goals(r) PROVE Began(r)
<1>1. ASSUME NEW g \in Goal, NEW patch \in Patch, UpdateGoal(r, g, patch) PROVE Began(r)
  BY <1>1, UpdateBegins DEF UpdateGoal, Named, Goal
<1>2. ASSUME NEW g \in Goal, NEW i, i \in GoalEntry \cup Team, NEW owner \in User \cup {None}
      PROVE  LET rec == New(i, OfGoal(g, i), g, owner).rec IN
             /\ rec \in Record /\ rec.sk = <<"GOAL", g, i>> /\ rec.parent = g
             /\ New(i, OfGoal(g, i), g, owner) = [id |-> i, rec |-> rec]
  <2>1. OfGoal(g, i) \in Seq(Elem)
    BY <1>2 DEF OfGoal, Elem, Named, Goal
  <2> QED
    BY <2>1, NewIsRecord DEF New, OfGoal
<1>3. ASSUME NEW g \in Goal, NEW e \in GoalEntry, AddGoalSubItem(r, g, e) PROVE Began(r)
  <2> DEFINE rec == New(e, OfGoal(g, e), g, None).rec
  <2>1. /\ rec \in Record /\ rec.sk = <<"GOAL", g, e>> /\ rec.parent = g
        /\ New(e, OfGoal(g, e), g, None) = [id |-> e, rec |-> rec]
    BY <1>2
  <2>2. Present(g) /\ Create(r, g, <<[id |-> e, rec |-> rec]>>)
    BY <1>3, <2>1 DEF AddGoalSubItem, AddGoalValueEntry
  <2> HIDE DEF rec
  <2>3. Placed(e, rec)
    BY <2>1, KindsApart DEF Placed, OfGoal
  <2>4. Range(rec.sk) \cap Named \subseteq {g, e}
    BY <2>1, RangeOfKey, KindsApart
  <2> QED
    BY <2>1, <2>2, <2>3, <2>4, AttachedBegins
<1>4. ASSUME NEW g \in Goal, NEW t \in Team, TagTeamToGoal(r, g, t) PROVE Began(r)
  <2> DEFINE i == <<g, t>>
             rec == New(i, OfGoal(g, t), g, None).rec
  <2>1. i \in Tag /\ i[1] = g /\ i[2] = t
    BY DEF Tag
  <2>2. rec \in Record /\ rec.sk = <<"GOAL", g, t>> /\ New(i, OfGoal(g, t), g, None) = [id |-> i, rec |-> rec]
    <3>1. OfGoal(g, t) \in Seq(Elem)
      BY DEF OfGoal, Elem, Named, Goal
    <3> QED
      BY <3>1, NewIsRecord DEF New, OfGoal
  <2>3. Present(g) /\ Create(r, g, <<[id |-> i, rec |-> rec]>>)
    BY <1>4, <2>2 DEF TagTeamToGoal
  <2>4. rec = New(i, OfGoal(i[1], i[2]), i[1], None).rec
    BY <2>1
  <2> HIDE DEF rec, i
  <2>5. Placed(i, rec)
    BY <2>1, <2>4, KindsApart DEF Placed
  <2>6. Range(rec.sk) \cap Named \subseteq {g, i}
    BY <2>2, RangeOfKey, KindsApart
  <2> QED
    BY <2>1, <2>2, <2>3, <2>5, <2>6, AttachedBegins
<1>5. ASSUME NEW g \in Goal, NEW t \in Team, RemoveGoalTeam(r, g, t) PROVE Began(r)
  <2>1. <<g, t>> \in Id /\ <<g, t>> \notin Cycle \cup OKR
    BY KindsApart DEF Id, Tag
  <2> QED
    BY <1>5, <2>1, DeleteBegins DEF RemoveGoalTeam
<1>6. ASSUME NEW e \in GoalEntry, NEW patch \in Patch, UpdateSubItem(r, e, patch) PROVE Began(r)
  BY <1>6, UpdateBegins DEF UpdateSubItem, Named
<1>7. ASSUME NEW e \in GoalEntry, DeleteSubItem(r, e) PROVE Began(r)
  BY <1>7, DeleteBegins, KindsApart DEF DeleteSubItem, Named, Id
<1> QED
  BY <1>1, <1>3, <1>4, <1>5, <1>6, <1>7 DEF Goals

LEMMA GoalTasksBegin == ASSUME IInv, NEW r \in Request, GoalTasks(r) PROVE Began(r)
<1>1. PICK g \in Goal, x \in Task, user \in User :
        \/ CreateGoalTask(r, g, x, user)
        \/ \E patch \in Patch : UpdateGoalTask(r, g, x, user, patch)
        \/ DeleteGoalTask(r, g, x, user)
  BY DEF GoalTasks
<1>2. x \in Named /\ x \in Id /\ x \notin Cycle \cup OKR
  BY KindsApart DEF Named, Id
<1>3. CASE CreateGoalTask(r, g, x, user)
  <2> DEFINE rec == New(x, OfGoal(g, x), g, user).rec
  <2>1. /\ rec \in Record /\ rec.sk = <<"GOAL", g, x>> /\ rec.parent = g
        /\ New(x, OfGoal(g, x), g, user) = [id |-> x, rec |-> rec]
    <3>1. OfGoal(g, x) \in Seq(Elem)
      BY DEF OfGoal, Elem, Named, Goal
    <3> QED
      BY <3>1, NewIsRecord DEF New, OfGoal
  <2>2. Present(g) /\ Create(r, g, <<[id |-> x, rec |-> rec]>>)
    BY <1>3, <2>1 DEF CreateGoalTask
  <2> HIDE DEF rec
  <2>3. Placed(x, rec)
    BY <2>1, KindsApart DEF Placed, OfGoal
  <2>4. Range(rec.sk) \cap Named \subseteq {g, x}
    BY <2>1, RangeOfKey, KindsApart
  <2> QED
    BY <2>1, <2>2, <2>3, <2>4, AttachedBegins
<1>4. CASE \E patch \in Patch : UpdateGoalTask(r, g, x, user, patch)
  BY <1>2, <1>4, UpdateBegins DEF UpdateGoalTask
<1>5. CASE DeleteGoalTask(r, g, x, user)
  BY <1>2, <1>5, DeleteBegins DEF DeleteGoalTask
<1> QED
  BY <1>1, <1>3, <1>4, <1>5

LEMMA HandlerBegins == ASSUME IInv, NEW r \in Request, HandleWithGroup(r) PROVE Began(r)
BY CyclesBegin, QuartersBegin, MeetingNotesBegin, KPIsBegin, OKRsBegin, GoalsBegin, GoalTasksBegin
   DEF HandleWithGroup
-----------------------------------------------------------------------------
(* What each call of a request does to it.                                 *)

\* The request r goes on as q.
Goes(r, q) == q \in InFlight /\ Shape(q) /\ req' = [req EXCEPT ![r] = q]

DidPut(r, p) ==
    /\ p \in Puts(r) /\ table' = [table EXCEPT ![p.id] = p.rec] /\ UNCHANGED <<created, faults>>
    /\ req[r].dels = {} /\ req[r].then = "end"
    /\ \E q : /\ Goes(r, q) /\ q.dels = {} /\ q.then = "end"
              /\ q = Idle \/ (q.target = req[r].target /\ q.puts # <<>>)
              /\ \A x \in Range(q.puts) : x \in Puts(r) /\ x.id # p.id /\ x.id \in KeyResult \cup {q.target}
              /\ \A x \in Puts(r) : x = p \/ x \in Range(q.puts)

DidDelete(r, i) ==
    /\ i \in req[r].dels /\ table' = [table EXCEPT ![i] = None] /\ UNCHANGED <<created, faults>>
    /\ req[r].puts = <<>>
    /\ \E q : /\ Goes(r, q) /\ q.puts = <<>> /\ q.dels = req[r].dels \ {i}
              /\ q = Idle \/ (q.target = req[r].target /\ q.then = req[r].then /\ q.at = req[r].at)

DidQuery(r) ==
    /\ req[r].puts = <<>> /\ req[r].dels = {} /\ req[r].then # "end" /\ UNCHANGED <<table, created, faults>>
    /\ \E q : /\ Goes(r, q) /\ q.puts = <<>> /\ q.dels = Related(req[r]) /\ q.then = After[req[r].then]
              /\ q.target = req[r].target /\ q.at = req[r].at

DidFail(r) ==
    /\ faults' > faults /\ req'[r] # req[r] /\ UNCHANGED <<table, created>>
    /\ \E q : /\ Goes(r, q) /\ q.puts = <<>> /\ q.dels \subseteq req[r].dels
              /\ q = Idle \/ (q.target = req[r].target /\ q.target \in Goal /\ q.then = "record")

LEMMA ElementsOf == \A S, s : s \in Seq(S) => Range(s) \subseteq S
<1> SUFFICES ASSUME NEW S, NEW s \in Seq(S), NEW n \in DOMAIN s PROVE s[n] \in S
  BY DEF Range
<1> QED
  OBVIOUS

LEMMA TailIs ==
    ASSUME NEW S, NEW s \in Seq(S), s # <<>>
    PROVE  /\ Tail(s) \in Seq(S) /\ 1 \in DOMAIN s /\ Head(s) = s[1] /\ Head(s) \in Range(s)
           /\ \A n \in DOMAIN Tail(s) : n \in Nat /\ n > 0 /\ n + 1 \in DOMAIN s /\ Tail(s)[n] = s[n + 1]
           /\ \A n \in DOMAIN s : n = 1 \/ (n - 1 \in DOMAIN Tail(s) /\ Tail(s)[n - 1] = s[n])
<1>1. Len(s) \in Nat \ {0} /\ DOMAIN s = 1..Len(s) /\ Tail(s) \in Seq(S) /\ Head(s) = s[1]
  OBVIOUS
<1>2. Len(Tail(s)) = Len(s) - 1 /\ DOMAIN Tail(s) = 1..Len(Tail(s))
  BY <1>1
<1>3. \A n \in 1..(Len(s) - 1) : Tail(s)[n] = s[n + 1]
  BY <1>1
<1>4. Head(s) \in Range(s)
  BY <1>1 DEF Range
<1> QED
  BY <1>1, <1>2, <1>3, <1>4

LEMMA RequestIs ==
    ASSUME IInv, NEW r \in Request
    PROVE  /\ req[r] \in InFlight /\ Shape(req[r]) /\ req[r].puts \in Seq([id : Id, rec : Record])
           /\ \A p \in Puts(r) : p.id \in Id /\ p.rec \in Record /\ p.rec.sk \in Seq(Elem)
                                 /\ Placed(p.id, p.rec) /\ Known(p.rec.sk)
           /\ Puts(r) # {} => req[r].puts # <<>>
           /\ req[r].puts = <<>> => Puts(r) = {}
           /\ req[r].dels \subseteq Id
           /\ req[r].target \in Id \cup {None}
           /\ req[r].target \in Named => req[r].target \in created
<1>1. /\ req[r] \in InFlight /\ Shape(req[r]) /\ req[r].puts \in Seq([id : Id, rec : Record])
      /\ req[r].dels \subseteq Id /\ req[r].target \in Id \cup {None}
      /\ req[r].target \in Named => req[r].target \in created
  BY DEF IInv, TypeOK, InFlight, Filed
<1>2. \A p \in Puts(r) : Placed(p.id, p.rec) /\ Known(p.rec.sk)
  BY DEF IInv, Filed
<1>3. \A p \in Puts(r) : p \in [id : Id, rec : Record]
  BY <1>1, ElementsOf DEF Puts
<1>4. \A rec \in Record : rec.sk \in Seq(Elem)
  BY DEF Record, Elem
<1>5. (Puts(r) # {} => req[r].puts # <<>>) /\ (req[r].puts = <<>> => Puts(r) = {})
  BY <1>1 DEF Puts, Range
<1> QED
  BY <1>1, <1>2, <1>3, <1>4, <1>5

LEMMA IdlePuts ==
    /\ Range(Idle.puts) = {} /\ Idle.puts = <<>> /\ Idle.dels = {}
    /\ Idle.target = None /\ Idle.then = "end"
BY DEF Idle, Range

\* What is left of the puts once the first is done.
LEMMA RestOfPuts ==
    ASSUME NEW old \in InFlight, Shape(old), old.puts # <<>>,
           NEW next \in InFlight, next.puts = Tail(old.puts), next.target = old.target,
           next.dels = old.dels, next.then = old.then
    PROVE  /\ old.dels = {} /\ old.then = "end" /\ Head(old.puts) \in Range(old.puts)
           /\ next.puts # <<>> => Shape(next)
           /\ \A x \in Range(next.puts) : /\ x \in Range(old.puts) /\ x.id # Head(old.puts).id
                                          /\ x.id \in KeyResult \cup {old.target}
           /\ \A x \in Range(old.puts) : x = Head(old.puts) \/ x \in Range(next.puts)
<1> DEFINE Put == [id : Id, rec : Record]
<1>1. old.puts \in Seq(Put) /\ old.dels = {} /\ old.then = "end"
  BY DEF InFlight, Shape
<1> HIDE DEF Put
<1>2. PICK s \in Seq(Put) : s = old.puts /\ s # <<>>
  BY <1>1
<1>3. /\ Tail(s) \in Seq(Put) /\ 1 \in DOMAIN s /\ Head(s) = s[1] /\ Head(s) \in Range(s)
      /\ \A n \in DOMAIN Tail(s) : n \in Nat /\ n > 0 /\ n + 1 \in DOMAIN s /\ Tail(s)[n] = s[n + 1]
      /\ \A n \in DOMAIN s : n = 1 \/ (n - 1 \in DOMAIN Tail(s) /\ Tail(s)[n - 1] = s[n])
  BY <1>2, TailIs
<1>4. PICK t \in Seq(Put) : t = Tail(s)
  BY <1>3
<1>5. next.dels = {} /\ next.then = "end" /\ next.puts = t
  BY <1>1, <1>2, <1>4
<1>6. /\ \A m, n \in DOMAIN s : s[m].id = s[n].id => m = n
      /\ \A n \in DOMAIN s : n > 1 => s[n].id \in KeyResult \cup {old.target}
  BY <1>2 DEF Shape
<1>7. ASSUME NEW n \in DOMAIN t
      PROVE  t[n] \in Range(s) /\ t[n].id # Head(s).id /\ t[n].id \in KeyResult \cup {old.target}
  <2>1. n \in Nat /\ n > 0 /\ n + 1 \in DOMAIN s /\ t[n] = s[n + 1] /\ n + 1 > 1 /\ n + 1 # 1
    BY <1>3, <1>4
  <2> QED
    BY <1>3, <1>6, <2>1 DEF Range
<1>8. \A x \in Range(t) : x \in Range(s) /\ x.id # Head(s).id /\ x.id \in KeyResult \cup {old.target}
  BY <1>7 DEF Range
<1>9. \A x \in Range(s) : x = Head(s) \/ x \in Range(t)
  <2> SUFFICES ASSUME NEW n \in DOMAIN s PROVE s[n] = Head(s) \/ s[n] \in Range(t)
    BY DEF Range
  <2>1. n = 1 \/ (n - 1 \in DOMAIN t /\ t[n - 1] = s[n])
    BY <1>3, <1>4
  <2> QED
    BY <1>3, <2>1 DEF Range
<1>10. ASSUME NEW m \in DOMAIN t, NEW n \in DOMAIN t, t[m].id = t[n].id PROVE m = n
  <2>1. /\ m \in Nat /\ m + 1 \in DOMAIN s /\ t[m] = s[m + 1]
        /\ n \in Nat /\ n + 1 \in DOMAIN s /\ t[n] = s[n + 1]
    BY <1>3, <1>4
  <2>2. m + 1 = n + 1
    BY <1>6, <1>10, <2>1
  <2> QED
    BY <2>1, <2>2
<1>11. next.puts # <<>> => Shape(next)
  <2>1. \A m, n \in DOMAIN t : t[m].id = t[n].id => m = n
    BY <1>10
  <2>2. \A n \in DOMAIN t : n > 1 => t[n].id \in KeyResult \cup {old.target}
    BY <1>7
  <2>3. /\ \A m, n \in DOMAIN next.puts : next.puts[m].id = next.puts[n].id => m = n
        /\ \A n \in DOMAIN next.puts : n > 1 => next.puts[n].id \in KeyResult \cup {next.target}
    BY <1>5, <2>1, <2>2
  <2>4. t # <<>> => Shape(next)
    BY <1>5, <2>3 DEF Shape
  <2> QED
    BY <1>5, <2>4
<1> QED
  BY <1>1, <1>2, <1>3, <1>4, <1>5, <1>8, <1>9, <1>11

LEMMA PutDoes ==
    ASSUME IInv, NEW r \in Request, putRecord(r)
    PROVE  \E p : DidPut(r, p) /\ p = Head(req[r].puts)
<1>1. PICK old \in InFlight : old = req[r] /\ Shape(old) /\ old.puts # <<>>
  BY RequestIs DEF putRecord
<1>2. PICK next : next = [old EXCEPT !.puts = Tail(@)]
  OBVIOUS
<1>3. PICK p : p = Head(old.puts)
  OBVIOUS
<1>4. /\ next \in InFlight /\ next.target = old.target /\ next.dels = {} /\ next.then = "end"
      /\ old.dels = {} /\ old.then = "end"
      /\ p \in Range(old.puts)
      /\ next.puts # <<>> => Shape(next)
      /\ \A x \in Range(next.puts) : /\ x \in Range(old.puts) /\ x.id # p.id
                                     /\ x.id \in KeyResult \cup {old.target}
      /\ \A x \in Range(old.puts) : x = p \/ x \in Range(next.puts)
  <2>1. /\ old.puts \in Seq([id : Id, rec : Record])
        /\ Tail(old.puts) \in Seq([id : Id, rec : Record])
    BY <1>1 DEF InFlight
  <2>2. /\ next \in InFlight /\ next.target = old.target /\ next.dels = old.dels /\ next.then = old.then
        /\ next.puts = Tail(old.puts)
    BY <1>2, <2>1 DEF InFlight
  <2>3. /\ old.dels = {} /\ old.then = "end" /\ Head(old.puts) \in Range(old.puts)
        /\ next.puts # <<>> => Shape(next)
        /\ \A x \in Range(next.puts) : /\ x \in Range(old.puts) /\ x.id # Head(old.puts).id
                                       /\ x.id \in KeyResult \cup {old.target}
        /\ \A x \in Range(old.puts) : x = Head(old.puts) \/ x \in Range(next.puts)
    BY <1>1, <2>2, RestOfPuts
  <2> QED
    BY <1>3, <2>2, <2>3
<1>5. /\ table' = [table EXCEPT ![p.id] = p.rec] /\ UNCHANGED <<created, faults>>
      /\ req' = [req EXCEPT ![r] = IF next.puts = <<>> /\ next.dels = {} /\ next.then = "end"
                                     THEN Idle ELSE next]
  BY <1>1, <1>2, <1>3 DEF putRecord, Continue
<1>6. CASE next.puts = <<>>
  <2>1. Goes(r, Idle)
    BY <1>4, <1>5, <1>6, IdleStarts DEF Goes
  <2>2. \A x \in Range(old.puts) : x = p
    BY <1>4, <1>6 DEF Range
  <2> QED
    BY <1>1, <1>3, <1>4, <1>5, <2>1, <2>2, IdlePuts DEF DidPut, Puts
<1>7. CASE next.puts # <<>>
  <2>1. Goes(r, next)
    BY <1>4, <1>5, <1>7 DEF Goes
  <2> QED
    BY <1>1, <1>3, <1>4, <1>5, <1>7, <2>1 DEF DidPut, Puts
<1> QED
  BY <1>6, <1>7

LEMMA DeleteDoes ==
    ASSUME IInv, NEW r \in Request, deleteRecord(r)
    PROVE  \E i \in Id : DidDelete(r, i)
<1>1. PICK old \in InFlight : old = req[r] /\ Shape(old)
  BY RequestIs
<1>2. PICK i \in NextDeleted(r) : table' = [table EXCEPT ![i] = None]
                                 /\ Continue(r, [req[r] EXCEPT !.dels = @ \ {i}])
                                 /\ UNCHANGED <<created, faults>>
  BY DEF deleteRecord
<1>3. i \in old.dels /\ i \in Id
  BY <1>1, <1>2 DEF NextDeleted, InFlight
<1>4. PICK next : next = [old EXCEPT !.dels = @ \ {i}]
  OBVIOUS
<1>5. /\ next \in InFlight /\ next.target = old.target /\ next.dels = old.dels \ {i} /\ next.then = old.then
      /\ next.at = old.at /\ next.puts = old.puts
  BY <1>4 DEF InFlight
<1>6. old.puts = <<>>
  BY <1>1, <1>3 DEF Shape
<1>7. Shape(next)
  BY <1>1, <1>5, <1>6 DEF Shape
<1>8. req' = [req EXCEPT ![r] = IF next.puts = <<>> /\ next.dels = {} /\ next.then = "end"
                                  THEN Idle ELSE next]
  BY <1>1, <1>2, <1>4 DEF Continue
<1>9. CASE next.dels = {} /\ next.then = "end"
  <2>1. Goes(r, Idle)
    BY <1>5, <1>6, <1>8, <1>9, IdleStarts DEF Goes
  <2> QED
    BY <1>1, <1>2, <1>3, <1>5, <1>6, <1>9, <2>1, IdlePuts DEF DidDelete
<1>10. CASE ~(next.dels = {} /\ next.then = "end")
  <2>1. Goes(r, next)
    BY <1>5, <1>7, <1>8, <1>10 DEF Goes
  <2> QED
    BY <1>1, <1>2, <1>3, <1>5, <1>6, <2>1 DEF DidDelete
<1> QED
  BY <1>9, <1>10

LEMMA StrictlyAgrees ==
    ASSUME NEW S, NEW s \in Seq(S), NEW t \in Seq(S)
    PROVE  IsStrictPrefix(s, t) <=> Len(s) < Len(t) /\ \A n \in 1..Len(s) : s[n] = t[n]
<1>1. IsPrefix(s, t) <=> Len(s) <= Len(t) /\ \A n \in 1..Len(s) : s[n] = t[n]
  BY PrefixAgrees
<1>2. ASSUME Len(s) = Len(t), \A n \in 1..Len(s) : s[n] = t[n] PROVE s = t
  <2>1. s = [n \in 1..Len(s) |-> s[n]] /\ t = [n \in 1..Len(t) |-> t[n]]
    OBVIOUS
  <2> QED
    BY <1>2, <2>1
<1> QED
  BY <1>1, <1>2 DEF IsStrictPrefix

\* Nothing but the record itself is a cycle or an OKR, unless a cycle is deleted.
LEMMA RelatedIs ==
    ASSUME IInv, NEW r \in Request, req[r].puts = <<>>, req[r].then # "end"
    PROVE  /\ Related(req[r]) \subseteq Id
           /\ \A i \in Related(req[r]) \cap (Cycle \cup OKR) :
                 i = req[r].target \/ (req[r].target \in Cycle /\ i \in OKR)
           /\ req[r].then \in {"related", "subs", "below", "record"}
           /\ After[req[r].then] = CASE req[r].then = "related" -> "record"
                                     [] req[r].then = "subs" -> "below"
                                     [] req[r].then = "below" -> "record"
                                     [] req[r].then = "record" -> "end"
<1>1. PICK q \in InFlight : q = req[r] /\ Shape(q) /\ q.puts = <<>> /\ q.then # "end"
  BY RequestIs
<1>2. q.target \in Id /\ q.then \in {"related", "subs", "below", "record"}
  BY <1>1 DEF Shape, InFlight
<1>3. After[q.then] = CASE q.then = "related" -> "record" [] q.then = "subs" -> "below"
                        [] q.then = "below" -> "record" [] q.then = "record" -> "end"
  BY <1>2 DEF After
<1>4. \A i \in Below(q.at) : i \in Id /\ Present(i) /\ IsStrictPrefix(q.at, table[i].sk)
  BY DEF Below
<1>5. q.at \in Seq(Tree) => \A i \in Below(q.at) \cap (Cycle \cup OKR) : Len(q.at) < Len(table[i].sk)
  <2> SUFFICES ASSUME q.at \in Seq(Tree), NEW i \in Below(q.at), i \in Cycle \cup OKR
               PROVE  Len(q.at) < Len(table[i].sk)
    OBVIOUS
  <2>1. i \in Tree
    BY DEF Tree
  <2>2. table[i] \in Record /\ Placed(i, table[i])
    BY <1>4, TargetIsFiled
  <2>3. table[i].sk \in Seq(Tree)
    BY <2>1, <2>2, KeyOfTree
  <2> QED
    BY <1>4, <2>3, StrictlyAgrees
<1>6. \A i \in Below(q.at) : i \in Cycle => Len(table[i].sk) = 1
  <2> SUFFICES ASSUME NEW i \in Below(q.at), i \in Cycle PROVE Len(table[i].sk) = 1
    OBVIOUS
  <2>1. table[i].sk = <<i>>
    BY <1>4, TargetIsFiled DEF Placed
  <2> QED
    BY <2>1
<1>7. \A i \in Below(q.at) : i \in OKR => Len(table[i].sk) = 2
  <2> SUFFICES ASSUME NEW i \in Below(q.at), i \in OKR PROVE Len(table[i].sk) = 2
    OBVIOUS
  <2>1. \E c \in Cycle : table[i].sk = <<c, i>>
    BY <1>4, TargetIsFiled DEF Placed
  <2> QED
    BY <2>1
<1>8. CASE q.then = "related"
  <2>1. q.target \in Cycle /\ q.at = <<q.target>>
    BY <1>1, <1>8 DEF Shape
  <2>2. q.at \in Seq(Tree) /\ Len(q.at) = 1
    BY <2>1 DEF Tree
  <2>3. \A i \in Below(q.at) : i \notin Cycle
    <3> SUFFICES ASSUME NEW i \in Below(q.at), i \in Cycle PROVE FALSE
      OBVIOUS
    <3>1. 1 < Len(table[i].sk)
      BY <1>5, <2>2
    <3>2. Len(table[i].sk) = 1
      BY <1>6
    <3> QED
      BY <3>1, <3>2
  <2>4. Related(q) = Below(q.at) \cup {i \in {q.target} : Present(i)}
    BY <1>8 DEF Related
  <2> QED
    BY <1>1, <1>2, <1>3, <1>4, <2>1, <2>3, <2>4
<1>9. CASE q.then = "subs"
  <2>1. Related(q) \subseteq KPI
    BY <1>9 DEF Related
  <2> QED
    BY <1>1, <1>2, <1>3, <2>1, KindsApart DEF Id, Named
<1>10. CASE q.then = "below"
  <2>1. q.at \in Seq(Tree) /\ Len(q.at) = 2
    BY <1>1, <1>10 DEF Shape
  <2>2. \A i \in Below(q.at) : i \notin Cycle \cup OKR
    BY <1>5, <1>6, <1>7, <2>1
  <2>3. Related(q) = Below(q.at)
    BY <1>10 DEF Related
  <2> QED
    BY <1>1, <1>2, <1>3, <1>4, <2>2, <2>3
<1>11. CASE q.then = "record"
  <2>1. Related(q) = {q.target}
    BY <1>11 DEF Related
  <2> QED
    BY <1>1, <1>2, <1>3, <2>1
<1> QED
  BY <1>2, <1>8, <1>9, <1>10, <1>11

LEMMA QueryDoes ==
    ASSUME IInv, NEW r \in Request, queryByOrgPrefix(r)
    PROVE  DidQuery(r)
<1>1. PICK old \in InFlight : old = req[r] /\ Shape(old)
  BY RequestIs
<1>2. old.puts = <<>> /\ old.dels = {} /\ old.then # "end" /\ UNCHANGED <<table, created, faults>>
  BY <1>1 DEF queryByOrgPrefix
<1>3. PICK found, then : found = Related(old) /\ then = After[old.then]
  OBVIOUS
<1>4. /\ found \subseteq Id
      /\ \A i \in found \cap (Cycle \cup OKR) : i = old.target \/ (old.target \in Cycle /\ i \in OKR)
      /\ old.then \in {"related", "subs", "below", "record"}
      /\ then = CASE old.then = "related" -> "record" [] old.then = "subs" -> "below"
                  [] old.then = "below" -> "record" [] old.then = "record" -> "end"
  BY <1>1, <1>2, <1>3, RelatedIs
<1>5. PICK next : next = [old EXCEPT !.dels = found, !.then = then]
  OBVIOUS
<1>6. /\ next \in InFlight /\ next.target = old.target /\ next.at = old.at /\ next.puts = <<>>
      /\ next.dels = found /\ next.then = then
  BY <1>2, <1>4, <1>5 DEF InFlight
<1>7. then = "end" => found # {}
  BY <1>1, <1>3, <1>4 DEF Related
<1>8. Shape(next)
  <2>1. old.then = "subs" => old.target \in KPI /\ old.at \in Seq(Tree) /\ Len(old.at) = 2
    BY <1>1 DEF Shape
  <2>2. old.target \in Id /\ (old.target \in Cycle => old.at = <<old.target>>)
    BY <1>1, <1>2 DEF Shape
  <2> QED
    BY <1>4, <1>6, <2>1, <2>2 DEF Shape, Goal
<1>9. req' = [req EXCEPT ![r] = next]
  <2>1. req' = [req EXCEPT ![r] = IF next.puts = <<>> /\ next.dels = {} /\ next.then = "end"
                                    THEN Idle ELSE next]
    BY <1>1, <1>3, <1>5 DEF queryByOrgPrefix, Continue
  <2> QED
    BY <1>6, <1>7, <2>1
<1>10. Goes(r, next)
  BY <1>6, <1>8, <1>9 DEF Goes
<1> QED
  BY <1>1, <1>2, <1>3, <1>6, <1>10 DEF DidQuery

LEMMA FailDoes ==
    ASSUME IInv, NEW r \in Request, Fail(r)
    PROVE  DidFail(r)
<1>1. PICK old \in InFlight : old = req[r] /\ Shape(old)
  BY RequestIs
<1>2. faults \in Nat /\ faults' = faults + 1 /\ UNCHANGED <<table, created>>
  BY DEF Fail, IInv, TypeOK
<1>3. req \in [Request -> InFlight]
  BY DEF IInv, TypeOK
<1>4. CASE FailedDelete(r)
  <2>1. PICK i \in NextDeleted(r) : Continue(r, [req[r] EXCEPT !.dels = @ \ {i}])
    BY <1>4 DEF FailedDelete
  <2>2. i \in old.dels /\ old.target \in Goal /\ old.then = "record"
    BY <1>1, <1>4, <2>1 DEF NextDeleted, FailedDelete, Swallowed
  <2>3. PICK next : next = [old EXCEPT !.dels = @ \ {i}]
    OBVIOUS
  <2>4. /\ next \in InFlight /\ next.target = old.target /\ next.dels = old.dels \ {i} /\ next.then = old.then
        /\ next.at = old.at /\ next.puts = old.puts
    BY <2>3 DEF InFlight
  <2>5. old.puts = <<>>
    BY <1>1, <2>2 DEF Shape
  <2>6. Shape(next)
    BY <1>1, <2>4, <2>5 DEF Shape
  <2>7. req' = [req EXCEPT ![r] = next]
    BY <1>1, <2>1, <2>2, <2>3, <2>4 DEF Continue
  <2>8. Goes(r, next) /\ next # old
    BY <2>2, <2>4, <2>6, <2>7 DEF Goes
  <2> QED
    BY <1>1, <1>2, <1>3, <2>2, <2>4, <2>5, <2>7, <2>8 DEF DidFail
<1>5. CASE FailedQuery(r)
  <2>1. old.target \in Goal /\ old.then = "below" /\ old.dels = {}
    BY <1>1, <1>5 DEF FailedQuery
  <2>2. PICK next : next = [old EXCEPT !.then = "record"]
    OBVIOUS
  <2>3. /\ next \in InFlight /\ next.target = old.target /\ next.dels = {} /\ next.then = "record"
        /\ next.at = old.at /\ next.puts = old.puts
    BY <2>1, <2>2 DEF InFlight
  <2>4. old.puts = <<>>
    BY <1>1, <2>1 DEF Shape
  <2>5. Shape(next)
    BY <1>1, <2>1, <2>3, <2>4 DEF Shape
  <2>6. req' = [req EXCEPT ![r] = next]
    BY <1>1, <1>5, <2>2, <2>3 DEF FailedQuery, Continue
  <2>7. Goes(r, next) /\ next # old
    BY <2>1, <2>3, <2>5, <2>6 DEF Goes
  <2> QED
    BY <1>1, <1>2, <1>3, <2>1, <2>3, <2>4, <2>6, <2>7 DEF DidFail
<1>6. CASE GiveUp(r)
  <2>1. req' = [req EXCEPT ![r] = Idle] /\ old # Idle
    BY <1>1, <1>6 DEF GiveUp
  <2>2. Goes(r, Idle)
    BY <2>1, IdleStarts DEF Goes
  <2> QED
    BY <1>1, <1>2, <1>3, <2>1, <2>2, IdlePuts DEF DidFail
<1> QED
  BY <1>4, <1>5, <1>6 DEF Fail
-----------------------------------------------------------------------------
(* Every call keeps the invariant.                                         *)

LEMMA GoesOn ==
    ASSUME IInv, NEW r \in Request, NEW q, Goes(r, q)
    PROVE  /\ req' \in [Request -> InFlight] /\ (\A s \in Request : Shape(req'[s]))
           /\ req'[r] = q /\ \A s \in Request \ {r} : req'[s] = req[s]
BY DEF Goes, IInv, TypeOK

LEMMA TypesKept ==
    ASSUME IInv, NEW r \in Request, NEW q, Goes(r, q), created' \subseteq Named, faults' \in 0..MaxFaults,
           table' \in [Id -> Record \cup {None}]
    PROVE  TypeOK'
BY GoesOn DEF TypeOK

\* Where every record and every put is the same as before, or one was put.
LEMMA FiledKept ==
    ASSUME IInv, NEW r \in Request, NEW q, Goes(r, q), created \subseteq created',
           \A i \in Id : table'[i] # None => table'[i] = table[i] \/ (Placed(i, table'[i]) /\ Range(table'[i].sk) \cap Named \subseteq created'),
           \A p \in Range(q.puts) : Placed(p.id, p.rec) /\ Known(p.rec.sk)',
           q.target \in Named => q.target \in created'
    PROVE  Filed'
<1>1. \A sk : Known(sk) => Range(sk) \cap Named \subseteq created'
  BY DEF Known
<1>2. ASSUME NEW i \in Id, Present(i)' PROVE Placed(i, table'[i]) /\ Range(table'[i].sk) \cap Named \subseteq created'
  BY <1>1, <1>2 DEF IInv, Filed, Present, Known
<1>3. ASSUME NEW s \in Request, NEW p \in Range(req'[s].puts)
      PROVE  Placed(p.id, p.rec) /\ Range(p.rec.sk) \cap Named \subseteq created'
  BY <1>1, <1>3, GoesOn DEF IInv, Filed, Puts, Known
<1>4. ASSUME NEW s \in Request, req'[s].target \in Named PROVE req'[s].target \in created'
  BY <1>4, GoesOn DEF IInv, Filed
<1> QED
  BY <1>2, <1>3, <1>4 DEF Filed, Puts, Known

LEMMA BeginKeeps == ASSUME IInv, NEW r \in Request, Began(r) PROVE IInv'
<1>1. PICK q \in InFlight :
          /\ req' = [req EXCEPT ![r] = q] /\ Starts(q)
          /\ created \subseteq created' /\ created' \subseteq Named
          /\ \A p \in Range(q.puts) : Known(p.rec.sk)'
  BY DEF Began
<1>2. Goes(r, q) /\ UNCHANGED <<table, faults>>
  BY <1>1 DEF Goes, Starts, Began
<1>3. TypeOK'
  <2>1. table' \in [Id -> Record \cup {None}] /\ faults' \in 0..MaxFaults
    BY <1>2 DEF IInv, TypeOK
  <2> QED
    BY <1>1, <1>2, <2>1, TypesKept
<1>4. q.target \in Named => q.target \in created'
  BY <1>1, TargetIsFiled, NoneAssumption DEF Starts, Id
<1>5. \A p \in Range(q.puts) : Placed(p.id, p.rec)
  BY <1>1 DEF Starts, Fits
<1>6. Filed'
  BY <1>1, <1>2, <1>4, <1>5, FiledKept
<1> QED
  BY <1>2, <1>3, <1>6, GoesOn DEF IInv

LEMMA PutKeeps == ASSUME IInv, NEW r \in Request, NEW p, DidPut(r, p) PROVE IInv'
<1>1. PICK q : /\ Goes(r, q) /\ (q = Idle \/ q.target = req[r].target)
               /\ \A x \in Range(q.puts) : x \in Puts(r)
  BY DEF DidPut
<1>2. /\ p \in Puts(r) /\ p.id \in Id /\ p.rec \in Record /\ Placed(p.id, p.rec) /\ Known(p.rec.sk)
      /\ \A x \in Puts(r) : Placed(x.id, x.rec) /\ Known(x.rec.sk)
      /\ table' = [table EXCEPT ![p.id] = p.rec] /\ UNCHANGED <<created, faults>>
  BY RequestIs DEF DidPut
<1>3. TypeOK'
  <2>1. table' \in [Id -> Record \cup {None}] /\ created' \subseteq Named /\ faults' \in 0..MaxFaults
    BY <1>2 DEF IInv, TypeOK
  <2> QED
    BY <1>1, <2>1, TypesKept
<1>4. q.target \in Named => q.target \in created'
  BY <1>1, <1>2, RequestIs, IdlePuts, NoneAssumption DEF Id
<1>5. \A x \in Range(q.puts) : Placed(x.id, x.rec) /\ Known(x.rec.sk)'
  BY <1>1, <1>2 DEF Known
<1>6. \A i \in Id : table'[i] # None =>
         \/ table'[i] = table[i]
         \/ Placed(i, table'[i]) /\ Range(table'[i].sk) \cap Named \subseteq created'
  BY <1>2 DEF IInv, TypeOK, Known
<1>7. Filed'
  BY <1>1, <1>2, <1>4, <1>5, <1>6, FiledKept
<1> QED
  BY <1>1, <1>3, <1>7, GoesOn DEF IInv

LEMMA NothingPutKeeps ==
    ASSUME IInv, NEW r \in Request, NEW q, Goes(r, q), q.puts = <<>>,
           q = Idle \/ q.target = req[r].target, created' = created, faults' \in 0..MaxFaults,
           table' = table \/ \E i \in Id : table' = [table EXCEPT ![i] = None]
    PROVE  IInv'
<1>1. table' \in [Id -> Record \cup {None}] /\ \A i \in Id : table'[i] # None => table'[i] = table[i]
  BY DEF IInv, TypeOK
<1>2. TypeOK'
  <2>1. created' \subseteq Named
    BY DEF IInv, TypeOK
  <2> QED
    BY <1>1, <2>1, TypesKept
<1>3. q.target \in Named => q.target \in created'
  BY RequestIs, IdlePuts, NoneAssumption DEF Id
<1>4. Range(q.puts) = {}
  BY DEF Range
<1>5. Filed'
  BY <1>1, <1>3, <1>4, FiledKept
<1> QED
  BY <1>2, <1>5, GoesOn DEF IInv

LEMMA DeleteKeeps == ASSUME IInv, NEW r \in Request, NEW i \in Id, DidDelete(r, i) PROVE IInv'
<1>1. faults' \in 0..MaxFaults
  BY DEF DidDelete, IInv, TypeOK
<1> QED
  BY <1>1, NothingPutKeeps DEF DidDelete

LEMMA QueryKeeps == ASSUME IInv, NEW r \in Request, DidQuery(r) PROVE IInv'
<1>1. faults' \in 0..MaxFaults
  BY DEF DidQuery, IInv, TypeOK
<1> QED
  BY <1>1, NothingPutKeeps DEF DidQuery

LEMMA FailKeeps == ASSUME IInv, NEW r \in Request, DidFail(r), faults' \in 0..MaxFaults PROVE IInv'
BY NothingPutKeeps DEF DidFail

LEMMA InitInv == Init => IInv
<1> SUFFICES ASSUME Init PROVE IInv
  OBVIOUS
<1>1. \A r \in Request : req[r] = Idle
  BY DEF Init
<1>2. TypeOK
  BY IdleStarts, BoundAssumption DEF Init, TypeOK
<1>3. Filed
  BY <1>1, IdlePuts, NoneAssumption DEF Init, Filed, Present, Puts, Id
<1> QED
  BY <1>1, <1>2, <1>3, IdleStarts DEF IInv

LEMMA FaultsAreBounded == ASSUME IInv, NEW r \in Request, Fail(r) PROVE faults' \in 0..MaxFaults
BY BoundAssumption DEF Fail, IInv, TypeOK

\* A step of one request is one of five.
LEMMA StepIs ==
    ASSUME IInv, Next
    PROVE  \E r \in Request :
              \/ Began(r)
              \/ \E p : DidPut(r, p)
              \/ \E i \in Id : DidDelete(r, i)
              \/ DidQuery(r)
              \/ DidFail(r) /\ faults' \in 0..MaxFaults
<1>1. PICK r \in Request :
          HandleWithGroup(r) \/ putRecord(r) \/ deleteRecord(r) \/ queryByOrgPrefix(r) \/ Fail(r)
  BY DEF Next
<1>2. CASE HandleWithGroup(r)
  BY <1>2, HandlerBegins
<1>3. CASE putRecord(r)
  BY <1>3, PutDoes
<1>4. CASE deleteRecord(r)
  BY <1>4, DeleteDoes
<1>5. CASE queryByOrgPrefix(r)
  BY <1>5, QueryDoes
<1>6. CASE Fail(r)
  BY <1>6, FailDoes, FaultsAreBounded
<1> QED
  BY <1>1, <1>2, <1>3, <1>4, <1>5, <1>6

LEMMA StepKeepsInv == IInv /\ [Next]_vars => IInv'
<1> SUFFICES ASSUME IInv, [Next]_vars PROVE IInv'
  OBVIOUS
<1>1. CASE Next
  <2>1. PICK r \in Request :
              \/ Began(r)
              \/ \E p : DidPut(r, p)
              \/ \E i \in Id : DidDelete(r, i)
              \/ DidQuery(r)
              \/ DidFail(r) /\ faults' \in 0..MaxFaults
    BY <1>1, StepIs
  <2> QED
    BY <2>1, BeginKeeps, PutKeeps, DeleteKeeps, QueryKeeps, FailKeeps
<1>2. CASE UNCHANGED vars
  BY <1>2 DEF vars, IInv, TypeOK, Filed, Present, Puts, Known
<1> QED
  BY <1>1, <1>2

\* Every record in the table, read, about to be put or deleted has a record's
\* shape, and every id is one of the instance: putRecord, deleteRecord and
\* queryByOrgPrefix go on with what earlier calls of their request have read.
THEOREM TypeCorrect == Spec => []TypeOK
<1>1. IInv => TypeOK
  BY DEF IInv
<1> QED
  BY InitInv, StepKeepsInv, <1>1, PTL DEF Spec
-----------------------------------------------------------------------------
(* What the records hang from, as long as no two requests meet there.      *)

\* Whatever two requests are at work on is disturbed.
Apart == \A r, s \in Request : r # s => Touched(r) \cap Touched(s) \cap Id \subseteq disturbed

Clean(sk) == Range(sk) \cap disturbed = {}

\* A record is under the keys of those its key names.
Consistent(sk) == \A x \in Range(sk) : x \in Id /\ Present(x) => IsPrefix(table[x].sk, sk)

Rooted(i) == AboutToBeDeleted(i)
             \/ (Present(Head(table[i].sk)) /\ (i \in KeyResult => Present(table[i].parent)))

TableHangs == \A i \in Tree : Present(i) /\ Clean(table[i].sk) => Rooted(i) /\ Consistent(table[i].sk)

\* What is put for the target is what the table has, but for the change.
Current(r, p) == p.id = req[r].target /\ p.id \notin disturbed => Present(p.id) /\ IsPatch(table[p.id], p.rec)

\* Nothing hangs yet from a record that is still to be put.
IsNew(r, p) ==
    p.id # req[r].target /\ p.id \in Named \ disturbed =>
        /\ ~Present(p.id)
        /\ \A j \in Tree : Present(j) /\ Clean(table[j].sk) => p.id \notin Range(table[j].sk)

ParentIsThere(r, p) ==
    LET o == p.rec.parent IN
    \/ Present(o) /\ IsPrefix(table[o].sk, p.rec.sk)
    \/ \E m \in Puts(r) : m.id = o /\ IsPrefix(m.rec.sk, p.rec.sk)

\* What a put hangs from is there when it is put.
Hangs(r, p) ==
    p.id \in Tree /\ Clean(p.rec.sk) /\ req[r].target # None =>
        /\ req[r].target \in Range(p.rec.sk) /\ Present(req[r].target)
        /\ Present(Head(p.rec.sk))
        /\ Consistent(p.rec.sk)
        /\ p.id \in KeyResult => ParentIsThere(r, p)

Founds(r, p) == req[r].target = None => p.id \in Cycle

PutsHang == \A r \in Request : \A p \in Puts(r) :
                Current(r, p) /\ IsNew(r, p) /\ Hangs(r, p) /\ Founds(r, p)

Deleting(r) == req[r].puts = <<>> /\ req[r].then \in {"record", "end"}

\* The deletion of a cycle has found all there is under its key, and nothing is put
\* there any more.
CycleGoes(r) ==
    Deleting(r) /\ req[r].target \in Cycle =>
        /\ \A i \in Tree : Present(i) /\ Clean(table[i].sk) /\ Head(table[i].sk) = req[r].target
                              => i \in req[r].dels
        /\ \A s \in Request : \A p \in Puts(s) :
              p.id \in Tree /\ Clean(p.rec.sk) => Head(p.rec.sk) # req[r].target

OKRGoes(r) ==
    Deleting(r) /\ req[r].target \in OKR =>
        \A i \in KeyResult : Present(i) /\ Clean(table[i].sk) /\ table[i].parent = req[r].target
                                => i \in req[r].dels

OfItsCycle(r) ==
    req[r].target \in Cycle =>
        \A i \in req[r].dels \ disturbed : Present(i) => Head(table[i].sk) = req[r].target

Finds(r) ==
    req[r].target \in OKR \ disturbed /\ req[r].then = "below" =>
        Present(req[r].target) /\ table[req[r].target].sk = req[r].at

DeletionsReach == \A r \in Request : CycleGoes(r) /\ OKRGoes(r) /\ OfItsCycle(r) /\ Finds(r)

SInv == Apart /\ TableHangs /\ PutsHang /\ DeletionsReach

LEMMA KeyNotEmpty == \A k : Len(k) \in 1..3 => k # <<>>
<1> SUFFICES ASSUME NEW k, k = <<>>, Len(k) \in 1..3 PROVE FALSE
  OBVIOUS
<1>1. Len(k) = 0
  OBVIOUS
<1> QED
  BY <1>1

LEMMA PrefixOrder ==
    ASSUME NEW S, NEW s \in Seq(S), NEW t \in Seq(S), NEW u \in Seq(S)
    PROVE  /\ IsPrefix(s, s)
           /\ IsPrefix(s, t) /\ IsPrefix(t, u) => IsPrefix(s, u)
           /\ IsPrefix(s, t) /\ s # <<>> => Head(s) = Head(t) /\ Head(s) \in Range(t)
           /\ IsPrefix(s, t) => Range(s) \subseteq Range(t)
           /\ IsPrefix(s, t) /\ Len(s) < Len(t) => IsStrictPrefix(s, t)
<1>1. /\ IsPrefix(s, t) <=> Len(s) <= Len(t) /\ \A n \in 1..Len(s) : s[n] = t[n]
      /\ IsPrefix(t, u) <=> Len(t) <= Len(u) /\ \A n \in 1..Len(t) : t[n] = u[n]
      /\ IsPrefix(s, u) <=> Len(s) <= Len(u) /\ \A n \in 1..Len(s) : s[n] = u[n]
      /\ IsPrefix(s, s)
  BY PrefixAgrees
<1>2. Len(s) \in Nat /\ Len(t) \in Nat /\ Len(u) \in Nat
      /\ DOMAIN s = 1..Len(s) /\ DOMAIN t = 1..Len(t)
  OBVIOUS
<1>3. IsPrefix(s, t) /\ IsPrefix(t, u) => IsPrefix(s, u)
  BY <1>1, <1>2
<1>4. IsPrefix(s, t) => Range(s) \subseteq Range(t)
  BY <1>1, <1>2 DEF Range
<1>5. IsPrefix(s, t) /\ s # <<>> => Head(s) = Head(t) /\ Head(s) \in Range(t)
  <2> SUFFICES ASSUME IsPrefix(s, t), s # <<>> PROVE Head(s) = Head(t) /\ Head(s) \in Range(t)
    OBVIOUS
  <2>1. Len(s) > 0 /\ Head(s) = s[1] /\ 1 \in DOMAIN s
    OBVIOUS
  <2>2. s[1] = t[1] /\ 1 \in DOMAIN t /\ Head(t) = t[1]
    BY <1>1, <1>2, <2>1
  <2> QED
    BY <2>1, <2>2 DEF Range
<1>6. IsPrefix(s, t) /\ Len(s) < Len(t) => IsStrictPrefix(s, t)
  BY <1>1, StrictlyAgrees
<1> QED
  BY <1>1, <1>3, <1>4, <1>5, <1>6

\* The key of a record of a cycle, in the table.
LEMMA KeyInTable ==
    ASSUME IInv, NEW i \in Tree, Present(i)
    PROVE  /\ i \in Id /\ i \in Named /\ i # None
           /\ table[i].sk \in Seq(Tree) /\ Len(table[i].sk) \in 1..3 /\ table[i].sk # <<>>
           /\ Head(table[i].sk) \in Cycle /\ Head(table[i].sk) \in Range(table[i].sk)
           /\ i \in Range(table[i].sk) /\ Range(table[i].sk) \subseteq Tree
           /\ Range(table[i].sk) \subseteq created
           /\ \A x \in Range(table[i].sk) \cap Cycle : x = Head(table[i].sk)
           /\ i \in Cycle => Head(table[i].sk) = i
           /\ i \in KeyResult => /\ Len(table[i].sk) = 3 /\ table[i].parent \in OKR
                                 /\ table[i].parent \in Range(table[i].sk)
           /\ i \in OKR => Len(table[i].sk) = 2
           /\ i \notin Cycle => Len(table[i].sk) > 1
<1>1. i \in Id /\ i \in Named /\ i # None
  BY NoneAssumption DEF Id, Named, Tree
<1>2. table[i] \in Record /\ Placed(i, table[i]) /\ Range(table[i].sk) \subseteq created
  BY <1>1, TargetIsFiled
<1>3. PICK rec : rec = table[i]
  OBVIOUS
<1>4. rec \in Record /\ Placed(i, rec)
  BY <1>2, <1>3
<1>5. /\ rec.sk \in Seq(Tree) /\ Len(rec.sk) \in 1..3
      /\ Head(rec.sk) \in Cycle /\ Head(rec.sk) \in Range(rec.sk)
      /\ i \in Range(rec.sk) /\ Range(rec.sk) \subseteq Tree
      /\ \A x \in Range(rec.sk) \cap Cycle : x = Head(rec.sk)
      /\ i \in Cycle <=> Len(rec.sk) = 1
      /\ i \in Cycle => Head(rec.sk) = i
      /\ i \in KeyResult => Len(rec.sk) = 3 /\ rec.parent \in OKR /\ rec.parent \in Range(rec.sk)
      /\ i \in OKR => Len(rec.sk) = 2
  BY <1>4, KeyOfTree
<1>6. rec.sk # <<>>
  BY <1>5, KeyNotEmpty
<1>7. i \notin Cycle => Len(rec.sk) > 1
  BY <1>5
<1> QED
  BY <1>1, <1>2, <1>3, <1>5, <1>6, <1>7

\* And of one that is still to be put.
LEMMA KeyOfPut ==
    ASSUME IInv, NEW r \in Request, NEW p \in Puts(r), p.id \in Tree
    PROVE  /\ p.id \in Id /\ p.id \in Named /\ p.id # None
           /\ p.rec.sk \in Seq(Tree) /\ Len(p.rec.sk) \in 1..3 /\ p.rec.sk # <<>>
           /\ Head(p.rec.sk) \in Cycle /\ Head(p.rec.sk) \in Range(p.rec.sk)
           /\ p.id \in Range(p.rec.sk) /\ Range(p.rec.sk) \subseteq Tree
           /\ \A x \in Range(p.rec.sk) : x = p.id \/ x = Head(p.rec.sk) \/ x = p.rec.parent \/ x = p.rec.quarter
           /\ \A x \in Range(p.rec.sk) \cap Cycle : x = Head(p.rec.sk)
           /\ \A x \in Range(p.rec.sk) \cap KeyResult : x = p.id
           /\ p.id \in Cycle => Head(p.rec.sk) = p.id /\ p.rec.sk = <<p.id>>
           /\ p.id \in KeyResult => p.rec.parent \in OKR /\ p.rec.parent \in Range(p.rec.sk)
<1>1. p.id \in Id /\ p.id \in Named /\ p.id # None
  BY NoneAssumption DEF Id, Named, Tree
<1>2. p.rec \in Record /\ Placed(p.id, p.rec)
  BY RequestIs
<1>3. p.id \in Cycle => p.rec.sk = <<p.id>>
  BY <1>2 DEF Placed
<1>4. PICK i, rec : i = p.id /\ rec = p.rec
  OBVIOUS
<1>5. i \in Tree /\ rec \in Record /\ Placed(i, rec)
  BY <1>2, <1>4
<1>6. /\ rec.sk \in Seq(Tree) /\ Len(rec.sk) \in 1..3
      /\ Head(rec.sk) \in Cycle
      /\ Head(rec.sk) \in Range(rec.sk) /\ i \in Range(rec.sk) /\ Range(rec.sk) \subseteq Tree
      /\ \A x \in Range(rec.sk) : x = i \/ x = Head(rec.sk) \/ x = rec.parent \/ x = rec.quarter
      /\ \A x \in Range(rec.sk) \cap Cycle : x = Head(rec.sk)
      /\ \A x \in Range(rec.sk) \cap KeyResult : x = i
      /\ i \in Cycle => Head(rec.sk) = i
      /\ i \in KeyResult => rec.parent \in OKR /\ rec.parent \in Range(rec.sk)
  BY <1>5, KeyOfTree
<1>7. rec.sk # <<>>
  BY <1>6
<1> QED
  BY <1>1, <1>3, <1>4, <1>6, <1>7

LEMMA TreeIsNamed == Tree \subseteq Named /\ Tree \subseteq Id /\ Named \subseteq Id /\ None \notin Id
BY NoneAssumption DEF Tree, Named, Id

LEMMA TouchedIs ==
    ASSUME NEW r \in Request
    PROVE  /\ req[r].target \in Touched(r) /\ req[r].dels \subseteq Touched(r)
           /\ \A p \in Puts(r) : {p.id, p.rec.parent, p.rec.quarter} \subseteq Touched(r)
BY DEF Touched, Puts

LEMMA TouchedIsNext ==
    ASSUME NEW r \in Request
    PROVE  /\ req'[r].target \in Touched(r)' /\ req'[r].dels \subseteq Touched(r)'
           /\ \A p \in Range(req'[r].puts) : {p.id, p.rec.parent, p.rec.quarter} \subseteq Touched(r)'
BY DEF Touched

LEMMA DisturbedGrows == Remember => disturbed \subseteq disturbed'
BY DEF Remember

LEMMA Meeting ==
    ASSUME Remember, NEW r \in Request, NEW s \in Request, r # s, NEW x \in Id,
           x \in Touched(r)', x \in Touched(s)'
    PROVE  x \in disturbed'
<1>1. x \in Overlapping'
  BY DEF Overlapping
<1> QED
  BY <1>1 DEF Remember

LEMMA ApartKept == Remember => Apart'
<1> SUFFICES ASSUME Remember PROVE Apart'
  OBVIOUS
<1>1. ASSUME NEW r \in Request, NEW s \in Request, r # s, NEW x \in Id, x \in Touched(r)', x \in Touched(s)'
      PROVE  x \in disturbed'
  BY <1>1, Meeting
<1> QED
  BY <1>1 DEF Apart

-----------------------------------------------------------------------------
(* A request begins.                                                       *)

\* Where the table is as before, so is what a request at rest puts.
LEMMA PutsStay ==
    ASSUME PutsHang, Remember, table' = table, NEW s \in Request, req'[s] = req[s], NEW p \in Puts(s)
    PROVE  (Current(s, p) /\ IsNew(s, p) /\ Hangs(s, p) /\ Founds(s, p))'
<1>1. Current(s, p) /\ IsNew(s, p) /\ Hangs(s, p) /\ Founds(s, p)
  BY DEF PutsHang
<1>2. disturbed \subseteq disturbed'
  BY DisturbedGrows
<1>3. Current(s, p)'
  BY <1>1, <1>2 DEF Current, Present
<1>4. IsNew(s, p)'
  BY <1>1, <1>2 DEF IsNew, Present, Clean
<1>5. Hangs(s, p)'
  BY <1>1, <1>2 DEF Hangs, Present, Clean, Consistent, ParentIsThere, Puts
<1>6. Founds(s, p)'
  BY <1>1 DEF Founds
<1> QED
  BY <1>3, <1>4, <1>5, <1>6

\* And what a request at rest is deleting, but for the puts of others.
LEMMA DeletionsStay ==
    ASSUME DeletionsReach, Remember, table' = table, NEW s \in Request, req'[s] = req[s]
    PROVE  /\ (OKRGoes(s) /\ OfItsCycle(s) /\ Finds(s))'
           /\ Deleting(s)' /\ req[s].target \in Cycle =>
                 \A i \in Tree : Present(i)' /\ Clean(table[i].sk)' /\ Head(table'[i].sk) = req[s].target
                                    => i \in req'[s].dels
<1>1. CycleGoes(s) /\ OKRGoes(s) /\ OfItsCycle(s) /\ Finds(s)
  BY DEF DeletionsReach
<1>2. disturbed \subseteq disturbed'
  BY DisturbedGrows
<1>3. OKRGoes(s)'
  BY <1>1, <1>2 DEF OKRGoes, Deleting, Present, Clean
<1>4. OfItsCycle(s)'
  BY <1>1, <1>2 DEF OfItsCycle, Present
<1>5. Finds(s)'
  BY <1>1, <1>2 DEF Finds, Present
<1> QED
  BY <1>1, <1>2, <1>3, <1>4, <1>5 DEF CycleGoes, Deleting, Present, Clean

LEMMA BegunIs ==
    ASSUME IInv, NEW r \in Request, Began(r)
    PROVE  /\ req'[r] \in InFlight /\ Starts(req'[r]) /\ req[r] = Idle
           /\ (\A s \in Request \ {r} : req'[s] = req[s]) /\ table' = table
<1>1. PICK q \in InFlight : req' = [req EXCEPT ![r] = q] /\ Starts(q)
  BY DEF Began
<1> QED
  BY <1>1 DEF Began, IInv, TypeOK

LEMMA BeginTableHangs ==
    ASSUME IInv, TableHangs, NEW r \in Request, Began(r), Remember
    PROVE  TableHangs'
<1>1. /\ req[r] = Idle /\ (\A s \in Request \ {r} : req'[s] = req[s]) /\ table' = table
      /\ disturbed \subseteq disturbed'
  BY BegunIs, DisturbedGrows
<1>2. \A i : AboutToBeDeleted(i) => AboutToBeDeleted(i)'
  BY <1>1, IdlePuts DEF AboutToBeDeleted
<1> QED
  BY <1>1, <1>2 DEF TableHangs, Rooted, Consistent, Present, Clean

\* The new request's puts.
LEMMA BeginPutHangs ==
    ASSUME IInv, TableHangs, NEW r \in Request, Began(r), Remember, NEW p \in Range(req'[r].puts)
    PROVE  (Current(r, p) /\ IsNew(r, p) /\ Hangs(r, p) /\ Founds(r, p))'
<1>1. PICK q \in InFlight : q = req'[r] /\ Starts(q)
  BY BegunIs
<1>2. /\ req[r] = Idle /\ (\A s \in Request \ {r} : req'[s] = req[s]) /\ table' = table
      /\ disturbed \subseteq disturbed'
  BY BegunIs, DisturbedGrows
<1>3. Fits(q.target, q.puts, p) /\ q.target \in Id \cup {None} /\ p \in [id : Id, rec : Record]
  <2>1. q.puts \in Seq([id : Id, rec : Record]) /\ q.target \in Id \cup {None}
    BY <1>1 DEF InFlight
  <2> QED
    BY <1>1, <2>1, ElementsOf DEF Starts
<1>4. q.target # None => Present(q.target)
  BY <1>1 DEF Starts
<1>5. Current(r, p)'
  BY <1>1, <1>2, <1>3, <1>4, NoneAssumption DEF Current, Fits, Present
<1>6. IsNew(r, p)'
  <2> SUFFICES ASSUME p.id # q.target, p.id \in Named
               PROVE  ~Present(p.id) /\ \A j \in Tree : Present(j) => p.id \notin Range(table[j].sk)
    BY <1>1, <1>2 DEF IsNew, Present
  <2>1. p.id \notin created
    BY <1>3 DEF Fits
  <2>2. \A j \in Tree : Present(j) => Range(table[j].sk) \subseteq created
    BY KeyInTable
  <2>3. ~Present(p.id)
    BY <1>3, <2>1, TargetIsFiled
  <2> QED
    BY <2>1, <2>2, <2>3
<1>7. Founds(r, p)'
  BY <1>1, <1>3 DEF Founds, Fits
<1>8. Hangs(r, p)'
  <2> SUFFICES ASSUME p.id \in Tree, Clean(p.rec.sk)', q.target # None
               PROVE  /\ q.target \in Range(p.rec.sk) /\ Present(q.target)
                      /\ Present(Head(p.rec.sk))
                      /\ Consistent(p.rec.sk)
                      /\ p.id \in KeyResult =>
                            \/ Present(p.rec.parent) /\ IsPrefix(table[p.rec.parent].sk, p.rec.sk)
                            \/ \E m \in Range(q.puts) : m.id = p.rec.parent /\ IsPrefix(m.rec.sk, p.rec.sk)
    BY <1>1, <1>2 DEF Hangs, Present, Consistent, ParentIsThere, Puts
  <2>1. PICK t \in Tree : t = q.target
    BY <1>3 DEF Fits
  <2>2. PICK sk : sk = table[t].sk
    OBVIOUS
  <2>3. Present(t)
    BY <1>4, <2>1
  <2>4. /\ sk \in Seq(Tree) /\ sk # <<>> /\ Head(sk) \in Range(sk) /\ t \in Range(sk)
        /\ Range(sk) \subseteq Tree /\ t \in Id /\ Head(sk) \in Cycle
    BY <2>2, <2>3, KeyInTable
  <2>5. p.rec.sk \in Seq(Tree) /\ p.rec.sk # <<>>
    <3>1. Placed(p.id, p.rec) /\ p.rec \in Record
      BY <1>3 DEF Fits
    <3>2. p.rec.sk \in Seq(Tree) /\ Len(p.rec.sk) \in 1..3
      BY <3>1, KeyOfTree
    <3> QED
      BY <3>2, KeyNotEmpty
  <2>6. IsPrefix(sk, p.rec.sk) /\ \A x \in Range(p.rec.sk) : x \in Range(sk) \/ x \notin created
    BY <1>3, <2>1, <2>2 DEF Fits
  <2>7. Head(sk) = Head(p.rec.sk) /\ Range(sk) \subseteq Range(p.rec.sk)
    BY <2>4, <2>5, <2>6, PrefixOrder
  <2>8. Clean(sk)' /\ Clean(sk) /\ Clean(p.rec.sk)
    BY <1>2, <2>7 DEF Clean
  <2>9. Rooted(t) /\ Consistent(sk)
    BY <2>2, <2>3, <2>8 DEF TableHangs
  <2>10. ~AboutToBeDeleted(t)
    <3> SUFFICES ASSUME NEW s \in Request, t \in req[s].dels PROVE FALSE
      BY DEF AboutToBeDeleted
    <3>1. s # r
      BY <1>2, IdlePuts
    <3>2. t \in Touched(s)' /\ t \in Touched(r)'
      BY <1>1, <1>2, <2>1, <3>1, TouchedIsNext
    <3>3. t \in disturbed'
      BY <2>4, <3>1, <3>2, Meeting
    <3> QED
      BY <2>4, <2>8, <3>3 DEF Clean
  <2>11. Present(Head(p.rec.sk)) /\ (t \in KeyResult => Present(table[t].parent))
    BY <2>2, <2>7, <2>9, <2>10 DEF Rooted
  <2>12. Consistent(p.rec.sk)
    <3> SUFFICES ASSUME NEW x \in Range(p.rec.sk), x \in Id, Present(x) PROVE IsPrefix(table[x].sk, p.rec.sk)
      BY DEF Consistent
    <3>1. Range(p.rec.sk) \subseteq Tree
      BY <2>5, ElementsOf
    <3>2. x \in Tree /\ x \in created
      BY <3>1, TargetIsFiled, TreeIsNamed
    <3>3. IsPrefix(table[x].sk, sk)
      BY <2>6, <2>9, <3>2 DEF Consistent
    <3>4. table[x].sk \in Seq(Tree)
      BY <3>2, KeyInTable
    <3> QED
      BY <2>4, <2>5, <2>6, <3>3, <3>4, PrefixOrder
  <2>13. ASSUME p.id \in KeyResult, p.id = t
         PROVE  Present(p.rec.parent) /\ IsPrefix(table[p.rec.parent].sk, p.rec.sk)
    <3>1. IsPatch(table[t], p.rec)
      BY <1>3, <2>1, <2>13 DEF Fits
    <3>2. p.rec.parent = table[t].parent
      <4>1. table[t] \in Record
        BY <2>3, TargetIsFiled, TreeIsNamed
      <4> QED
        BY <3>1, <4>1 DEF IsPatch, Record
    <3>3. table[t].parent \in OKR /\ table[t].parent \in Range(table[t].sk)
      BY <2>3, <2>13, KeyInTable
    <3>4. p.rec.parent \in Range(p.rec.sk) /\ p.rec.parent \in Id
      BY <2>2, <2>7, <3>2, <3>3 DEF Id, Named
    <3> QED
      BY <2>11, <2>12, <2>13, <3>2, <3>4 DEF Consistent
  <2>14. p.id \in KeyResult /\ p.id # t =>
            \E m \in Range(q.puts) : m.id = p.rec.parent /\ IsPrefix(m.rec.sk, p.rec.sk)
    BY <1>3, <2>1 DEF Fits
  <2> QED
    BY <2>1, <2>3, <2>4, <2>7, <2>11, <2>12, <2>13, <2>14
<1> QED
  BY <1>5, <1>6, <1>7, <1>8

LEMMA BeginDeletionsReach ==
    ASSUME IInv, TableHangs, DeletionsReach, NEW r \in Request, Began(r), Remember
    PROVE  DeletionsReach'
<1>1. PICK q \in InFlight : q = req'[r] /\ Starts(q)
  BY BegunIs
<1>2. /\ req[r] = Idle /\ (\A s \in Request \ {r} : req'[s] = req[s]) /\ table' = table
      /\ disturbed \subseteq disturbed'
  BY BegunIs, DisturbedGrows
<1>3. /\ q.dels = {} /\ (q.target # None => Present(q.target) /\ q.at = table[q.target].sk)
      /\ (q.puts = <<>> /\ q.then \in {"record", "end"} => q.target \notin Cycle \cup OKR)
      /\ \A p \in Range(q.puts) : Fits(q.target, q.puts, p)
      /\ q.target \in Id \cup {None}
  BY <1>1 DEF Starts, InFlight
<1>4. (CycleGoes(r) /\ OKRGoes(r))'
  BY <1>1, <1>3 DEF CycleGoes, OKRGoes, Deleting
<1>5. OfItsCycle(r)' /\ Finds(r)'
  BY <1>1, <1>2, <1>3, TreeIsNamed, NoneAssumption DEF OfItsCycle, Finds, Present, Id, Named
<1>6. ASSUME NEW s \in Request \ {r} PROVE (CycleGoes(s) /\ OKRGoes(s) /\ OfItsCycle(s) /\ Finds(s))'
  <2>1. /\ (OKRGoes(s) /\ OfItsCycle(s) /\ Finds(s))'
        /\ Deleting(s)' /\ req[s].target \in Cycle =>
              \A i \in Tree : Present(i)' /\ Clean(table[i].sk)' /\ Head(table'[i].sk) = req[s].target
                                 => i \in req'[s].dels
    BY <1>2, DeletionsStay
  <2>2. ASSUME Deleting(s), NEW c \in Cycle, c = req[s].target, NEW p \in Range(q.puts),
               p.id \in Tree, Clean(p.rec.sk)', Head(p.rec.sk) = c
        PROVE  FALSE
    <3>1. Fits(q.target, q.puts, p) /\ p.rec \in Record /\ Placed(p.id, p.rec)
      <4>1. p \in [id : Id, rec : Record]
        BY <1>1, ElementsOf DEF InFlight
      <4> QED
        BY <1>3, <4>1 DEF Fits
    <3>2. c \in created
      BY <2>2, RequestIs, TreeIsNamed DEF Named
    <3>3. CASE q.target = None
      <4>1. p.id \in Cycle /\ p.id \notin created
        BY <3>1, <3>3, TreeIsNamed DEF Fits, Tree
      <4>2. Head(p.rec.sk) = p.id
        BY <2>2, <3>1, <4>1, KeyOfTree
      <4> QED
        BY <2>2, <3>2, <4>1, <4>2
    <3>4. CASE q.target # None
      <4>1. PICK t \in Tree : t = q.target
        BY <2>2, <3>1, <3>4 DEF Fits
      <4>2. PICK sk : sk = table[t].sk
        OBVIOUS
      <4>3. Present(t)
        BY <1>3, <3>4, <4>1
      <4>4. sk \in Seq(Tree) /\ sk # <<>> /\ t \in Range(sk) /\ t \in Id
        BY <4>2, <4>3, KeyInTable
      <4>5. p.rec.sk \in Seq(Tree) /\ IsPrefix(sk, p.rec.sk)
        BY <2>2, <3>1, <3>4, <4>1, <4>2, KeyOfTree DEF Fits
      <4>6. Head(sk) = c /\ Range(sk) \subseteq Range(p.rec.sk)
        BY <2>2, <4>4, <4>5, PrefixOrder
      <4>7. Clean(sk) /\ t \notin disturbed'
        BY <1>2, <2>2, <4>4, <4>6 DEF Clean
      <4>8. t \in req[s].dels
        BY <2>2, <4>2, <4>3, <4>6, <4>7 DEF DeletionsReach, CycleGoes
      <4>9. t \in Touched(s)' /\ t \in Touched(r)'
        BY <1>1, <1>2, <4>1, <4>8, TouchedIsNext
      <4> QED
        BY <4>4, <4>7, <4>9, Meeting
    <3> QED
      BY <3>3, <3>4
  <2>3. ASSUME Deleting(s), req[s].target \in Cycle, NEW u \in Request, NEW p \in Range(req'[u].puts),
               p.id \in Tree, Clean(p.rec.sk)'
        PROVE  Head(p.rec.sk) # req[s].target
    <3>1. CASE u = r
      BY <1>1, <2>2, <2>3, <3>1
    <3>2. CASE u # r
      <4>1. p \in Puts(u) /\ Clean(p.rec.sk)
        BY <1>2, <2>3, <3>2 DEF Puts, Clean
      <4> QED
        BY <2>3, <4>1 DEF DeletionsReach, CycleGoes
    <3> QED
      BY <3>1, <3>2
  <2>4. CycleGoes(s)'
    BY <1>2, <2>1, <2>3 DEF CycleGoes, Deleting, Puts
  <2> QED
    BY <2>1, <2>4
<1> QED
  BY <1>4, <1>5, <1>6 DEF DeletionsReach

LEMMA BeginReaches == ASSUME IInv, SInv, NEW r \in Request, Began(r), Remember PROVE SInv'
<1>1. ASSUME NEW s \in Request, NEW p \in Range(req'[s].puts)
      PROVE  (Current(s, p) /\ IsNew(s, p) /\ Hangs(s, p) /\ Founds(s, p))'
  <2>1. CASE s = r
    BY <2>1, BeginPutHangs DEF SInv
  <2>2. CASE s # r
    BY <2>2, BegunIs, PutsStay DEF SInv, Puts
  <2> QED
    BY <2>1, <2>2
<1>2. PutsHang'
  BY <1>1 DEF PutsHang, Puts
<1> QED
  BY <1>2, ApartKept, BeginTableHangs, BeginDeletionsReach DEF SInv
-----------------------------------------------------------------------------
(* A record is put.                                                        *)

LEMMA PutIs ==
    ASSUME IInv, NEW r \in Request, NEW p, DidPut(r, p)
    PROVE  /\ p \in Puts(r) /\ p.id \in Id /\ p.rec \in Record /\ Placed(p.id, p.rec) /\ req[r].dels = {}
           /\ (\A i \in Id : table'[i] = IF i = p.id THEN p.rec ELSE table[i])
           /\ (\A i \in Id : Present(i) => Present(i)') /\ Present(p.id)'
           /\ (\A s \in Request \ {r} : req'[s] = req[s])
           /\ req'[r].dels = {}
           /\ (req'[r].target = req[r].target /\ req'[r].puts # <<>>) \/ req'[r] = Idle
           /\ \A x \in Range(req'[r].puts) : x \in Puts(r) /\ x.id # p.id /\ x.id \in KeyResult \cup {req[r].target}
           /\ \A x \in Puts(r) : x = p \/ x \in Range(req'[r].puts)
           /\ \A s \in Request : Range(req'[s].puts) \subseteq Puts(s)
           /\ \A s \in Request : req'[s].dels = req[s].dels
<1>1. PICK q : /\ Goes(r, q) /\ q.dels = {}
               /\ q = Idle \/ (q.target = req[r].target /\ q.puts # <<>>)
               /\ \A x \in Range(q.puts) : x \in Puts(r) /\ x.id # p.id /\ x.id \in KeyResult \cup {q.target}
               /\ \A x \in Puts(r) : x = p \/ x \in Range(q.puts)
  BY DEF DidPut
<1>2. /\ p \in Puts(r) /\ p.id \in Id /\ p.rec \in Record /\ Placed(p.id, p.rec) /\ req[r].dels = {}
      /\ table' = [table EXCEPT ![p.id] = p.rec]
  BY RequestIs DEF DidPut
<1>3. \A i \in Id : table'[i] = IF i = p.id THEN p.rec ELSE table[i]
  BY <1>2 DEF IInv, TypeOK
<1>4. p.rec # None
  BY <1>2, NoneAssumption
<1>5. req'[r] = q /\ \A s \in Request \ {r} : req'[s] = req[s]
  BY <1>1, GoesOn
<1>6. Range(Idle.puts) = {}
  BY IdlePuts
<1> QED
  BY <1>1, <1>2, <1>3, <1>4, <1>5, <1>6 DEF Present, Puts

LEMMA PutTableHangs ==
    ASSUME IInv, Apart, TableHangs, PutsHang, NEW r \in Request, NEW p, DidPut(r, p), Remember
    PROVE  TableHangs'
<1>1. /\ p \in Puts(r) /\ p.id \in Id /\ p.rec \in Record /\ Placed(p.id, p.rec)
      /\ (\A i \in Id : table'[i] = IF i = p.id THEN p.rec ELSE table[i])
      /\ (\A i \in Id : Present(i) => Present(i)') /\ Present(p.id)'
      /\ \A s \in Request : req'[s].dels = req[s].dels
  BY PutIs
<1>2. disturbed \subseteq disturbed'
  BY DisturbedGrows
<1>3. Current(r, p) /\ IsNew(r, p) /\ Hangs(r, p) /\ Founds(r, p)
  BY <1>1 DEF PutsHang
<1>4. \A i : AboutToBeDeleted(i) => AboutToBeDeleted(i)'
  BY <1>1 DEF AboutToBeDeleted
<1>5. ASSUME p.id \in Tree, NEW sk, sk = p.rec.sk, Clean(sk)'
      PROVE  Rooted(p.id)' /\ Consistent(sk)'
  <2>1. /\ sk \in Seq(Tree) /\ Head(sk) \in Range(sk) /\ Range(sk) \subseteq Tree
        /\ p.id \in KeyResult => p.rec.parent \in OKR /\ p.rec.parent \in Range(sk)
        /\ p.id \in Cycle => Head(sk) = p.id /\ sk = <<p.id>>
    BY <1>1, <1>5, KeyOfPut
  <2>2. Clean(sk) /\ Range(sk) \subseteq Id /\ IsPrefix(sk, sk)
    BY <1>2, <1>5, <2>1, TreeIsNamed, PrefixOrder DEF Clean
  <2>3. CASE req[r].target = None
    <3>1. p.id \in Cycle
      BY <1>3, <2>3 DEF Founds
    <3>2. Range(sk) = {p.id} /\ Head(sk) = p.id
      BY <2>1, <3>1, RangeOfKey
    <3>3. Consistent(sk)'
      BY <1>1, <1>5, <2>2, <3>2 DEF Consistent
    <3> QED
      BY <1>1, <1>5, <3>1, <3>2, <3>3, KindsApart DEF Rooted
  <2>4. CASE req[r].target # None
    <3>1. /\ req[r].target \in Range(sk) /\ Present(req[r].target) /\ Present(Head(sk)) /\ Consistent(sk)
          /\ p.id \in KeyResult => ParentIsThere(r, p)
      BY <1>3, <1>5, <2>2, <2>4 DEF Hangs
    <3>2. Consistent(sk)'
      BY <1>1, <1>5, <2>2, <3>1 DEF Consistent, Present
    <3>3. ASSUME p.id \in KeyResult PROVE Present(p.rec.parent)
      <4>1. CASE Present(p.rec.parent)
        BY <4>1
      <4>2. ASSUME NEW m \in Puts(r), m.id = p.rec.parent PROVE Present(p.rec.parent)
        <5>1. m.id \in OKR /\ m.id # p.id
          BY <2>1, <3>3, <4>2, KindsApart
        <5>2. m \in Range(req'[r].puts) /\ m.id \in KeyResult \cup {req[r].target}
          BY <5>1, PutIs
        <5> QED
          BY <3>1, <4>2, <5>1, <5>2, KindsApart
      <4> QED
        BY <3>1, <3>3, <4>1, <4>2 DEF ParentIsThere
    <3>4. Head(sk) \in Id /\ (p.id \in KeyResult => p.rec.parent \in Id)
      BY <2>1, <2>2
    <3>5. Present(Head(sk))' /\ (p.id \in KeyResult => Present(p.rec.parent)')
      BY <1>1, <3>1, <3>3, <3>4
    <3>6. table'[p.id] = p.rec
      BY <1>1
    <3> QED
      BY <1>5, <3>2, <3>5, <3>6 DEF Rooted, Present
  <2> QED
    BY <2>3, <2>4
<1>6. ASSUME NEW i \in Tree, i # p.id, Present(i)', NEW sk, sk = table[i].sk, Clean(sk)'
      PROVE  Rooted(i)' /\ Consistent(sk)'
  <2>1. i \in Id /\ table'[i] = table[i] /\ Present(i) /\ Clean(sk)
    BY <1>1, <1>2, <1>6, TreeIsNamed DEF Present, Clean
  <2>2. /\ Range(sk) \subseteq Tree /\ Head(sk) \in Range(sk)
        /\ i \in KeyResult => table[i].parent \in Range(sk)
    BY <1>6, <2>1, KeyInTable
  <2>3. Rooted(i) /\ Consistent(sk)
    BY <1>6, <2>1 DEF TableHangs
  <2>4. Rooted(i)'
    <3>1. CASE AboutToBeDeleted(i)
      BY <1>4, <3>1 DEF Rooted
    <3>2. CASE ~AboutToBeDeleted(i)
      <4>1. Present(Head(sk)) /\ (i \in KeyResult => Present(table[i].parent))
        BY <1>6, <2>3, <3>2 DEF Rooted
      <4>2. Head(sk) \in Id /\ (i \in KeyResult => table[i].parent \in Id)
        BY <2>2, TreeIsNamed
      <4>3. Present(Head(sk))' /\ (i \in KeyResult => table'[table[i].parent] # None)
        BY <1>1, <4>1, <4>2 DEF Present
      <4> QED
        BY <1>6, <2>1, <4>3 DEF Rooted, Present
    <3> QED
      BY <3>1, <3>2
  <2>5. Consistent(sk)'
    <3> SUFFICES ASSUME NEW x \in Range(sk), x \in Id, Present(x)' PROVE IsPrefix(table'[x].sk, sk)
      BY DEF Consistent
    <3>1. CASE x # p.id
      BY <1>1, <2>3, <3>1 DEF Consistent, Present
    <3>2. CASE x = p.id
      <4>1. x \in Tree /\ x \in Named /\ x \notin disturbed
        BY <2>1, <2>2, TreeIsNamed DEF Clean
      <4>2. x = req[r].target
        BY <1>3, <1>6, <2>1, <3>2, <4>1 DEF IsNew
      <4>3. Present(x) /\ IsPatch(table[x], p.rec)
        BY <1>3, <3>2, <4>1, <4>2 DEF Current
      <4>4. p.rec.sk = table[x].sk
        <5>1. table[x] \in Record
          BY <4>3, TargetIsFiled
        <5> QED
          BY <4>3, <5>1 DEF IsPatch, Record
      <4> QED
        BY <1>1, <2>3, <3>2, <4>3, <4>4 DEF Consistent
    <3> QED
      BY <3>1, <3>2
  <2> QED
    BY <2>4, <2>5
<1> SUFFICES ASSUME NEW i \in Tree, Present(i)', Clean(table[i].sk)'
             PROVE  Rooted(i)' /\ Consistent(table[i].sk)'
  BY DEF TableHangs
<1>7. PICK sk : sk = table'[i].sk
  OBVIOUS
<1>8. Clean(sk)'
  BY <1>7 DEF Clean
<1>9. Rooted(i)' /\ Consistent(sk)'
  <2>1. CASE i = p.id
    BY <1>1, <1>5, <1>7, <1>8, <2>1
  <2>2. CASE i # p.id
    BY <1>1, <1>6, <1>7, <1>8, <2>2, TreeIsNamed
  <2> QED
    BY <2>1, <2>2
<1> QED
  BY <1>7, <1>9 DEF Consistent

\* What others are at work on is not put, unless it is disturbed.
LEMMA OthersTouch ==
    ASSUME Apart, NEW r \in Request, NEW s \in Request, r # s, NEW x \in Id, x \in Touched(r), x \in Touched(s)
    PROVE  x \in disturbed
BY DEF Apart

LEMMA PutPutsHang ==
    ASSUME IInv, Apart, TableHangs, PutsHang, TableHangs', NEW r \in Request, NEW p, DidPut(r, p), Remember,
           NEW s \in Request, NEW x \in Range(req'[s].puts)
    PROVE  (Current(s, x) /\ IsNew(s, x) /\ Hangs(s, x) /\ Founds(s, x))'
<1>1. /\ p \in Puts(r) /\ p.id \in Id /\ p.rec \in Record /\ Placed(p.id, p.rec)
      /\ (\A i \in Id : table'[i] = IF i = p.id THEN p.rec ELSE table[i])
      /\ (\A i \in Id : Present(i) => Present(i)') /\ Present(p.id)'
      /\ x \in Puts(s) /\ x.id \in Id
      /\ s # r => req'[s] = req[s]
  BY PutIs, RequestIs
<1>2. disturbed \subseteq disturbed'
  BY DisturbedGrows
<1>3. req'[s].target = req[s].target
  BY PutIs, IdlePuts
<1>4. /\ Current(r, p) /\ IsNew(r, p) /\ Hangs(r, p) /\ Founds(r, p)
      /\ Current(s, x) /\ IsNew(s, x) /\ Hangs(s, x) /\ Founds(s, x)
  BY <1>1 DEF PutsHang
<1>5. s = r => x # p /\ x.id # p.id /\ x.id \in KeyResult \cup {req[r].target}
  BY PutIs
<1>6. {p.id, p.rec.parent, p.rec.quarter} \subseteq Touched(r)
      /\ {x.id, x.rec.parent, x.rec.quarter} \subseteq Touched(s)
  BY <1>1, TouchedIs
<1>7. x.id = p.id => x.id \in disturbed
  BY <1>1, <1>5, <1>6, OthersTouch
<1>8. Current(s, x)'
  BY <1>1, <1>2, <1>3, <1>4, <1>7 DEF Current, Present
<1>9. Founds(s, x)'
  BY <1>3, <1>4 DEF Founds
<1>10. IsNew(s, x)'
  <2> SUFFICES ASSUME x.id # req[s].target, x.id \in Named \ disturbed
               PROVE  /\ ~Present(x.id)'
                      /\ \A j \in Tree : Present(j)' /\ Clean(table[j].sk)' => x.id \notin Range(table'[j].sk)
    BY <1>2, <1>3 DEF IsNew
  <2>1. ~Present(x.id) /\ x.id # p.id
    BY <1>4, <1>7 DEF IsNew
  <2>2. ~Present(x.id)'
    BY <1>1, <2>1 DEF Present
  <2>3. ASSUME NEW j \in Tree, Present(j)', Clean(table[j].sk)', x.id \in Range(table'[j].sk) PROVE FALSE
    <3>1. j # p.id => Present(j) /\ table'[j] = table[j]
      BY <1>1, <2>3, TreeIsNamed DEF Present
    <3>2. CASE j # p.id
      BY <1>2, <1>4, <2>3, <3>1, <3>2 DEF IsNew, Clean
    <3>3. CASE j = p.id
      <4>1. PICK sk : sk = p.rec.sk
        OBVIOUS
      <4>2. x.id \in Range(sk) /\ Clean(sk)
        BY <1>1, <1>2, <2>3, <3>3, <4>1 DEF Clean
      <4>3. /\ \A y \in Range(sk) : y = p.id \/ y = Head(sk) \/ y = p.rec.parent \/ y = p.rec.quarter
            /\ \A y \in Range(sk) \cap KeyResult : y = p.id
            /\ p.id \in Cycle => Head(sk) = p.id
        BY <1>1, <3>3, <4>1, KeyOfPut
      <4>4. CASE s = r
        BY <1>5, <2>1, <2>3, <4>2, <4>3, <4>4, <1>3
      <4>5. CASE s # r
        <5>1. x.id # p.rec.parent /\ x.id # p.rec.quarter
          BY <1>1, <1>6, <4>5, OthersTouch
        <5>2. x.id = Head(sk)
          BY <2>1, <4>2, <4>3, <5>1
        <5>3. req[r].target # None => Present(Head(sk))
          BY <1>4, <3>3, <4>1, <4>2 DEF Hangs
        <5> QED
          BY <1>4, <2>1, <4>3, <5>2, <5>3 DEF Founds
      <4> QED
        BY <4>4, <4>5
    <3> QED
      BY <3>2, <3>3
  <2> QED
    BY <2>2, <2>3
<1>11. Hangs(s, x)'
  <2> SUFFICES ASSUME x.id \in Tree, Clean(x.rec.sk)', req[s].target # None
               PROVE  /\ req[s].target \in Range(x.rec.sk) /\ Present(req[s].target)'
                      /\ Present(Head(x.rec.sk))'
                      /\ Consistent(x.rec.sk)'
                      /\ x.id \in KeyResult => ParentIsThere(s, x)'
    BY <1>3 DEF Hangs, Present
  <2>1. PICK sk : sk = x.rec.sk
    OBVIOUS
  <2>2. /\ sk \in Seq(Tree) /\ Head(sk) \in Range(sk) /\ Range(sk) \subseteq Tree
        /\ (\A y \in Range(sk) : y = x.id \/ y = Head(sk) \/ y = x.rec.parent \/ y = x.rec.quarter)
        /\ x.id \in KeyResult => x.rec.parent \in OKR /\ x.rec.parent \in Range(sk)
    BY <1>1, <2>1, KeyOfPut
  <2>3. Clean(sk) /\ Range(sk) \subseteq Id
    BY <1>2, <2>1, <2>2, TreeIsNamed DEF Clean
  <2>4. /\ req[s].target \in Range(sk) /\ Present(req[s].target) /\ Present(Head(sk)) /\ Consistent(sk)
        /\ x.id \in KeyResult => ParentIsThere(s, x)
    BY <1>4, <2>1, <2>3 DEF Hangs
  <2>5. Present(req[s].target)' /\ Present(Head(sk))'
    <3>1. \A i \in Id : table[i] # None => table'[i] # None
      BY <1>1 DEF Present
    <3> QED
      BY <1>3, <2>2, <2>3, <2>4, <3>1 DEF Present
  <2>6. ASSUME p.id \in Range(sk) PROVE IsPrefix(p.rec.sk, sk)
    <3>1. p.id \in Tree /\ p.id \in Named /\ p.id \notin disturbed
      BY <2>2, <2>3, <2>6, TreeIsNamed DEF Clean
    <3>2. CASE p.id = req[r].target
      <4>1. Present(p.id) /\ IsPatch(table[p.id], p.rec)
        BY <1>4, <3>1, <3>2 DEF Current
      <4>2. p.rec.sk = table[p.id].sk
        <5>1. table[p.id] \in Record
          BY <1>1, <4>1, TargetIsFiled
        <5> QED
          BY <4>1, <5>1 DEF IsPatch, Record
      <4> QED
        BY <1>1, <2>4, <2>6, <4>1, <4>2 DEF Consistent
    <3>3. CASE p.id # req[r].target
      <4>1. /\ ~Present(p.id)
            /\ \A j \in Tree : Present(j) /\ Clean(table[j].sk) => p.id \notin Range(table[j].sk)
        BY <1>4, <3>1, <3>3 DEF IsNew
      <4>2. p.id # Head(sk)
        BY <2>4, <4>1
      <4>3. CASE s # r
        <5>1. p.id # x.id /\ p.id # x.rec.parent /\ p.id # x.rec.quarter
          BY <1>1, <1>6, <3>1, <4>3, OthersTouch
        <5> QED
          BY <2>2, <2>6, <4>2, <5>1
      <4>4. CASE s = r /\ x.id = req[r].target
        <5>1. Present(x.id) /\ IsPatch(table[x.id], x.rec)
          <6>1. x.id \notin disturbed
            BY <1>1, <2>1, <2>3, KeyOfPut DEF Clean
          <6> QED
            BY <1>4, <4>4, <6>1 DEF Current
        <5>2. sk = table[x.id].sk
          <6>1. table[x.id] \in Record
            BY <1>1, <5>1, TargetIsFiled
          <6> QED
            BY <2>1, <5>1, <6>1 DEF IsPatch, Record
        <5> QED
          BY <2>3, <2>6, <4>1, <5>1, <5>2
      <4>5. CASE s = r /\ x.id \in KeyResult /\ x.id # req[r].target
        <5>1. p.id = x.rec.parent \/ p.id = x.rec.quarter
          BY <1>5, <2>2, <2>6, <4>2, <4>5
        <5>2. p.id = x.rec.parent
          <6>1. Placed(x.id, x.rec)
            BY <1>1, RequestIs
          <6>2. \E c \in Cycle : sk = <<c, x.rec.parent, x.id>>
            BY <2>1, <4>5, <6>1 DEF Placed
          <6> QED
            BY <1>5, <2>6, <4>2, <4>5, <6>2, RangeOfKey
        <5>3. PICK m \in Puts(r) : m.id = p.id /\ IsPrefix(m.rec.sk, sk)
          BY <2>1, <2>4, <4>1, <4>5, <5>2 DEF ParentIsThere
        <5>4. m = p
          BY <5>3, PutIs
        <5> QED
          BY <5>3, <5>4
      <4> QED
        BY <1>5, <4>3, <4>4, <4>5
    <3> QED
      BY <3>2, <3>3
  <2>7. Consistent(sk)'
    <3> SUFFICES ASSUME NEW y \in Range(sk), y \in Id, Present(y)' PROVE IsPrefix(table'[y].sk, sk)
      BY DEF Consistent
    <3>1. CASE y = p.id
      BY <1>1, <2>6, <3>1
    <3>2. CASE y # p.id
      BY <1>1, <2>4, <3>2 DEF Consistent, Present
    <3> QED
      BY <3>1, <3>2
  <2>8. ASSUME x.id \in KeyResult PROVE ParentIsThere(s, x)'
    <3>1. x.rec.parent \in Range(sk) /\ x.rec.parent \in Id
      BY <2>2, <2>3, <2>8
    <3>2. CASE Present(x.rec.parent)'
      BY <2>1, <2>7, <3>1, <3>2 DEF ParentIsThere, Consistent
    <3>3. CASE ~Present(x.rec.parent)'
      <4>1. ~Present(x.rec.parent) /\ x.rec.parent # p.id
        BY <1>1, <3>1, <3>3
      <4>2. PICK m \in Puts(s) : m.id = x.rec.parent /\ IsPrefix(m.rec.sk, x.rec.sk)
        BY <2>4, <2>8, <4>1 DEF ParentIsThere
      <4>3. m \in Range(req'[s].puts)
        <5>1. CASE s = r
          BY <4>1, <4>2, <5>1, PutIs
        <5>2. CASE s # r
          BY <1>1, <5>2 DEF Puts
        <5> QED
          BY <5>1, <5>2
      <4> QED
        BY <4>2, <4>3 DEF ParentIsThere, Puts
    <3> QED
      BY <3>2, <3>3
  <2> QED
    BY <2>1, <2>4, <2>5, <2>7, <2>8, <1>3 DEF Present
<1> QED
  BY <1>8, <1>9, <1>10, <1>11

LEMMA PutDeletionsReach ==
    ASSUME IInv, Apart, DeletionsReach, NEW r \in Request, NEW p, DidPut(r, p), Remember
    PROVE  DeletionsReach'
<1>1. /\ p \in Puts(r) /\ p.id \in Id /\ p.rec \in Record /\ Placed(p.id, p.rec)
      /\ (\A i \in Id : table'[i] = IF i = p.id THEN p.rec ELSE table[i])
      /\ \A u \in Request : Range(req'[u].puts) \subseteq Puts(u)
  BY PutIs
<1>2. disturbed \subseteq disturbed'
  BY DisturbedGrows
<1>3. {p.id, p.rec.parent} \subseteq Touched(r)
  BY <1>1, TouchedIs
<1>4. (CycleGoes(r) /\ OKRGoes(r) /\ OfItsCycle(r) /\ Finds(r))'
  <2>1. req'[r].dels = {} /\ (req'[r].puts # <<>> \/ req'[r] = Idle)
    BY PutIs
  <2>2. req'[r].then = "end"
    BY GoesOn DEF DidPut
  <2>3. Idle.target \notin Cycle \cup OKR
    BY IdlePuts, NoneAssumption DEF Id, Named
  <2> QED
    BY <2>1, <2>2, <2>3 DEF CycleGoes, OKRGoes, OfItsCycle, Finds, Deleting
<1>5. ASSUME NEW s \in Request, s # r PROVE (CycleGoes(s) /\ OKRGoes(s) /\ OfItsCycle(s) /\ Finds(s))'
  <2>1. req'[s] = req[s]
    BY <1>5, PutIs
  <2>2. CycleGoes(s) /\ OKRGoes(s) /\ OfItsCycle(s) /\ Finds(s)
    BY DEF DeletionsReach
  <2>3. req[s].target \in Touched(s) /\ req[s].dels \subseteq Touched(s) /\ req[s].dels \subseteq Id
    BY TouchedIs, RequestIs
  <2>4. ASSUME Deleting(s), req[s].target \in Cycle,
               NEW i \in Tree, Present(i)', Clean(table[i].sk)', Head(table'[i].sk) = req[s].target
        PROVE  i \in req[s].dels
    <3>1. CASE i = p.id
      <4>1. table'[i] = p.rec /\ Clean(p.rec.sk)
        BY <1>1, <1>2, <2>4, <3>1 DEF Clean
      <4> QED
        BY <1>1, <2>2, <2>4, <3>1, <4>1 DEF CycleGoes
    <3>2. CASE i # p.id
      <4>1. table'[i] = table[i] /\ Present(i) /\ Clean(table[i].sk)
        BY <1>1, <1>2, <2>4, <3>2, TreeIsNamed DEF Clean, Present
      <4> QED
        BY <2>2, <2>4, <4>1 DEF CycleGoes
    <3> QED
      BY <3>1, <3>2
  <2>5. CycleGoes(s)'
    <3>1. Deleting(s) <=> Deleting(s)'
      BY <2>1 DEF Deleting
    <3>2. ASSUME Deleting(s), req[s].target \in Cycle, NEW u \in Request, NEW x \in Range(req'[u].puts),
                 x.id \in Tree, Clean(x.rec.sk)'
          PROVE  Head(x.rec.sk) # req[s].target
      <4>1. x \in Puts(u) /\ Clean(x.rec.sk)
        BY <1>1, <1>2, <3>2 DEF Clean
      <4> QED
        BY <2>2, <3>2, <4>1 DEF CycleGoes
    <3> QED
      BY <2>1, <2>4, <3>1, <3>2 DEF CycleGoes, Puts
  <2>6. OKRGoes(s)'
    <3> SUFFICES ASSUME Deleting(s), req[s].target \in OKR,
                        NEW i \in KeyResult, Present(i)', Clean(table[i].sk)', table'[i].parent = req[s].target
                 PROVE  i \in req[s].dels
      BY <2>1 DEF OKRGoes, Deleting
    <3>1. i \in Tree /\ i \in Id
      BY TreeIsNamed DEF Tree
    <3>2. CASE i = p.id
      <4>1. p.rec.parent = req[s].target /\ p.rec.parent \in Id /\ table'[i] = p.rec
        BY <1>1, <3>2, TreeIsNamed DEF Tree
      <4>2. p.rec.parent \in disturbed
        BY <1>3, <1>5, <2>3, <4>1, OthersTouch
      <4>3. p.rec.parent \in Range(p.rec.sk)
        BY <1>1, <3>1, <3>2, KeyOfPut
      <4> QED
        BY <1>2, <4>1, <4>2, <4>3 DEF Clean
    <3>3. CASE i # p.id
      <4>1. table'[i] = table[i] /\ Present(i) /\ Clean(table[i].sk)
        BY <1>1, <1>2, <3>1, <3>3 DEF Clean, Present
      <4> QED
        BY <2>2, <4>1 DEF OKRGoes
    <3> QED
      BY <3>2, <3>3
  <2>7. OfItsCycle(s)'
    <3> SUFFICES ASSUME req[s].target \in Cycle, NEW i \in req[s].dels, i \notin disturbed', Present(i)'
                 PROVE  Head(table'[i].sk) = req[s].target
      BY <2>1 DEF OfItsCycle
    <3>1. i # p.id /\ i \in Id
      BY <1>1, <1>2, <1>3, <1>5, <2>3, OthersTouch
    <3>2. table'[i] = table[i] /\ Present(i) /\ i \notin disturbed
      BY <1>1, <1>2, <3>1 DEF Present
    <3> QED
      BY <2>2, <3>2 DEF OfItsCycle
  <2>8. Finds(s)'
    <3> SUFFICES ASSUME req[s].target \in OKR, req[s].target \notin disturbed', req[s].then = "below"
                 PROVE  Present(req[s].target)' /\ table'[req[s].target].sk = req[s].at
      BY <2>1 DEF Finds, Present
    <3>1. req[s].target \in Id /\ req[s].target # p.id
      BY <1>1, <1>2, <1>3, <1>5, <2>3, OthersTouch, TreeIsNamed DEF Tree
    <3>2. table'[req[s].target] = table[req[s].target] /\ req[s].target \notin disturbed
      BY <1>1, <1>2, <3>1
    <3> QED
      BY <2>1, <2>2, <3>2 DEF Finds, Present
  <2> QED
    BY <2>5, <2>6, <2>7, <2>8
<1> QED
  BY <1>4, <1>5 DEF DeletionsReach

LEMMA PutReaches == ASSUME IInv, SInv, NEW r \in Request, NEW p, DidPut(r, p), Remember PROVE SInv'
<1>1. TableHangs' /\ DeletionsReach' /\ Apart'
  BY ApartKept, PutTableHangs, PutDeletionsReach DEF SInv
<1>2. ASSUME NEW s \in Request, NEW x \in Range(req'[s].puts)
      PROVE  (Current(s, x) /\ IsNew(s, x) /\ Hangs(s, x) /\ Founds(s, x))'
  BY <1>1, <1>2, PutPutsHang DEF SInv
<1>3. PutsHang'
  BY <1>2 DEF PutsHang, Puts
<1> QED
  BY <1>1, <1>3 DEF SInv
-----------------------------------------------------------------------------
(* A record is deleted.                                                    *)

LEMMA DeleteIs ==
    ASSUME IInv, NEW r \in Request, NEW d \in Id, DidDelete(r, d)
    PROVE  /\ d \in req[r].dels /\ req[r].puts = <<>> /\ Puts(r) = {} /\ req'[r].puts = <<>>
           /\ (\A i \in Id : table'[i] = IF i = d THEN None ELSE table[i])
           /\ (\A i \in Id : Present(i)' <=> Present(i) /\ i # d)
           /\ (\A s \in Request \ {r} : req'[s] = req[s])
           /\ req'[r].dels = req[r].dels \ {d}
           /\ (req'[r].target = req[r].target /\ req'[r].then = req[r].then /\ req'[r].at = req[r].at)
              \/ req'[r] = Idle
           /\ \A s \in Request : Range(req'[s].puts) = Puts(s)
           /\ d \in Touched(r)
           /\ d \in Cycle \cup OKR => d = req[r].target \/ (req[r].target \in Cycle /\ d \in OKR)
           /\ req[r].target \in KPI \/ Deleting(r)
<1>1. PICK q : /\ Goes(r, q) /\ q.puts = <<>> /\ q.dels = req[r].dels \ {d}
               /\ q = Idle \/ (q.target = req[r].target /\ q.then = req[r].then /\ q.at = req[r].at)
  BY DEF DidDelete
<1>2. d \in req[r].dels /\ table' = [table EXCEPT ![d] = None] /\ req[r].puts = <<>>
  BY DEF DidDelete
<1>3. \A i \in Id : table'[i] = IF i = d THEN None ELSE table[i]
  BY <1>2 DEF IInv, TypeOK
<1>4. req'[r] = q /\ \A s \in Request \ {r} : req'[s] = req[s]
  BY <1>1, GoesOn
<1>5. /\ d \in Cycle \cup OKR => d = req[r].target \/ (req[r].target \in Cycle /\ d \in OKR)
      /\ req[r].target \in KPI \/ Deleting(r)
  <2>1. Shape(req[r])
    BY RequestIs
  <2> QED
    BY <1>2, <2>1 DEF Shape, Deleting
<1>6. Puts(r) = {} /\ d \in Touched(r)
  BY <1>2, RequestIs, TouchedIs
<1>7. \A s \in Request : Range(req'[s].puts) = Puts(s)
  BY <1>1, <1>2, <1>4 DEF Puts
<1> QED
  BY <1>1, <1>2, <1>3, <1>4, <1>5, <1>6, <1>7 DEF Present

\* A record goes after those that hang from it, or with them.
LEMMA DeleteTableHangs ==
    ASSUME IInv, TableHangs, DeletionsReach, NEW r \in Request, NEW d \in Id, DidDelete(r, d), Remember
    PROVE  TableHangs'
<1>1. /\ d \in req[r].dels
      /\ (\A i \in Id : table'[i] = IF i = d THEN None ELSE table[i])
      /\ (\A i \in Id : Present(i)' <=> Present(i) /\ i # d)
      /\ (\A s \in Request \ {r} : req'[s] = req[s])
      /\ req'[r].dels = req[r].dels \ {d}
      /\ d \in Cycle \cup OKR => d = req[r].target \/ (req[r].target \in Cycle /\ d \in OKR)
      /\ req[r].target \in KPI \/ Deleting(r)
  BY DeleteIs
<1>2. disturbed \subseteq disturbed'
  BY DisturbedGrows
<1> SUFFICES ASSUME NEW i \in Tree, Present(i)', Clean(table[i].sk)'
             PROVE  Rooted(i)' /\ Consistent(table[i].sk)'
  BY DEF TableHangs
<1>3. PICK sk : sk = table[i].sk
  OBVIOUS
<1>4. i \in Id /\ Present(i) /\ i # d /\ table'[i] = table[i] /\ Clean(sk)
  BY <1>1, <1>2, <1>3, TreeIsNamed DEF Clean
<1>5. /\ sk \in Seq(Tree) /\ Head(sk) \in Cycle /\ Head(sk) \in Range(sk) /\ Range(sk) \subseteq Tree
      /\ i \in KeyResult => table[i].parent \in OKR /\ table[i].parent \in Range(sk)
  BY <1>3, <1>4, KeyInTable
<1>6. Rooted(i) /\ Consistent(sk)
  BY <1>3, <1>4 DEF TableHangs
<1>7. Consistent(sk)'
  <2> SUFFICES ASSUME NEW x \in Range(sk), x \in Id, Present(x)' PROVE IsPrefix(table'[x].sk, sk)
    BY DEF Consistent
  <2> QED
    BY <1>1, <1>6 DEF Consistent
<1>8. \A j : j # d /\ AboutToBeDeleted(j) => AboutToBeDeleted(j)'
  BY <1>1 DEF AboutToBeDeleted
<1>9. Rooted(i)'
  <2>1. CASE AboutToBeDeleted(i)
    BY <1>4, <1>8, <2>1 DEF Rooted
  <2>2. CASE ~AboutToBeDeleted(i)
    <3>1. Present(Head(sk)) /\ (i \in KeyResult => Present(table[i].parent)) /\ i \notin req[r].dels
      BY <1>3, <1>6, <2>2 DEF Rooted, AboutToBeDeleted
    <3>2. \A c \in Cycle : req[r].target = c => Head(sk) # c
      BY <1>1, <1>3, <1>4, <3>1, KindsApart DEF DeletionsReach, CycleGoes
    <3>3. Head(sk) # d
      BY <1>1, <1>5, <3>2, KindsApart
    <3>4. ASSUME i \in KeyResult, table[i].parent = d PROVE FALSE
      <4>1. d \in OKR /\ Present(d) /\ d \in Range(sk) /\ d \in Tree /\ d \notin disturbed
        BY <1>4, <1>5, <3>1, <3>4, TreeIsNamed DEF Clean
      <4>2. CASE d = req[r].target
        BY <1>1, <1>3, <1>4, <3>1, <3>4, <4>1, <4>2, KindsApart DEF DeletionsReach, OKRGoes
      <4>3. CASE req[r].target \in Cycle
        <5>1. Head(table[d].sk) = req[r].target
          BY <1>1, <4>1, <4>3 DEF DeletionsReach, OfItsCycle
        <5>2. IsPrefix(table[d].sk, sk)
          BY <1>6, <4>1 DEF Consistent
        <5>3. table[d].sk \in Seq(Tree) /\ table[d].sk # <<>>
          BY <4>1, KeyInTable
        <5>4. Head(table[d].sk) = Head(sk)
          BY <1>5, <5>2, <5>3, PrefixOrder
        <5> QED
          BY <3>2, <4>3, <5>1, <5>4
      <4> QED
        BY <1>1, <4>1, <4>2, <4>3
    <3>5. Head(sk) \in Id /\ (i \in KeyResult => table[i].parent \in Id)
      BY <1>5, TreeIsNamed
    <3>6. Present(Head(sk))' /\ (i \in KeyResult => table'[table[i].parent] # None)
      BY <1>1, <3>1, <3>3, <3>4, <3>5 DEF Present
    <3> QED
      BY <1>3, <1>4, <3>6 DEF Rooted, Present
  <2> QED
    BY <2>1, <2>2
<1> QED
  BY <1>3, <1>4, <1>7, <1>9 DEF Consistent

LEMMA DeletePutsHang ==
    ASSUME IInv, Apart, TableHangs, PutsHang, DeletionsReach, NEW r \in Request, NEW d \in Id, DidDelete(r, d),
           Remember, NEW s \in Request, NEW x \in Range(req'[s].puts)
    PROVE  (Current(s, x) /\ IsNew(s, x) /\ Hangs(s, x) /\ Founds(s, x))'
<1>1. /\ (\A i \in Id : table'[i] = IF i = d THEN None ELSE table[i])
      /\ (\A i \in Id : Present(i)' <=> Present(i) /\ i # d)
      /\ x \in Puts(s) /\ s # r /\ req'[s] = req[s]
      /\ d \in Touched(r)
      /\ d \in Cycle \cup OKR => d = req[r].target \/ (req[r].target \in Cycle /\ d \in OKR)
      /\ req[r].target \in KPI \/ Deleting(r)
      /\ x.id \in Id
  BY DeleteIs, RequestIs
<1>2. disturbed \subseteq disturbed'
  BY DisturbedGrows
<1>3. Current(s, x) /\ IsNew(s, x) /\ Hangs(s, x) /\ Founds(s, x)
  BY <1>1 DEF PutsHang
<1>4. {x.id, x.rec.parent, req[s].target} \subseteq Touched(s)
  BY <1>1, TouchedIs
<1>5. d \in {x.id, x.rec.parent, req[s].target} => d \in disturbed
  BY <1>1, <1>4, OthersTouch
<1>6. Current(s, x)'
  BY <1>1, <1>2, <1>3, <1>5 DEF Current
<1>7. Founds(s, x)'
  BY <1>1, <1>3 DEF Founds
<1>8. IsNew(s, x)'
  <2> SUFFICES ASSUME x.id # req[s].target, x.id \in Named \ disturbed
               PROVE  /\ ~Present(x.id)'
                      /\ \A j \in Tree : Present(j)' /\ Clean(table[j].sk)' => x.id \notin Range(table'[j].sk)
    BY <1>1, <1>2 DEF IsNew
  <2>1. ~Present(x.id)'
    BY <1>1, <1>3 DEF IsNew
  <2>2. ASSUME NEW j \in Tree, Present(j)', Clean(table[j].sk)' PROVE x.id \notin Range(table'[j].sk)
    <3>1. Present(j) /\ table'[j] = table[j] /\ Clean(table[j].sk)
      BY <1>1, <1>2, <2>2, TreeIsNamed DEF Clean
    <3> QED
      BY <1>3, <3>1 DEF IsNew
  <2> QED
    BY <2>1, <2>2
<1>9. Hangs(s, x)'
  <2> SUFFICES ASSUME x.id \in Tree, Clean(x.rec.sk)', req[s].target # None
               PROVE  /\ req[s].target \in Range(x.rec.sk) /\ Present(req[s].target)'
                      /\ Present(Head(x.rec.sk))'
                      /\ Consistent(x.rec.sk)'
                      /\ x.id \in KeyResult => ParentIsThere(s, x)'
    BY <1>1 DEF Hangs, Present
  <2>1. PICK sk : sk = x.rec.sk
    OBVIOUS
  <2>2. /\ Head(sk) \in Range(sk) /\ Head(sk) \in Cycle /\ Range(sk) \subseteq Tree
        /\ x.id \in KeyResult => x.rec.parent \in OKR /\ x.rec.parent \in Range(sk)
    BY <1>1, <2>1, KeyOfPut
  <2>3. Clean(sk) /\ Range(sk) \subseteq Id
    BY <1>2, <2>1, <2>2, TreeIsNamed DEF Clean
  <2>4. /\ req[s].target \in Range(sk) /\ Present(req[s].target) /\ Present(Head(sk)) /\ Consistent(sk)
        /\ x.id \in KeyResult => ParentIsThere(s, x)
    BY <1>3, <2>1, <2>3 DEF Hangs
  <2>5. req[s].target # d /\ (x.id \in KeyResult => x.rec.parent # d)
    BY <1>5, <2>2, <2>3, <2>4 DEF Clean
  <2>6. Head(sk) # d
    <3> SUFFICES ASSUME Head(sk) = d PROVE FALSE
      OBVIOUS
    <3>1. d = req[r].target /\ Deleting(r)
      BY <1>1, <2>2, KindsApart
    <3> QED
      BY <1>1, <2>1, <2>2, <2>3, <3>1 DEF DeletionsReach, CycleGoes
  <2>7. \A i \in Id \ {d} : Present(i) => table'[i] = table[i] /\ table'[i] # None
    BY <1>1 DEF Present
  <2>8. table'[req[s].target] # None /\ table'[Head(sk)] # None
    BY <2>2, <2>3, <2>4, <2>5, <2>6, <2>7
  <2>9. Consistent(sk)'
    <3> SUFFICES ASSUME NEW y \in Range(sk), y \in Id, Present(y)' PROVE IsPrefix(table'[y].sk, sk)
      BY DEF Consistent
    <3> QED
      BY <1>1, <2>4 DEF Consistent
  <2>10. ASSUME x.id \in KeyResult PROVE ParentIsThere(s, x)'
    <3>1. x.rec.parent \in Id /\ x.rec.parent # d
      BY <2>2, <2>3, <2>5, <2>10
    <3>2. CASE Present(x.rec.parent) /\ IsPrefix(table[x.rec.parent].sk, x.rec.sk)
      BY <2>7, <3>1, <3>2 DEF ParentIsThere, Present
    <3>3. CASE \E m \in Puts(s) : m.id = x.rec.parent /\ IsPrefix(m.rec.sk, x.rec.sk)
      BY <1>1, <3>3 DEF ParentIsThere, Puts
    <3> QED
      BY <2>4, <2>10, <3>2, <3>3 DEF ParentIsThere
  <2> QED
    BY <1>1, <2>1, <2>4, <2>8, <2>9, <2>10 DEF Present
<1> QED
  BY <1>6, <1>7, <1>8, <1>9

LEMMA DeleteDeletionsReach ==
    ASSUME IInv, Apart, DeletionsReach, NEW r \in Request, NEW d \in Id, DidDelete(r, d), Remember
    PROVE  DeletionsReach'
<1>1. /\ d \in req[r].dels
      /\ (\A i \in Id : table'[i] = IF i = d THEN None ELSE table[i])
      /\ (\A i \in Id : Present(i)' <=> Present(i) /\ i # d)
      /\ (\A s \in Request \ {r} : req'[s] = req[s])
      /\ req'[r].dels = req[r].dels \ {d}
      /\ (req'[r].target = req[r].target /\ req'[r].then = req[r].then /\ req'[r].at = req[r].at)
         \/ req'[r] = Idle
      /\ \A s \in Request : Range(req'[s].puts) = Puts(s)
      /\ d \in Touched(r) /\ req[r].puts = <<>>
      /\ req[r].target \in KPI \/ Deleting(r)
  BY DeleteIs
<1>2. disturbed \subseteq disturbed'
  BY DisturbedGrows
<1>3. Idle.target \notin Cycle \cup OKR
  BY IdlePuts, NoneAssumption DEF Id, Named
<1>4. ASSUME NEW s \in Request PROVE (CycleGoes(s) /\ OKRGoes(s) /\ OfItsCycle(s) /\ Finds(s))'
  <2>1. CycleGoes(s) /\ OKRGoes(s) /\ OfItsCycle(s) /\ Finds(s)
    BY DEF DeletionsReach
  <2>2. req'[s].target \in Cycle \cup OKR =>
           /\ req'[s].target = req[s].target /\ req'[s].then = req[s].then /\ req'[s].at = req[s].at
           /\ Deleting(s)' => Deleting(s)
    BY <1>1, <1>3 DEF Deleting
  <2>3. req'[s].dels \subseteq req[s].dels /\ req[s].dels \ {d} \subseteq req'[s].dels
    BY <1>1
  <2>4. \A i \in Tree : Present(i)' /\ Clean(table[i].sk)' =>
            i # d /\ table'[i] = table[i] /\ Present(i) /\ Clean(table[i].sk)
    BY <1>1, <1>2, TreeIsNamed DEF Clean
  <2>5. CycleGoes(s)'
    <3>1. ASSUME req'[s].target \in Cycle, Deleting(s)', NEW u \in Request, NEW x \in Range(req'[u].puts),
                 x.id \in Tree, Clean(x.rec.sk)'
          PROVE  Head(x.rec.sk) # req'[s].target
      <4>1. x \in Puts(u) /\ Clean(x.rec.sk)
        BY <1>1, <1>2, <3>1 DEF Clean
      <4> QED
        BY <2>1, <2>2, <3>1, <4>1 DEF CycleGoes
    <3>2. ASSUME req'[s].target \in Cycle, Deleting(s)',
                 NEW i \in Tree, Present(i)', Clean(table[i].sk)', Head(table'[i].sk) = req'[s].target
          PROVE  i \in req'[s].dels
      BY <2>1, <2>2, <2>3, <2>4, <3>2 DEF CycleGoes
    <3> QED
      BY <3>1, <3>2 DEF CycleGoes, Puts
  <2>6. OKRGoes(s)'
    <3> SUFFICES ASSUME req'[s].target \in OKR, Deleting(s)', NEW i \in KeyResult,
                        Present(i)', Clean(table[i].sk)', table'[i].parent = req'[s].target
                 PROVE  i \in req'[s].dels
      BY DEF OKRGoes
    <3>1. i \in Tree
      BY DEF Tree
    <3> QED
      BY <2>1, <2>2, <2>3, <2>4, <3>1 DEF OKRGoes
  <2>7. OfItsCycle(s)'
    <3> SUFFICES ASSUME req'[s].target \in Cycle, NEW i \in req'[s].dels, i \notin disturbed', Present(i)'
                 PROVE  Head(table'[i].sk) = req'[s].target
      BY DEF OfItsCycle
    <3>1. i \in req[s].dels /\ i \in Id
      BY <2>3, RequestIs
    <3>2. table'[i] = table[i] /\ Present(i) /\ i \notin disturbed
      BY <1>1, <1>2, <3>1
    <3> QED
      BY <2>1, <2>2, <3>1, <3>2 DEF OfItsCycle
  <2>8. Finds(s)'
    <3> SUFFICES ASSUME req'[s].target \in OKR, req'[s].target \notin disturbed', req'[s].then = "below"
                 PROVE  table'[req'[s].target] # None /\ table'[req'[s].target].sk = req'[s].at
      BY DEF Finds, Present
    <3>1. PICK o \in OKR : o = req[s].target /\ o = req'[s].target /\ o \notin disturbed
      BY <1>2, <2>2
    <3>2. req[s].then = "below" /\ req'[s].at = req[s].at
      BY <2>2
    <3>3. Present(o) /\ table[o].sk = req[s].at /\ o \in Id
      BY <2>1, <3>1, <3>2, TreeIsNamed DEF Finds, Tree
    <3>4. s # r
      BY <1>1, <3>1, <3>2, KindsApart DEF Deleting
    <3>5. o \in Touched(s)
      BY <3>1, TouchedIs
    <3>6. o # d
      BY <1>1, <3>1, <3>3, <3>4, <3>5, OthersTouch
    <3>7. table'[o] = table[o] /\ table[o] # None
      BY <1>1, <3>3, <3>6 DEF Present
    <3> QED
      BY <3>1, <3>2, <3>3, <3>7 DEF Present
  <2> QED
    BY <2>5, <2>6, <2>7, <2>8
<1> QED
  BY <1>4 DEF DeletionsReach

LEMMA DeleteReaches ==
    ASSUME IInv, SInv, NEW r \in Request, NEW d \in Id, DidDelete(r, d), Remember
    PROVE  SInv'
<1>1. TableHangs' /\ DeletionsReach' /\ Apart'
  BY ApartKept, DeleteTableHangs, DeleteDeletionsReach DEF SInv
<1>2. ASSUME NEW s \in Request, NEW x \in Range(req'[s].puts)
      PROVE  (Current(s, x) /\ IsNew(s, x) /\ Hangs(s, x) /\ Founds(s, x))'
  BY <1>2, DeletePutsHang DEF SInv
<1>3. PutsHang'
  BY <1>2 DEF PutsHang, Puts
<1> QED
  BY <1>1, <1>3 DEF SInv
-----------------------------------------------------------------------------
(* A query of what to delete is answered.                                  *)

LEMMA QueryIs ==
    ASSUME IInv, NEW r \in Request, DidQuery(r)
    PROVE  /\ req[r].puts = <<>> /\ req[r].dels = {} /\ Puts(r) = {} /\ req'[r].puts = <<>>
           /\ table' = table /\ \A s \in Request \ {r} : req'[s] = req[s]
           /\ req'[r].target = req[r].target /\ req'[r].at = req[r].at /\ req'[r].dels = Related(req[r])
           /\ req[r].then \in {"related", "subs", "below", "record"}
           /\ req'[r].then = CASE req[r].then = "related" -> "record" [] req[r].then = "subs" -> "below"
                               [] req[r].then = "below" -> "record" [] req[r].then = "record" -> "end"
           /\ req[r].target \in Cycle => req[r].then \in {"related", "record"} /\ req[r].at = <<req[r].target>>
           /\ req[r].target \in OKR => req[r].then \in {"below", "record"}
           /\ req[r].then = "below" => req[r].at \in Seq(Tree) /\ Len(req[r].at) = 2
           /\ \A s \in Request : Range(req'[s].puts) = Puts(s)
<1>1. PICK q : /\ Goes(r, q) /\ q.puts = <<>> /\ q.dels = Related(req[r]) /\ q.then = After[req[r].then]
               /\ q.target = req[r].target /\ q.at = req[r].at
  BY DEF DidQuery
<1>2. req[r].puts = <<>> /\ req[r].dels = {} /\ req[r].then # "end" /\ table' = table
  BY DEF DidQuery
<1>3. req'[r] = q /\ \A s \in Request \ {r} : req'[s] = req[s]
  BY <1>1, GoesOn
<1>4. /\ req[r].then \in {"related", "subs", "below", "record"}
      /\ After[req[r].then] = CASE req[r].then = "related" -> "record" [] req[r].then = "subs" -> "below"
                                [] req[r].then = "below" -> "record" [] req[r].then = "record" -> "end"
  BY <1>2, RelatedIs
<1>5. Shape(req[r]) /\ Puts(r) = {}
  BY <1>2, RequestIs
<1>6. /\ req[r].target \in Cycle => req[r].then \in {"related", "record"} /\ req[r].at = <<req[r].target>>
      /\ req[r].target \in OKR => req[r].then \in {"below", "record"}
      /\ req[r].then = "below" => req[r].at \in Seq(Tree) /\ Len(req[r].at) = 2
  <2>1. PICK q2 : q2 = req[r]
    OBVIOUS
  <2>2. /\ q2.puts = <<>> /\ q2.then \in {"related", "subs", "below", "record"}
        /\ q2.then = "related" => q2.target \in Cycle
        /\ q2.then = "below" => q2.target \in KPI \cup OKR
        /\ q2.then = "subs" => q2.target \in KPI
        /\ q2.then = "below" => q2.at \in Seq(Tree) /\ Len(q2.at) = 2
        /\ q2.target \in Cycle => q2.at = <<q2.target>>
    <3>1. Shape(q2) /\ q2.puts = <<>> /\ q2.then \in {"related", "subs", "below", "record"}
      BY <1>2, <1>4, <1>5, <2>1
    <3>2. q2.then \in {"subs", "below"} => q2.at \in Seq(Tree) /\ Len(q2.at) = 2
      BY <3>1 DEF Shape
    <3>3. /\ q2.then = "related" => q2.target \in Cycle
          /\ q2.then = "below" => q2.target \in Goal
          /\ q2.then = "subs" => q2.target \in KPI
          /\ q2.target \in Cycle => q2.at = <<q2.target>>
      BY <3>1, Zenon DEF Shape
    <3> QED
      BY <3>1, <3>2, <3>3 DEF Goal
  <2>3. Cycle \cap (KPI \cup OKR) = {} /\ KPI \cap OKR = {}
    BY KindsApart
  <2> QED
    BY <2>1, <2>2, <2>3
<1>7. \A s \in Request : Range(req'[s].puts) = Puts(s)
  BY <1>1, <1>2, <1>3 DEF Puts
<1> QED
  BY <1>1, <1>2, <1>3, <1>4, <1>5, <1>6, <1>7

LEMMA QueryTableHangs ==
    ASSUME IInv, TableHangs, NEW r \in Request, DidQuery(r), Remember
    PROVE  TableHangs'
<1>1. /\ req[r].dels = {} /\ (\A s \in Request \ {r} : req'[s] = req[s]) /\ table' = table
      /\ disturbed \subseteq disturbed'
  BY QueryIs, DisturbedGrows
<1>2. \A i : AboutToBeDeleted(i) => AboutToBeDeleted(i)'
  BY <1>1 DEF AboutToBeDeleted
<1> QED
  BY <1>1, <1>2 DEF TableHangs, Rooted, Consistent, Present, Clean

\* All there is under the key of a cycle is found, and nothing that another request
\* is to put there stays unnoticed.
LEMMA QueryCycleGoes ==
    ASSUME IInv, SInv, NEW r \in Request, DidQuery(r), Remember, NEW c \in Cycle, c = req[r].target,
           req[r].then = "related"
    PROVE  /\ \A i \in Tree : Present(i) /\ Clean(table[i].sk) /\ Head(table[i].sk) = c => i \in req'[r].dels
           /\ \A s \in Request : \A p \in Puts(s) : p.id \in Tree /\ Clean(p.rec.sk)' => Head(p.rec.sk) # c
<1>1. /\ req[r].at = <<c>> /\ table' = table /\ (\A s \in Request \ {r} : req'[s] = req[s])
      /\ req'[r].target = c /\ req'[r].dels = Related(req[r]) /\ Puts(r) = {}
  BY QueryIs
<1>2. req'[r].dels = Below(<<c>>) \cup {i \in {c} : Present(i)}
  BY <1>1 DEF Related
<1>3. disturbed \subseteq disturbed'
  BY DisturbedGrows
<1>4. ASSUME NEW i \in Tree, Present(i), Head(table[i].sk) = c PROVE i \in req'[r].dels
  <2>1. PICK sk : sk = table[i].sk
    OBVIOUS
  <2>2. sk \in Seq(Tree) /\ Len(sk) \in 1..3 /\ Head(sk) = c /\ i \in Id /\ (i \notin Cycle => Len(sk) > 1)
        /\ (i \in Cycle => i = c)
    BY <1>4, <2>1, KeyInTable
  <2>3. CASE i \in Cycle
    BY <1>2, <1>4, <2>2, <2>3
  <2>4. CASE i \notin Cycle
    <3>1. PICK ck : ck = <<c>>
      OBVIOUS
    <3>2. ck \in Seq(Tree) /\ Len(ck) = 1 /\ ck[1] = c
      BY <3>1 DEF Tree
    <3>3. Len(ck) < Len(sk) /\ \A n \in 1..Len(ck) : ck[n] = sk[n]
      BY <2>2, <2>4, <3>2
    <3>4. IsStrictPrefix(ck, sk)
      BY <2>2, <3>2, <3>3, StrictlyAgrees
    <3> QED
      BY <1>2, <1>4, <2>1, <2>2, <3>1, <3>4 DEF Below
  <2> QED
    BY <2>3, <2>4
<1>5. ASSUME NEW s \in Request, NEW p \in Puts(s), p.id \in Tree, Clean(p.rec.sk)', Head(p.rec.sk) = c
      PROVE  FALSE
  <2>1. s # r /\ req'[s] = req[s]
    BY <1>1, <1>5
  <2>2. PICK sk : sk = p.rec.sk
    OBVIOUS
  <2>3. /\ sk \in Seq(Tree) /\ Head(sk) \in Range(sk) /\ Range(sk) \subseteq Tree
        /\ p.id \in Cycle => p.id = c
    BY <1>5, <2>2, KeyOfPut
  <2>4. Clean(sk) /\ c \notin disturbed' /\ c \in Id
    BY <1>3, <1>5, <2>2, <2>3, TreeIsNamed DEF Clean
  <2>5. p.id \in Touched(s)' /\ req[s].target \in Touched(s)'
    BY <2>1, TouchedIsNext DEF Puts
  <2>6. c \in Touched(r)'
    BY <1>1, TouchedIsNext
  <2>7. CASE req[s].target = None
    <3>1. p.id = c
      BY <2>3, <2>7 DEF SInv, PutsHang, Founds
    <3> QED
      BY <2>1, <2>4, <2>5, <2>6, <3>1, Meeting
  <2>8. CASE req[s].target # None
    <3>1. PICK t \in Range(sk) : t = req[s].target
      BY <1>5, <2>2, <2>4, <2>8 DEF SInv, PutsHang, Hangs
    <3>2. Present(t) /\ Consistent(sk) /\ t \in Tree /\ t \in Id
      BY <1>5, <2>2, <2>3, <2>4, <2>8, <3>1, TreeIsNamed DEF SInv, PutsHang, Hangs
    <3>3. PICK tk : tk = table[t].sk
      OBVIOUS
    <3>4. tk \in Seq(Tree) /\ tk # <<>> /\ IsPrefix(tk, sk)
      BY <3>1, <3>2, <3>3, KeyInTable DEF Consistent
    <3>5. Head(tk) = c
      BY <1>5, <2>2, <2>3, <3>4, PrefixOrder
    <3>6. t \in req'[r].dels
      BY <1>4, <3>2, <3>3, <3>5
    <3>7. t \in Touched(r)' /\ t \in Touched(s)'
      BY <2>5, <3>1, <3>6, TouchedIsNext
    <3>8. t \in disturbed'
      BY <2>1, <3>2, <3>7, Meeting
    <3> QED
      BY <1>5, <2>2, <3>1, <3>8 DEF Clean
  <2> QED
    BY <2>7, <2>8
<1> QED
  BY <1>4, <1>5

\* And every key result under the key of an OKR.
LEMMA QueryOKRGoes ==
    ASSUME IInv, SInv, NEW r \in Request, DidQuery(r), Remember, NEW o \in OKR, o = req[r].target,
           req[r].then = "below", NEW i \in KeyResult, Present(i), Clean(table[i].sk), table[i].parent = o
    PROVE  i \in req'[r].dels
<1>1. PICK sk, at : sk = table[i].sk /\ at = req[r].at
  OBVIOUS
<1>2. i \in Tree /\ i \in Id /\ o \in Tree /\ o \in Id
  BY TreeIsNamed DEF Tree
<1>3. sk \in Seq(Tree) /\ Len(sk) = 3 /\ o \in Range(sk) /\ Consistent(sk)
  BY <1>1, <1>2, KeyInTable DEF SInv, TableHangs
<1>4. o \notin disturbed
  BY <1>1, <1>3 DEF Clean
<1>5. Present(o) /\ table[o].sk = at
  BY <1>1, <1>4 DEF SInv, DeletionsReach, Finds
<1>6. at \in Seq(Tree) /\ Len(at) = 2
  BY <1>2, <1>5, KeyInTable
<1>7. IsPrefix(at, sk)
  BY <1>2, <1>3, <1>5 DEF Consistent
<1>8. IsStrictPrefix(at, sk)
  BY <1>3, <1>6, <1>7, PrefixOrder
<1>9. req'[r].dels = Below(at)
  BY <1>1, QueryIs DEF Related
<1> QED
  BY <1>1, <1>2, <1>8, <1>9 DEF Below

\* Nothing else is found under the key of a cycle.
LEMMA QueryOfItsCycle ==
    ASSUME IInv, NEW r \in Request, DidQuery(r), NEW c \in Cycle, c = req[r].target,
           NEW i \in req'[r].dels, Present(i)
    PROVE  Head(table[i].sk) = c
<1>1. /\ req[r].at = <<c>> /\ req[r].then \in {"related", "record"} /\ req'[r].dels = Related(req[r])
  BY QueryIs
<1>2. c \in Tree
  BY DEF Tree
<1>3. CASE i = c
  BY <1>2, <1>3, KeyInTable
<1>4. CASE i # c
  <2>1. i \in Id /\ IsStrictPrefix(<<c>>, table[i].sk)
    BY <1>1, <1>4 DEF Related, Below
  <2>2. PICK sk : sk = table[i].sk
    OBVIOUS
  <2>3. sk \in Seq(Elem) /\ <<c>> \in Seq(Elem) /\ <<c>> # <<>>
    BY <2>1, <2>2, TargetIsFiled, TreeIsNamed, <1>2 DEF Record, Elem
  <2>4. IsPrefix(<<c>>, sk)
    BY <2>1, <2>2 DEF IsStrictPrefix
  <2>5. Head(<<c>>) = Head(sk)
    BY <2>3, <2>4, PrefixOrder
  <2> QED
    BY <2>2, <2>5
<1> QED
  BY <1>3, <1>4

\* A request at rest goes on deleting what it was to delete, if others put no more.
LEMMA OthersDelete ==
    ASSUME DeletionsReach, Remember, table' = table, NEW s \in Request, req'[s] = req[s],
           \A u \in Request : Range(req'[u].puts) \subseteq Puts(u)
    PROVE  (CycleGoes(s) /\ OKRGoes(s) /\ OfItsCycle(s) /\ Finds(s))'
<1>1. /\ (OKRGoes(s) /\ OfItsCycle(s) /\ Finds(s))'
      /\ Deleting(s)' /\ req[s].target \in Cycle =>
            \A i \in Tree : Present(i)' /\ Clean(table[i].sk)' /\ Head(table'[i].sk) = req[s].target
                               => i \in req'[s].dels
  BY DeletionsStay
<1>2. ASSUME Deleting(s), req[s].target \in Cycle, NEW u \in Request, NEW p \in Range(req'[u].puts),
             p.id \in Tree, Clean(p.rec.sk)'
      PROVE  Head(p.rec.sk) # req[s].target
  <2>1. p \in Puts(u) /\ Clean(p.rec.sk)
    BY <1>2, DisturbedGrows DEF Clean
  <2> QED
    BY <1>2, <2>1 DEF DeletionsReach, CycleGoes
<1>3. CycleGoes(s)'
  BY <1>1, <1>2 DEF CycleGoes, Deleting, Puts
<1> QED
  BY <1>1, <1>3

LEMMA QueryDeletionsReach ==
    ASSUME IInv, SInv, NEW r \in Request, DidQuery(r), Remember
    PROVE  DeletionsReach'
<1>1. /\ req[r].puts = <<>> /\ req[r].dels = {} /\ req'[r].puts = <<>>
      /\ table' = table /\ (\A s \in Request \ {r} : req'[s] = req[s])
      /\ req'[r].target = req[r].target /\ req'[r].at = req[r].at
      /\ req[r].then \in {"related", "subs", "below", "record"}
      /\ req'[r].then = CASE req[r].then = "related" -> "record" [] req[r].then = "subs" -> "below"
                          [] req[r].then = "below" -> "record" [] req[r].then = "record" -> "end"
      /\ req[r].target \in Cycle => req[r].then \in {"related", "record"}
      /\ req[r].target \in OKR => req[r].then \in {"below", "record"}
      /\ \A s \in Request : Range(req'[s].puts) = Puts(s)
  BY QueryIs
<1>2. disturbed \subseteq disturbed'
  BY DisturbedGrows
<1>3. CycleGoes(r) /\ OKRGoes(r)
  BY DEF SInv, DeletionsReach
<1>4. \A i : Present(i)' <=> Present(i)
  BY <1>1 DEF Present
<1>5. CycleGoes(r)'
  <2>1. ASSUME req'[r].target \in Cycle
        PROVE  /\ \A i \in Tree : Present(i)' /\ Clean(table[i].sk)' /\ Head(table'[i].sk) = req'[r].target
                                     => i \in req'[r].dels
               /\ \A s \in Request : \A p \in Range(req'[s].puts) :
                     p.id \in Tree /\ Clean(p.rec.sk)' => Head(p.rec.sk) # req'[r].target
    <3>1. PICK c \in Cycle : c = req[r].target /\ c = req'[r].target
      BY <1>1, <2>1
    <3>2. \A sk : Clean(sk)' => Clean(sk)
      BY <1>2 DEF Clean
    <3>3. CASE req[r].then = "related"
      <4>1. /\ \A i \in Tree : Present(i) /\ Clean(table[i].sk) /\ Head(table[i].sk) = c => i \in req'[r].dels
            /\ \A s \in Request : \A p \in Puts(s) : p.id \in Tree /\ Clean(p.rec.sk)' => Head(p.rec.sk) # c
        BY <3>1, <3>3, QueryCycleGoes
      <4>2. \A i \in Tree : Clean(table[i].sk)' => Clean(table[i].sk)
        BY <1>1, <1>2 DEF Clean
      <4> QED
        BY <1>1, <1>4, <3>1, <4>1, <4>2
    <3>4. CASE req[r].then = "record"
      <4>1. /\ \A i \in Tree : Present(i) /\ Clean(table[i].sk) => Head(table[i].sk) # c
            /\ \A s \in Request : \A p \in Puts(s) : p.id \in Tree /\ Clean(p.rec.sk) => Head(p.rec.sk) # c
        BY <1>1, <1>3, <3>1, <3>4 DEF CycleGoes, Deleting
      <4>2. \A i \in Tree : Clean(table[i].sk)' => Clean(table[i].sk)
        BY <1>1, <1>2 DEF Clean
      <4>3. \A s \in Request : \A p \in Puts(s) : Clean(p.rec.sk)' => Clean(p.rec.sk)
        BY <1>2 DEF Clean
      <4> QED
        BY <1>1, <1>4, <3>1, <4>1, <4>2, <4>3
    <3> QED
      BY <1>1, <3>1, <3>3, <3>4
  <2> QED
    BY <2>1 DEF CycleGoes, Puts
<1>6. OKRGoes(r)'
  <2> SUFFICES ASSUME req'[r].target \in OKR, NEW i \in KeyResult, Present(i)', Clean(table[i].sk)',
                      table'[i].parent = req'[r].target
               PROVE  i \in req'[r].dels
    BY DEF OKRGoes
  <2>1. PICK o \in OKR : o = req[r].target
    BY <1>1
  <2>2. Present(i) /\ Clean(table[i].sk) /\ table[i].parent = o
    BY <1>1, <1>2, <1>4, <2>1 DEF Clean
  <2>3. CASE req[r].then = "below"
    BY <2>1, <2>2, <2>3, QueryOKRGoes
  <2>4. CASE req[r].then = "record"
    BY <1>1, <1>3, <2>1, <2>2, <2>4 DEF OKRGoes, Deleting
  <2> QED
    BY <1>1, <2>1, <2>3, <2>4
<1>7. OfItsCycle(r)'
  <2> SUFFICES ASSUME req'[r].target \in Cycle, NEW i \in req'[r].dels, Present(i)'
               PROVE  Head(table'[i].sk) = req'[r].target
    BY DEF OfItsCycle
  <2> QED
    BY <1>1, <1>4, QueryOfItsCycle
<1>8. Finds(r)'
  BY <1>1 DEF Finds
<1>9. ASSUME NEW s \in Request \ {r} PROVE (CycleGoes(s) /\ OKRGoes(s) /\ OfItsCycle(s) /\ Finds(s))'
  BY <1>1, OthersDelete DEF SInv
<1> QED
  BY <1>5, <1>6, <1>7, <1>8, <1>9 DEF DeletionsReach

LEMMA QueryReaches ==
    ASSUME IInv, SInv, NEW r \in Request, DidQuery(r), Remember
    PROVE  SInv'
<1>1. TableHangs' /\ DeletionsReach' /\ Apart'
  BY ApartKept, QueryTableHangs, QueryDeletionsReach DEF SInv
<1>2. ASSUME NEW s \in Request, NEW p \in Range(req'[s].puts)
      PROVE  (Current(s, p) /\ IsNew(s, p) /\ Hangs(s, p) /\ Founds(s, p))'
  <2>1. p \in Puts(s) /\ table' = table /\ s # r /\ req'[s] = req[s]
    BY <1>2, QueryIs
  <2> QED
    BY <2>1, PutsStay DEF SInv
<1>3. PutsHang'
  BY <1>2 DEF PutsHang, Puts
<1> QED
  BY <1>1, <1>3 DEF SInv
-----------------------------------------------------------------------------
(* A call fails, or a request is given up.                                 *)

LEMMA FailIs ==
    ASSUME IInv, NEW r \in Request, DidFail(r), Remember
    PROVE  /\ table' = table /\ \A s \in Request \ {r} : req'[s] = req[s]
           /\ req'[r].puts = <<>> /\ req'[r].dels \subseteq req[r].dels
           /\ \A s \in Request : Range(req'[s].puts) \subseteq Puts(s)
           /\ req'[r].target \notin Cycle
           /\ req'[r].target \in OKR => req'[r].target \in disturbed' /\ req'[r].then = "record"
           /\ req[r].dels \subseteq disturbed'
<1>1. PICK q : /\ Goes(r, q) /\ q.puts = <<>> /\ q.dels \subseteq req[r].dels
               /\ q = Idle \/ (q.target = req[r].target /\ q.target \in Goal /\ q.then = "record")
  BY DEF DidFail
<1>2. faults' > faults /\ req'[r] # req[r] /\ table' = table
  BY DEF DidFail
<1>3. req'[r] = q /\ \A s \in Request \ {r} : req'[s] = req[s]
  BY <1>1, GoesOn
<1>4. Touched(r) \cap Id \subseteq disturbed'
  <2>1. Touched(r) \cap Id \subseteq GivenUp
    BY <1>2 DEF GivenUp
  <2> QED
    BY <2>1 DEF Remember
<1>5. req[r].dels \subseteq Id /\ req[r].dels \subseteq Touched(r) /\ req[r].target \in Touched(r)
  BY RequestIs, TouchedIs
<1>6. Range(q.puts) = {}
  BY <1>1, IdlePuts DEF Range
<1>7. \A s \in Request : Range(req'[s].puts) \subseteq Puts(s)
  BY <1>3, <1>6 DEF Puts
<1>8. Idle.target \notin Cycle \cup OKR
  BY IdlePuts, NoneAssumption DEF Id, Named
<1>9. OKR \subseteq Id
  BY DEF Id, Named
<1> QED
  BY <1>1, <1>2, <1>3, <1>4, <1>5, <1>7, <1>8, <1>9, KindsApart DEF Goal

LEMMA FailTableHangs ==
    ASSUME IInv, TableHangs, NEW r \in Request, DidFail(r), Remember
    PROVE  TableHangs'
<1>1. /\ (\A s \in Request \ {r} : req'[s] = req[s]) /\ table' = table
      /\ req[r].dels \subseteq disturbed' /\ disturbed \subseteq disturbed'
  BY FailIs, DisturbedGrows
<1> SUFFICES ASSUME NEW i \in Tree, Present(i)', Clean(table[i].sk)'
             PROVE  Rooted(i)' /\ Consistent(table[i].sk)'
  BY DEF TableHangs
<1>2. Present(i) /\ Clean(table[i].sk)
  BY <1>1 DEF Present, Clean
<1>3. Rooted(i) /\ Consistent(table[i].sk)
  BY <1>2 DEF TableHangs
<1>4. i \notin req[r].dels
  <2>1. i \in Range(table[i].sk)
    BY <1>2, KeyInTable
  <2> QED
    BY <1>1, <2>1 DEF Clean
<1>5. AboutToBeDeleted(i) => AboutToBeDeleted(i)'
  BY <1>1, <1>4 DEF AboutToBeDeleted
<1> QED
  BY <1>1, <1>3, <1>5 DEF Rooted, Consistent, Present

LEMMA FailDeletionsReach ==
    ASSUME IInv, DeletionsReach, NEW r \in Request, DidFail(r), Remember
    PROVE  DeletionsReach'
<1>1. /\ (\A s \in Request \ {r} : req'[s] = req[s]) /\ table' = table
      /\ \A s \in Request : Range(req'[s].puts) \subseteq Puts(s)
      /\ req'[r].target \notin Cycle
      /\ req'[r].target \in OKR => req'[r].target \in disturbed' /\ req'[r].then = "record"
  BY FailIs
<1>2. ASSUME NEW s \in Request \ {r} PROVE (CycleGoes(s) /\ OKRGoes(s) /\ OfItsCycle(s) /\ Finds(s))'
  BY <1>1, OthersDelete
<1>3. CycleGoes(r)' /\ OfItsCycle(r)' /\ Finds(r)'
  BY <1>1 DEF CycleGoes, OfItsCycle, Finds
<1>4. OKRGoes(r)'
  <2> SUFFICES ASSUME req'[r].target \in OKR, NEW i \in KeyResult, Present(i)', Clean(table[i].sk)',
                      table'[i].parent = req'[r].target
               PROVE  FALSE
    BY DEF OKRGoes
  <2>1. i \in Tree /\ Present(i)
    BY <1>1 DEF Tree, Present
  <2>2. table[i].parent \in Range(table[i].sk)
    BY <2>1, KeyInTable
  <2> QED
    BY <1>1, <2>2 DEF Clean
<1> QED
  BY <1>2, <1>3, <1>4 DEF DeletionsReach

LEMMA FailReaches ==
    ASSUME IInv, SInv, NEW r \in Request, DidFail(r), Remember
    PROVE  SInv'
<1>1. TableHangs' /\ DeletionsReach' /\ Apart'
  BY ApartKept, FailTableHangs, FailDeletionsReach DEF SInv
<1>2. ASSUME NEW s \in Request, NEW p \in Range(req'[s].puts)
      PROVE  (Current(s, p) /\ IsNew(s, p) /\ Hangs(s, p) /\ Founds(s, p))'
  <2>1. p \in Puts(s) /\ table' = table /\ s # r /\ req'[s] = req[s]
    BY <1>2, FailIs DEF Range
  <2> QED
    BY <2>1, PutsStay DEF SInv
<1>3. PutsHang'
  BY <1>2 DEF PutsHang, Puts
<1> QED
  BY <1>1, <1>3 DEF SInv
-----------------------------------------------------------------------------
(* The invariant of the specification with its history.                    *)

HInv == IInv /\ SInv

LEMMA HInitInv == HInit => HInv
<1> SUFFICES ASSUME HInit PROVE HInv
  OBVIOUS
<1>1. IInv
  BY InitInv DEF HInit
<1>2. (\A r \in Request : req[r] = Idle) /\ (\A i \in Id : ~Present(i))
  BY DEF HInit, Init, Present
<1>3. Idle.target \notin Cycle \cup OKR /\ Idle.target \notin Id
  BY IdlePuts, NoneAssumption DEF Id, Named
<1>4. \A r \in Request : Touched(r) \cap Id = {}
  BY <1>2, <1>3, IdlePuts DEF Touched
<1>5. Apart
  BY <1>4 DEF Apart
<1>6. TableHangs
  BY <1>2, TreeIsNamed DEF TableHangs
<1>7. PutsHang
  BY <1>2, IdlePuts DEF PutsHang, Puts
<1>8. DeletionsReach
  BY <1>2, <1>3 DEF DeletionsReach, CycleGoes, OKRGoes, OfItsCycle, Finds
<1> QED
  BY <1>1, <1>5, <1>6, <1>7, <1>8 DEF HInv, SInv

LEMMA HStepKeepsInv == HInv /\ [HNext]_<<vars, disturbed>> => HInv'
<1> SUFFICES ASSUME HInv, [HNext]_<<vars, disturbed>> PROVE HInv'
  OBVIOUS
<1>1. IInv /\ SInv
  BY DEF HInv
<1>2. CASE HNext
  <2>1. Next /\ Remember
    BY <1>2 DEF HNext
  <2>2. IInv'
    BY <1>1, <2>1, StepKeepsInv
  <2>3. PICK r \in Request :
              \/ Began(r)
              \/ \E p : DidPut(r, p)
              \/ \E i \in Id : DidDelete(r, i)
              \/ DidQuery(r)
              \/ DidFail(r) /\ faults' \in 0..MaxFaults
    BY <1>1, <2>1, StepIs
  <2>4. SInv'
    BY <1>1, <2>1, <2>3, BeginReaches, PutReaches, DeleteReaches, QueryReaches, FailReaches
  <2> QED
    BY <2>2, <2>4 DEF HInv
<1>3. CASE UNCHANGED <<vars, disturbed>>
  <2>1. IInv'
    BY <1>1, <1>3, StepKeepsInv
  <2>2. UNCHANGED <<table, req, disturbed>>
    BY <1>3 DEF vars
  <2>3. Apart'
    BY <1>1, <2>2 DEF SInv, Apart, Touched
  <2>4. TableHangs'
    BY <1>1, <2>2 DEF SInv, TableHangs, Rooted, Consistent, Clean, Present, AboutToBeDeleted
  <2>5. PutsHang'
    <3> SUFFICES ASSUME NEW r \in Request, NEW p \in Puts(r)
                 PROVE  (Current(r, p) /\ IsNew(r, p) /\ Hangs(r, p) /\ Founds(r, p))'
      BY <2>2 DEF PutsHang, Puts
    <3>1. Current(r, p) /\ IsNew(r, p) /\ Hangs(r, p) /\ Founds(r, p)
      BY <1>1 DEF SInv, PutsHang
    <3>2. Current(r, p)' /\ Founds(r, p)' /\ IsNew(r, p)'
      BY <2>2, <3>1 DEF Current, Founds, IsNew, Present, Clean
    <3>3. Hangs(r, p)'
      BY <2>2, <3>1 DEF Hangs, Present, Clean, Consistent, ParentIsThere, Puts
    <3> QED
      BY <3>2, <3>3
  <2>6. DeletionsReach'
    <3> SUFFICES ASSUME NEW r \in Request PROVE (CycleGoes(r) /\ OKRGoes(r) /\ OfItsCycle(r) /\ Finds(r))'
      BY DEF DeletionsReach
    <3>1. CycleGoes(r) /\ OKRGoes(r) /\ OfItsCycle(r) /\ Finds(r)
      BY <1>1 DEF SInv, DeletionsReach
    <3>2. CycleGoes(r)' /\ OKRGoes(r)'
      BY <2>2, <3>1 DEF CycleGoes, OKRGoes, Deleting, Present, Clean, Puts
    <3>3. OfItsCycle(r)' /\ Finds(r)'
      BY <2>2, <3>1 DEF OfItsCycle, Finds, Present
    <3> QED
      BY <3>2, <3>3
  <2> QED
    BY <2>1, <2>3, <2>4, <2>5, <2>6 DEF HInv, SInv
<1> QED
  BY <1>2, <1>3

LEMMA HInvHolds == HSpec => []HInv
BY HInitInv, HStepKeepsInv, PTL DEF HSpec

\* Whatever DeletePerformanceCycle and DeleteOKR leave in the table is either being
\* deleted still or under a cycle, and a key result under an OKR, that are there:
\* only two requests at work on one record of its path at once, or a failure on one
\* of them, leave a record that hangs from nothing.
THEOREM DeletionsLeaveNothing == HSpec => []NothingIsLeftBehind
<1>1. HInv => NothingIsLeftBehind
  <2> SUFFICES ASSUME HInv, NEW i \in Id, Present(i), Head(table[i].sk) # "GOAL",
                      ~AboutToBeDeleted(i), \A n \in DOMAIN table[i].sk : table[i].sk[n] \notin disturbed
               PROVE  Present(Head(table[i].sk)) /\ (i \in KeyResult => Present(table[i].parent))
    BY DEF NothingIsLeftBehind
  <2>1. IInv /\ TableHangs
    BY DEF HInv, SInv
  <2>2. table[i] \in Record /\ Placed(i, table[i])
    BY <2>1, TargetIsFiled
  <2>3. i \in Tree
    BY <2>2, KeyOfGoal
  <2>4. Clean(table[i].sk)
    BY DEF Clean, Range
  <2> QED
    BY <2>1, <2>3, <2>4 DEF TableHangs, Rooted
<1> QED
  BY <1>1, HInvHolds, PTL

\* A record that was deleted comes back through no put of a request that read it
\* before, AddKPIValue's second write and every Update* among them, unless another
\* request was at work on the record at the same time.
THEOREM DeletionsStand == HSpec => DeletedStaysDeleted
<1>1. HInv => \A i \in Named \ disturbed, r \in Request : Writes(r, i) => Present(i) \/ req[r].target # i
  <2> SUFFICES ASSUME HInv, NEW i \in Named \ disturbed, NEW r \in Request, Writes(r, i), req[r].target = i
               PROVE  Present(i)
    OBVIOUS
  <2>1. IInv /\ PutsHang
    BY DEF HInv, SInv
  <2>2. PICK p : p = Head(req[r].puts) /\ p.id = i
    BY DEF Writes
  <2>3. p \in Puts(r)
    <3>1. req[r].puts \in Seq([id : Id, rec : Record]) /\ req[r].puts # <<>>
      BY <2>1, RequestIs DEF Writes
    <3> QED
      BY <2>2, <3>1, TailIs DEF Puts
  <2> QED
    BY <2>1, <2>2, <2>3 DEF PutsHang, Current
<1>2. HInv => [\A i \in Named \ disturbed, r \in Request :
                  Writes(r, i) /\ Present(i)' => Present(i) \/ req[r].target # i]_vars
  BY <1>1
<1> QED
  BY <1>2, HInvHolds, PTL DEF DeletedStaysDeleted

LEMMA SameIsPatch == ASSUME NEW rec \in Record PROVE IsPatch(rec, rec)
<1>1. rec = [rec EXCEPT !["owner"] = rec["owner"]]
  BY DEF Record
<1> QED
  BY <1>1 DEF IsPatch

\* What a step makes of a record that no two requests came to at once differs in one
\* attribute at most: createRecord writes under an id that is new, an update what it
\* read but for the patch, and a tag that is put again is as it was.
THEOREM PatchesKeepTheRest == HSpec => PatchKeepsTheRest
<1>1. HInv /\ [HNext]_<<vars, disturbed>> =>
          [\A i \in Id \ disturbed : Present(i) /\ Present(i)' => IsPatch(table[i], table'[i])]_vars
  <2> SUFFICES ASSUME HInv, HNext, NEW i \in Id \ disturbed, Present(i), Present(i)'
               PROVE  IsPatch(table[i], table'[i])
    BY DEF vars
  <2>1. IInv /\ PutsHang /\ Next
    BY DEF HInv, SInv, HNext
  <2>2. table[i] \in Record /\ Placed(i, table[i])
    BY <2>1, TargetIsFiled
  <2>3. table'[i] = table[i] => IsPatch(table[i], table'[i])
    BY <2>2, SameIsPatch
  <2>4. PICK r \in Request : \/ Began(r)
                             \/ \E p : DidPut(r, p)
                             \/ \E d \in Id : DidDelete(r, d)
                             \/ DidQuery(r)
                             \/ DidFail(r)
    BY <2>1, StepIs
  <2>5. CASE Began(r) \/ DidQuery(r) \/ DidFail(r)
    BY <2>3, <2>5 DEF Began, DidQuery, DidFail
  <2>6. CASE \E d \in Id : DidDelete(r, d)
    <3>1. PICK d \in Id : DidDelete(r, d)
      BY <2>6
    <3>2. (Present(i)' => i # d) /\ table'[i] = IF i = d THEN None ELSE table[i]
      BY <2>1, <3>1, DeleteIs
    <3> QED
      BY <2>3, <3>2
  <2>7. CASE \E p : DidPut(r, p)
    <3>1. PICK p : DidPut(r, p)
      BY <2>7
    <3>2. p \in Puts(r) /\ table' = [table EXCEPT ![p.id] = p.rec]
      BY <3>1 DEF DidPut
    <3>3. table'[i] = IF i = p.id THEN p.rec ELSE table[i]
      BY <2>1, <3>2 DEF IInv, TypeOK
    <3>4. Current(r, p) /\ IsNew(r, p) /\ Placed(p.id, p.rec) /\ p.rec \in Record
      BY <2>1, <3>2, RequestIs DEF PutsHang
    <3>5. CASE i # p.id
      BY <2>3, <3>3, <3>5
    <3>6. CASE i = p.id /\ p.id = req[r].target
      BY <3>3, <3>4, <3>6 DEF Current
    <3>7. CASE i = p.id /\ p.id # req[r].target /\ i \in Named
      BY <3>4, <3>7 DEF IsNew
    <3>8. CASE i = p.id /\ i \in Tag
      BY <2>2, <2>3, <3>3, <3>4, <3>8 DEF Placed
    <3> QED
      BY <3>5, <3>6, <3>7, <3>8 DEF Id
  <2> QED
    BY <2>4, <2>5, <2>6, <2>7
<1>2. HInv /\ [HNext]_<<vars, disturbed>> =>
          [\A i \in Id \ disturbed : Present(i) /\ Present(i)' =>
              \E f \in {"owner", "value", "parentKpiId"} : table'[i] = [table[i] EXCEPT ![f] = table'[i][f]]]_vars
  BY <1>1 DEF IsPatch
<1> QED
  BY <1>2, HInvHolds, PTL DEF HSpec, PatchKeepsTheRest
-----------------------------------------------------------------------------
(* What is shown.                                                          *)

\* A record of a tree is under the key of the cycle it begins with, and no other.
LEMMA UnderItsCycle ==
    ASSUME IInv, NEW i \in Tree, Present(i), NEW c \in Cycle
    PROVE  IsPrefix(<<c>>, table[i].sk) <=> Head(table[i].sk) = c
<1>1. PICK sk, ck : sk = table[i].sk /\ ck = <<c>>
  OBVIOUS
<1>2. sk \in Seq(Tree) /\ Len(sk) \in 1..3 /\ ck \in Seq(Tree) /\ Len(ck) = 1 /\ ck[1] = c /\ Head(sk) = sk[1]
  BY <1>1, KeyInTable DEF Tree
<1>3. IsPrefix(ck, sk) <=> Len(ck) <= Len(sk) /\ \A n \in 1..Len(ck) : ck[n] = sk[n]
  BY <1>2, PrefixAgrees
<1> QED
  BY <1>1, <1>2, <1>3

LEMMA QueriedByCycle ==
    ASSUME IInv, NEW kind, kind \subseteq Tree, NEW c \in Cycle
    PROVE  queryByPrefix(kind, <<c>>) = {i \in kind : Present(i) /\ Head(table[i].sk) = c}
BY UnderItsCycle DEF queryByPrefix

LEMMA ProgressIsInt == ASSUME IInv, NEW k \in KPI, Present(k) PROVE Progress(k) \in Int
<1>1. k \in Id
  BY DEF Id, Named
<1>2. table[k].value \in 0..1
  BY <1>1, TargetIsFiled DEF Record
<1>3. 100 * table[k].value \in {0, 100}
  BY <1>2
<1>4. PICK m \in {0, 100}, t \in Nat : m = 100 * table[k].value /\ t = Target
  BY <1>3, FilterAssumption
<1>5. t > 0 => m \div t \in Int
  BY <1>4
<1> QED
  BY <1>4, <1>5 DEF Progress

LEMMA ThreeParts ==
    ASSUME NEW S, IsFiniteSet(S), NEW A, NEW B, NEW C, S = A \cup B \cup C,
           A \cap B = {}, A \cap C = {}, B \cap C = {}
    PROVE  Cardinality(S) = Cardinality(A) + Cardinality(B) + Cardinality(C)
<1>1. IsFiniteSet(A) /\ IsFiniteSet(B) /\ IsFiniteSet(C)
  BY FS_Subset
<1>2. /\ Cardinality(A) \in Nat /\ Cardinality(B) \in Nat /\ Cardinality(C) \in Nat
      /\ Cardinality({}) = 0
  BY <1>1, FS_CardinalityType, FS_EmptySet
<1>3. /\ IsFiniteSet(A \cup B)
      /\ Cardinality(A \cup B) = Cardinality(A) + Cardinality(B) - Cardinality({})
  BY <1>1, FS_Union
<1>4. (A \cup B) \cap C = {} /\ S = (A \cup B) \cup C
  OBVIOUS
<1>5. Cardinality((A \cup B) \cup C) = Cardinality(A \cup B) + Cardinality(C) - Cardinality((A \cup B) \cap C)
  BY <1>1, <1>3, FS_Union
<1>6. Cardinality(S) = Cardinality(A \cup B) + Cardinality(C) - Cardinality({})
  BY <1>4, <1>5
<1> QED
  BY <1>2, <1>3, <1>6

LEMMA ListedIs ==
    /\ DOMAIN ListPerformanceCycles = {c \in Cycle : Present(c)}
    /\ \A c \in DOMAIN ListPerformanceCycles :
          /\ ListPerformanceCycles[c].quarters = queryByPrefix(Quarter, <<c>>)
          /\ ListPerformanceCycles[c].kpis = queryByPrefix(KPI, <<c>>)
          /\ ListPerformanceCycles[c].okrs = queryByPrefix(OKR, <<c>>)
          /\ ListPerformanceCycles[c].analytics = GetCycleAnalytics(c)
BY DEF ListPerformanceCycles, GetPerformanceCycleDetails, ListQuarters

LEMMA TotalsMatch == ASSUME IInv PROVE AnalyticsMatchLists
<1> SUFFICES ASSUME NEW c \in Cycle, Present(c)
             PROVE  LET a == GetCycleAnalytics(c) IN
                    /\ a.totalKPIs = Cardinality(DOMAIN ListKPIs(c, Every, Every))
                    /\ a.totalKPIs = a.kpisOnTrack + a.kpisAtRisk + a.kpisBehind
                    /\ a.totalOKRs = Cardinality(DOMAIN ListOKRs(c, Every))
                    /\ \A q \in ListQuarters(c) : GetQuarterAnalytics(q) = a
  BY ListedIs DEF AnalyticsMatchLists
<1>1. KPI \subseteq Tree /\ OKR \subseteq Tree /\ Quarter \subseteq Tree
  BY DEF Tree
<1>2. PICK S : S = queryByPrefix(KPI, <<c>>)
  OBVIOUS
<1>3. /\ S = {k \in KPI : Present(k) /\ Head(table[k].sk) = c}
      /\ queryByPrefix(OKR, <<c>>) = {o \in OKR : Present(o) /\ Head(table[o].sk) = c}
      /\ ListQuarters(c) = {q \in Quarter : Present(q) /\ Head(table[q].sk) = c}
  BY <1>1, <1>2, QueriedByCycle DEF ListQuarters
<1>4. PICK on, at, behind : /\ on = {k \in S : Progress(k) >= 90}
                            /\ at = {k \in S : Progress(k) >= 60 /\ Progress(k) < 90}
                            /\ behind = {k \in S : Progress(k) < 60}
  OBVIOUS
<1>5. PICK a : /\ a = GetCycleAnalytics(c)
               /\ a.totalKPIs = Cardinality(S) /\ a.kpisOnTrack = Cardinality(on)
               /\ a.kpisAtRisk = Cardinality(at) /\ a.kpisBehind = Cardinality(behind)
               /\ a.totalOKRs = Cardinality(queryByPrefix(OKR, <<c>>))
  <2>1. PICK a : a = GetCycleAnalytics(c)
    OBVIOUS
  <2>2. a = [totalKPIs |-> Cardinality(S), kpisOnTrack |-> Cardinality(on), kpisAtRisk |-> Cardinality(at),
             kpisBehind |-> Cardinality(behind), totalOKRs |-> Cardinality(queryByPrefix(OKR, <<c>>))]
    BY <1>2, <1>4, <2>1, Zenon DEF GetCycleAnalytics
  <2> QED
    BY <2>1, <2>2
<1>6. c # Every
  BY FilterAssumption
<1>7. DOMAIN ListKPIs(c, Every, Every) = S
  BY <1>3, <1>6 DEF ListKPIs, OfCycle, OfQuarter
<1>8. DOMAIN ListOKRs(c, Every) = queryByPrefix(OKR, <<c>>)
  BY <1>3, <1>6 DEF ListOKRs, OfCycle, OfQuarter
<1>9. Cardinality(S) = Cardinality(on) + Cardinality(at) + Cardinality(behind)
  <2>1. \A k \in S : Progress(k) \in Int
    BY <1>3, ProgressIsInt
  <2>2. IsFiniteSet(S)
    BY <1>3, FiniteAssumption, FS_Subset
  <2>3. S = on \cup at \cup behind /\ on \cap at = {} /\ on \cap behind = {} /\ at \cap behind = {}
    BY <1>4, <2>1
  <2> QED
    BY <2>2, <2>3, ThreeParts
<1>10. \A q \in ListQuarters(c) : GetQuarterAnalytics(q) = a
  BY <1>3, <1>5 DEF GetQuarterAnalytics
<1> QED
  BY <1>5, <1>7, <1>8, <1>9, <1>10

\* What hangs from a record that is there is found under its key.
LEMMA QueriedBelow ==
    ASSUME IInv, NEW i \in Tree, Present(i), Consistent(table[i].sk),
           NEW x \in Range(table[i].sk), Present(x), NEW kind, i \in kind
    PROVE  /\ i \in queryByPrefix(kind, table[x].sk)
           /\ x \in Tree /\ Head(table[x].sk) = Head(table[i].sk)
<1>1. PICK sk, xk : sk = table[i].sk /\ xk = table[x].sk
  OBVIOUS
<1>2. sk \in Seq(Tree) /\ x \in Tree
  BY <1>1, KeyInTable
<1>3. xk \in Seq(Tree) /\ xk # <<>> /\ IsPrefix(xk, sk)
  BY <1>1, <1>2, KeyInTable, TreeIsNamed DEF Consistent
<1>4. Head(xk) = Head(sk)
  BY <1>2, <1>3, PrefixOrder
<1> QED
  BY <1>1, <1>2, <1>3, <1>4 DEF queryByPrefix

LEMMA KPIIsShown ==
    ASSUME IInv, NEW i \in KPI, Present(i), NEW c \in Cycle, c = Head(table[i].sk), Present(c)
    PROVE  LET rec == table[i]
               Listed == ListPerformanceCycles IN
           /\ i \in Listed[c].kpis /\ i \in DOMAIN ListKPIs(c, rec.quarter, rec.parentKpiId)
           /\ rec.parent \in Listed[c].kpis => i \in GetKPIDetails(rec.parent).subKPIs
           /\ rec.parentKpiId \in Listed[c].kpis =>
                 i \in ListKPIs(Every, Every, Every)[rec.parentKpiId]
           /\ rec.quarter \in Listed[c].quarters => i \in GetQuarterDetails(rec.quarter).kpis
<1>1. KPI \subseteq Tree /\ Quarter \subseteq Tree
  BY DEF Tree
<1>2. PICK p, q, s : p = table[i].parent /\ q = table[i].quarter /\ s = table[i].parentKpiId
  OBVIOUS
<1>3. /\ queryByPrefix(KPI, <<c>>) = {k \in KPI : Present(k) /\ Head(table[k].sk) = c}
      /\ queryByPrefix(Quarter, <<c>>) = {k \in Quarter : Present(k) /\ Head(table[k].sk) = c}
  BY <1>1, QueriedByCycle
<1>4. /\ ListPerformanceCycles[c].kpis = queryByPrefix(KPI, <<c>>)
      /\ ListPerformanceCycles[c].quarters = queryByPrefix(Quarter, <<c>>)
  BY ListedIs
<1>5. i \in ListPerformanceCycles[c].kpis
  BY <1>3, <1>4
<1>6. i \in DOMAIN ListKPIs(c, q, s)
  BY <1>2 DEF ListKPIs, OfCycle, OfQuarter
<1>7. ASSUME p \in ListPerformanceCycles[c].kpis
      PROVE  i \in GetKPIDetails(p).subKPIs
  <2>1. p \in KPI /\ Present(p) /\ Head(table[p].sk) = c
    BY <1>3, <1>4, <1>7
  <2>2. i \in {sub \in queryByPrefix(KPI, <<Head(table[p].sk)>>) : table[sub].parent = p}
    BY <1>2, <1>3, <2>1
  <2>3. GetKPIDetails(p) = [subKPIs |-> {sub \in queryByPrefix(KPI, <<Head(table[p].sk)>>) : table[sub].parent = p},
                            valueHistory |-> queryByPrefix(KPIValue, table[p].sk)]
    BY <2>1 DEF GetKPIDetails
  <2> QED
    BY <2>2, <2>3
<1>9. ASSUME s \in ListPerformanceCycles[c].kpis PROVE i \in ListKPIs(Every, Every, Every)[s]
  <2>1. s \in KPI /\ Present(s)
    BY <1>3, <1>4, <1>9
  <2> QED
    BY <1>2, <2>1 DEF ListKPIs, OfCycle, OfQuarter
<1>8. ASSUME q \in ListPerformanceCycles[c].quarters PROVE i \in GetQuarterDetails(q).kpis
  <2>1. q \in Quarter /\ Present(q) /\ Head(table[q].sk) = c
    BY <1>3, <1>4, <1>8
  <2>2. i \in {k \in queryByPrefix(KPI, <<Head(table[q].sk)>>) : table[k].quarter = q}
    BY <1>2, <1>3, <2>1
  <2>3. GetQuarterDetails(q).kpis = {k \in queryByPrefix(KPI, <<Head(table[q].sk)>>) : table[k].quarter = q}
    BY <2>1 DEF GetQuarterDetails
  <2> QED
    BY <2>2, <2>3
<1> QED
  BY <1>2, <1>5, <1>6, <1>7, <1>8, <1>9

LEMMA OKRIsShown ==
    ASSUME IInv, NEW i \in OKR, Present(i), NEW c \in Cycle, c = Head(table[i].sk), Present(c)
    PROVE  LET rec == table[i]
               Listed == ListPerformanceCycles IN
           /\ i \in Listed[c].okrs /\ i \in DOMAIN ListOKRs(c, rec.quarter)
           /\ rec.quarter \in Listed[c].quarters => i \in GetQuarterDetails(rec.quarter).okrs
<1>1. OKR \subseteq Tree /\ Quarter \subseteq Tree
  BY DEF Tree
<1>2. PICK q : q = table[i].quarter
  OBVIOUS
<1>3. /\ queryByPrefix(OKR, <<c>>) = {k \in OKR : Present(k) /\ Head(table[k].sk) = c}
      /\ queryByPrefix(Quarter, <<c>>) = {k \in Quarter : Present(k) /\ Head(table[k].sk) = c}
  BY <1>1, QueriedByCycle
<1>4. /\ ListPerformanceCycles[c].okrs = queryByPrefix(OKR, <<c>>)
      /\ ListPerformanceCycles[c].quarters = queryByPrefix(Quarter, <<c>>)
  BY ListedIs
<1>5. i \in ListPerformanceCycles[c].okrs
  BY <1>3, <1>4
<1>6. i \in DOMAIN ListOKRs(c, q)
  BY <1>2 DEF ListOKRs, OfCycle, OfQuarter
<1>7. ASSUME q \in ListPerformanceCycles[c].quarters PROVE i \in GetQuarterDetails(q).okrs
  <2>1. q \in Quarter /\ Present(q) /\ Head(table[q].sk) = c
    BY <1>3, <1>4, <1>7
  <2>2. i \in {k \in queryByPrefix(OKR, <<Head(table[q].sk)>>) : table[k].quarter = q}
    BY <1>2, <1>3, <2>1
  <2>3. GetQuarterDetails(q).okrs = {k \in queryByPrefix(OKR, <<Head(table[q].sk)>>) : table[k].quarter = q}
    BY <2>1 DEF GetQuarterDetails
  <2> QED
    BY <2>2, <2>3
<1> QED
  BY <1>2, <1>5, <1>6, <1>7

LEMMA KeyResultIsShown ==
    ASSUME IInv, NEW i \in KeyResult, Present(i), Consistent(table[i].sk), Present(table[i].parent)
    PROVE  /\ i \in GetOKRDetails(table[i].parent)
           /\ i \in ListOKRs(Head(table[i].sk), Every)[table[i].parent]
<1>1. PICK o : o = table[i].parent
  OBVIOUS
<1>2. i \in Tree /\ o \in OKR /\ o \in Range(table[i].sk)
  BY <1>1, KeyInTable DEF Tree
<1>3. i \in queryByPrefix(KeyResult, table[o].sk) /\ Head(table[o].sk) = Head(table[i].sk)
  BY <1>1, <1>2, QueriedBelow
<1>4. i \in GetOKRDetails(o)
  BY <1>1, <1>3 DEF GetOKRDetails, getKeyResultsForOKR
<1>5. i \in ListOKRs(Head(table[i].sk), Every)[o]
  BY <1>1, <1>2, <1>3 DEF ListOKRs, OfCycle, OfQuarter, getKeyResultsForOKR
<1> QED
  BY <1>1, <1>4, <1>5

LEMMA KPIValueIsShown ==
    ASSUME IInv, NEW i \in KPIValue, Present(i), Consistent(table[i].sk), Present(table[i].parent)
    PROVE  i \in GetKPIDetails(table[i].parent).valueHistory
<1>1. PICK k : k = table[i].parent
  OBVIOUS
<1>2. i \in Tree /\ i \in Id
  BY TreeIsNamed DEF Tree
<1>3. Placed(i, table[i])
  BY <1>2, TargetIsFiled
<1>4. k \in KPI /\ \E c \in Cycle : table[i].sk = <<c, k, i>>
  BY <1>1, <1>3 DEF Placed
<1>5. k \in Range(table[i].sk)
  BY <1>4, RangeOfKey
<1>6. i \in queryByPrefix(KPIValue, table[k].sk)
  BY <1>1, <1>2, <1>5, QueriedBelow
<1>7. GetKPIDetails(k).valueHistory = queryByPrefix(KPIValue, table[k].sk)
  BY <1>1 DEF GetKPIDetails
<1> QED
  BY <1>1, <1>6, <1>7

LEMMA MeetingNoteIsShown ==
    ASSUME IInv, NEW i \in MeetingNote, Present(i), Consistent(table[i].sk), Present(table[i].quarter)
    PROVE  i \in ListMeetingNotes(table[i].quarter) \cap GetQuarterDetails(table[i].quarter).meetingNotes
<1>1. PICK q : q = table[i].quarter
  OBVIOUS
<1>2. i \in Tree /\ i \in Id /\ MeetingNote \subseteq Tree
  BY TreeIsNamed DEF Tree
<1>3. Placed(i, table[i])
  BY <1>2, TargetIsFiled
<1>4. \E c \in Cycle : table[i].sk = <<c, q, i>>
  BY <1>1, <1>3 DEF Placed
<1>5. q \in Range(table[i].sk)
  BY <1>4, RangeOfKey
<1>6. i \in queryByPrefix(MeetingNote, table[q].sk) /\ Head(table[q].sk) = Head(table[i].sk)
  BY <1>1, <1>2, <1>5, QueriedBelow
<1>7. Head(table[i].sk) \in Cycle
  BY <1>2, KeyInTable
<1>8. i \in queryByPrefix(MeetingNote, <<Head(table[q].sk)>>)
  BY <1>2, <1>6, <1>7, QueriedByCycle
<1>9. GetQuarterDetails(q).meetingNotes =
         {k \in queryByPrefix(MeetingNote, <<Head(table[q].sk)>>) : table[k].quarter = q}
  BY <1>1 DEF GetQuarterDetails
<1> QED
  BY <1>1, <1>6, <1>8, <1>9 DEF ListMeetingNotes

\* What is attached to a goal is found under the key that names the goal.
LEMMA UnderItsGoal == \A g, i : IsPrefix(<<"GOAL", g>>, OfGoal(g, i))
<1> TAKE g, i
<1>1. PICK S, s, t : S = {"GOAL", g, i} /\ s = <<"GOAL", g>> /\ t = <<"GOAL", g, i>>
  OBVIOUS
<1>2. s \in Seq(S) /\ t \in Seq(S) /\ Len(s) = 2 /\ Len(t) = 3 /\ s[1] = t[1] /\ s[2] = t[2]
  BY <1>1
<1>3. \A n \in 1..2 : s[n] = t[n]
  BY <1>2
<1>4. IsPrefix(s, t)
  BY <1>2, <1>3, PrefixAgrees
<1> QED
  BY <1>1, <1>4 DEF OfGoal

LEMMA AttachedIsShown ==
    ASSUME IInv, NEW i \in Id \ Tree, Present(i), Present(table[i].parent)
    PROVE  LET rec == table[i]
               goal == GetGoalDetails(rec.parent, rec.owner) IN
           /\ i \in GoalEntry => i \in goal.subItems
           /\ i \in Task => i \in goal.privateTasks
           /\ i \in Tag => i[2] \in goal.taggedTeams /\ i[1] \in GetTeamGoals(i[2])
<1>1. PICK g, u : g = table[i].parent /\ u = table[i].owner
  OBVIOUS
<1>2. Placed(i, table[i])
  BY TargetIsFiled
<1>3. findGoalBase(g) # NotFound
  BY <1>1 DEF findGoalBase, NotFound, Present
<1>4. PICK goal : /\ goal = GetGoalDetails(g, u)
                  /\ goal.taggedTeams = GetGoalTeams(g)
                  /\ goal.subItems = OfGoals(GoalEntry, g)
                  /\ goal.privateTasks = {x \in OfGoals(Task, g) : table[x].owner = u}
  <2>1. GetGoalDetails(g, u) = [taggedTeams |-> GetGoalTeams(g), valueHistory |-> GetGoalValueHistory(g),
                                subItems |-> GetGoalSubItems(g), privateTasks |-> GetGoalTasks(g, u)]
    BY <1>3 DEF GetGoalDetails
  <2> QED
    BY <2>1 DEF GetGoalSubItems, GetGoalTasks
<1>5. \A kind, x : i \in kind /\ table[i].sk = OfGoal(g, x) => i \in OfGoals(kind, g)
  BY UnderItsGoal DEF OfGoals, queryByPrefix
<1>6. CASE i \in GoalEntry \cup Task
  <2>1. table[i].sk = OfGoal(g, i) /\ i \notin Tag
    BY <1>1, <1>2, <1>6, KindsApart DEF Placed
  <2> QED
    BY <1>1, <1>4, <1>5, <2>1
<1>7. CASE i \in Tag
  <2>1. table[i] = New(i, OfGoal(i[1], i[2]), i[1], None).rec
    BY <1>2, <1>7 DEF Placed
  <2>2. table[i].sk = OfGoal(g, i[2]) /\ g = i[1]
    BY <1>1, <2>1 DEF New
  <2>3. i \in OfGoals(Tag, g)
    BY <1>5, <1>7, <2>2
  <2>4. i[2] \in GetGoalTeams(g)
    BY <2>3 DEF GetGoalTeams
  <2>5. i[1] \in GetTeamGoals(i[2])
    BY <1>3, <1>7, <2>2 DEF GetTeamGoals, TaggedGoals
  <2>6. i \notin GoalEntry \cup Task
    BY <1>7, KindsApart
  <2> QED
    BY <1>1, <1>4, <2>2, <2>4, <2>5, <2>6
<1>8. i \in GoalEntry \cup Task \cup Tag
  BY DEF Id, Named, Tree
<1> QED
  BY <1>6, <1>7, <1>8

\* The lists and details of org-performance, whose filters run in the program over
\* what a query by a prefix returned, show every record in the table wherever the
\* records it hangs from are shown, and count what they list, at any moment, for
\* every record no two requests came to at once.
THEOREM RecordsAreShown == HSpec => []EveryRecordIsShown
<1>1. HInv => EveryRecordIsShown
  <2> SUFFICES ASSUME HInv PROVE EveryRecordIsShown
    OBVIOUS
  <2>1. IInv /\ TableHangs
    BY DEF HInv, SInv
  <2>2. AnalyticsMatchLists
    BY <2>1, TotalsMatch
  <2> DEFINE Shown(i) ==
           LET rec == table[i]
               c == Head(rec.sk)
               Listed == ListPerformanceCycles IN
              /\ i \in Cycle => i \in DOMAIN Listed
              /\ i \in Quarter => i \in Listed[c].quarters
              /\ i \in KPI =>
                    /\ i \in Listed[c].kpis /\ i \in DOMAIN ListKPIs(c, rec.quarter, rec.parentKpiId)
                    /\ rec.parent \in Listed[c].kpis => i \in GetKPIDetails(rec.parent).subKPIs
                    /\ rec.parentKpiId \in Listed[c].kpis =>
                          i \in ListKPIs(Every, Every, Every)[rec.parentKpiId]
                    /\ rec.quarter \in Listed[c].quarters => i \in GetQuarterDetails(rec.quarter).kpis
              /\ i \in OKR =>
                    /\ i \in Listed[c].okrs /\ i \in DOMAIN ListOKRs(c, rec.quarter)
                    /\ rec.quarter \in Listed[c].quarters => i \in GetQuarterDetails(rec.quarter).okrs
              /\ i \in KeyResult => /\ i \in GetOKRDetails(rec.parent)
                                    /\ i \in ListOKRs(c, Every)[rec.parent]
              /\ i \in KPIValue /\ Present(rec.parent) => i \in GetKPIDetails(rec.parent).valueHistory
              /\ i \in MeetingNote /\ Present(rec.quarter) =>
                    i \in ListMeetingNotes(rec.quarter) \cap GetQuarterDetails(rec.quarter).meetingNotes
              /\ c = "GOAL" /\ Present(rec.parent) =>
                    LET goal == GetGoalDetails(rec.parent, rec.owner) IN
                    /\ i \in GoalEntry => i \in goal.subItems
                    /\ i \in Task => i \in goal.privateTasks
                    /\ i \in Tag => i[2] \in goal.taggedTeams /\ i[1] \in GetTeamGoals(i[2])
  <2>3. ASSUME NEW i \in Id, Present(i), i \notin disturbed, Ancestors(i) \cap disturbed = {},
               ~AboutToBeDeleted(i)
        PROVE  Shown(i)
    <3>1. CASE i \in Tree
      <4>1. PICK c : c = Head(table[i].sk)
        OBVIOUS
      <4>2. c \in Cycle /\ Range(table[i].sk) \subseteq Tree
        BY <2>1, <2>3, <3>1, <4>1, KeyInTable
      <4>3. "GOAL" \notin Tree
        BY KindAssumption, TreeIsNamed
      <4>4. Clean(table[i].sk)
        BY <2>3, <4>2, <4>3 DEF Clean, Ancestors
      <4>5. Present(c) /\ (i \in KeyResult => Present(table[i].parent)) /\ Consistent(table[i].sk)
        BY <2>1, <2>3, <3>1, <4>1, <4>4 DEF TableHangs, Rooted
      <4>6. i \in Cycle => i \in DOMAIN ListPerformanceCycles
        BY <2>3, ListedIs
      <4>7. i \in Quarter => i \in ListPerformanceCycles[c].quarters
        <5> SUFFICES ASSUME i \in Quarter PROVE i \in ListPerformanceCycles[c].quarters
          OBVIOUS
        <5>1. ListPerformanceCycles[c].quarters = queryByPrefix(Quarter, <<c>>) /\ Quarter \subseteq Tree
          BY <4>2, <4>5, ListedIs DEF Tree
        <5> QED
          BY <2>1, <2>3, <4>1, <4>2, <5>1, QueriedByCycle
      <4>8. c # "GOAL"
        BY <4>2, <4>3 DEF Tree
      <4> QED
        BY <2>1, <2>3, <4>1, <4>2, <4>5, <4>6, <4>7, <4>8, KPIIsShown, OKRIsShown, KeyResultIsShown,
           KPIValueIsShown, MeetingNoteIsShown
    <3>2. CASE i \notin Tree
      BY <2>1, <2>3, <3>2, AttachedIsShown DEF Tree
    <3> QED
      BY <3>1, <3>2
  <2>4. \A i \in Id : Present(i) /\ i \notin disturbed /\ Ancestors(i) \cap disturbed = {} =>
            AboutToBeDeleted(i) \/ Shown(i)
    BY <2>3
  <2> QED
    BY <2>2, <2>4, Zenon DEF EveryRecordIsShown
<1> QED
  BY <1>1, HInvHolds, PTL
=============================================================================
