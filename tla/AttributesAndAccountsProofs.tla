--------------------- MODULE AttributesAndAccountsProofs ---------------------
(***************************************************************************)
(* What two components keep that share nothing, for every instance of      *)
(* them and however the calls of the requests interleave.                  *)
(*                                                                         *)
(* TeamAttributes: its types, the default attributes of a team, and lists  *)
(* that show all there is; and, for the attributes that requests change    *)
(* one by one, updates that write back what is there.                      *)
(*                                                                         *)
(* Accounts: its types, the administrators of a sub-domain, who are the    *)
(* users of its pool, and the stages and comments, which are shown as they *)
(* were sent.                                                              *)
(***************************************************************************)
EXTENDS TeamAttributesOverlap, AccountsOverlap, FunctionTheorems, FiniteSetTheorems, SequenceTheorems, TLAPS

Keys == Attribute \X Team
Stored == TeamAttribute \cup Remnant
IsDefault(k) == table[k] # None /\ table[k].isDefault

\* A deletion trusts what it read a call earlier.  That it still holds rests
\* on ids: a default comes only under an id that was never drawn before, and
\* what a request is about to write or delete was.
Knows(q) == /\ q.pc \in {"put", "update", "delete"} => q.id \in drawn
            /\ q.pc \in {"put", "delete"} => ~IsDefault(<<q.id, q.team>>)
            /\ q.pc = "put" => ~q.item.isDefault
StoredIsDrawn == \A k \in Keys : table[k] # None => k[1] \in drawn

IInv == TypeOK /\ StoredIsDrawn /\ \A r \in Request : Knows(req[r])

LEMMA InitInv == Init => IInv
<1> SUFFICES ASSUME Init PROVE IInv
  OBVIOUS
<1>1. TypeOK
  <2>1. faults \in 0..MaxFaults
    BY BoundAssumption DEF Init
  <2> QED
    BY <2>1 DEF Init, TypeOK
<1>2. StoredIsDrawn /\ \A r \in Request : Knows(req[r])
  BY DEF Init, StoredIsDrawn, Knows, Idle, Keys
<1> QED
  BY <1>1, <1>2 DEF IInv
-----------------------------------------------------------------------------
(* Steps that leave the table alone.                                       *)

\* A request becomes another call, or idle.
LEMMA RequestMoves ==
    ASSUME IInv, NEW r \in Request, NEW call \in Call \cup {Idle},
           req' = [req EXCEPT ![r] = call], table' = table, role' = role,
           drawn \subseteq drawn', drawn' \subseteq Attribute, faults' \in 0..MaxFaults,
           Knows(call)'
    PROVE  IInv'
<1>1. TypeOK'
  BY DEF IInv, TypeOK
<1>2. StoredIsDrawn'
  BY DEF IInv, StoredIsDrawn
<1>3. ASSUME NEW s \in Request PROVE Knows(req[s])'
  <2>1. CASE s = r
    BY <2>1 DEF IInv, TypeOK
  <2>2. CASE s # r
    BY <2>2 DEF IInv, TypeOK, Knows, IsDefault
  <2> QED
    BY <2>1, <2>2
<1> QED
  BY <1>1, <1>2, <1>3 DEF IInv

LEMMA CreateBegins ==
    ASSUME IInv, NEW r \in Request, NEW t \in Team, NEW by \in User, NEW a \in Attribute,
           NEW type \in Type, NEW name \in Text, createCustomAttribute(r, t, by, a, type, name)
    PROVE  IInv'
<1>1. PICK call : call = [pc |-> "put", id |-> a, team |-> t,
          item |-> [type |-> type, name |-> name, desc |-> name, isDefault |-> FALSE, createdBy |-> by]]
  OBVIOUS
<1>2. call \in Call /\ call.pc = "put" /\ call.id = a /\ call.team = t /\ ~call.item.isDefault
  BY <1>1 DEF Call, TeamAttribute
<1>3. a \notin drawn /\ drawn' = drawn \cup {a} /\ UNCHANGED <<table, role, faults>>
  BY DEF createCustomAttribute, Begin
<1>4. Knows(call)'
  BY <1>2, <1>3 DEF Knows, IsDefault, IInv, StoredIsDrawn, Keys
<1>5. req' = [req EXCEPT ![r] = call]
  BY <1>1 DEF createCustomAttribute, Begin
<1> QED
  BY <1>2, <1>3, <1>4, <1>5, RequestMoves DEF IInv, TypeOK

LEMMA ChangeBegins ==
    ASSUME IInv, NEW r \in Request, NEW t \in Team, NEW by \in User, NEW a \in Attribute,
           NEW patch \in [Field -> Text \cup {None}],
           updateCustomAttribute(r, t, by, a, patch) \/ deleteCustomAttribute(r, t, by, a)
    PROVE  IInv'
<1>1. UNCHANGED <<drawn, table, role, faults>>
  BY DEF updateCustomAttribute, deleteCustomAttribute, Begin
<1>2. PICK call : /\ req' = [req EXCEPT ![r] = call]
                  /\ \/ call = [pc |-> "read", id |-> a, team |-> t, patch |-> patch]
                     \/ call = [pc |-> "readToDelete", id |-> a, team |-> t]
  BY DEF updateCustomAttribute, deleteCustomAttribute, Begin
<1>3. call \in Call /\ call.pc \in {"read", "readToDelete"}
  BY <1>2 DEF Call
<1>4. Knows(call)'
  BY <1>3 DEF Knows
<1> QED
  BY <1>1, <1>2, <1>3, <1>4, RequestMoves DEF IInv, TypeOK

LEMMA StopKeeps ==
    ASSUME IInv, NEW r \in Request, req' = [req EXCEPT ![r] = Idle],
           UNCHANGED <<table, role, drawn>>, faults' \in 0..MaxFaults
    PROVE  IInv'
<1>1. Knows(Idle)'
  BY DEF Knows, Idle
<1> QED
  BY <1>1, RequestMoves DEF IInv, TypeOK

\* What was found is stored, so its id was drawn; and what may be deleted is
\* no default.
LEMMA ReadKeeps ==
    ASSUME IInv, NEW r \in Request, GetAttributeById(r) \/ ReadToDelete(r)
    PROVE  IInv'
<1>1. UNCHANGED <<table, drawn, role, faults>>
  BY DEF GetAttributeById, ReadToDelete, Goto
<1>2. req[r] \in Call /\ req[r].id \in Attribute /\ req[r].team \in Team
  BY DEF GetAttributeById, ReadToDelete, IInv, TypeOK, Idle, Call
<1>3. CASE req' = [req EXCEPT ![r] = Idle]
  BY <1>1, <1>3, StopKeeps DEF IInv, TypeOK
<1>4. CASE GetAttributeById(r) /\ Found(Key(r)) # {}
  <2>1. req[r].pc = "read" /\ req[r].patch \in [Field -> Text \cup {None}]
    BY <1>4, <1>2 DEF GetAttributeById, Call
  <2>2. PICK old \in Found(Key(r)) :
            req' = [req EXCEPT ![r] =
                       [pc |-> "update", id |-> req[r].id, team |-> req[r].team, patch |-> req[r].patch,
                        name |-> Patched(old, req[r].patch, "name"),
                        desc |-> Patched(old, req[r].patch, "desc")]]
    BY <1>4 DEF GetAttributeById, Goto
  <2>3. Key(r) \in Keys /\ old \in Stored /\ req[r].id \in drawn
    BY <1>2, <2>2 DEF Found, Key, Keys, IInv, TypeOK, StoredIsDrawn, Stored
  <2>4. old.name \in Text /\ old.desc \in Text
    BY <2>3 DEF Stored, TeamAttribute, Remnant
  <2>5. Patched(old, req[r].patch, "name") \in Text /\ Patched(old, req[r].patch, "desc") \in Text
    BY <2>1, <2>4 DEF Patched, Field
  <2>6. PICK call : call = [pc |-> "update", id |-> req[r].id, team |-> req[r].team,
                            patch |-> req[r].patch,
                            name |-> Patched(old, req[r].patch, "name"),
                            desc |-> Patched(old, req[r].patch, "desc")]
    OBVIOUS
  <2>7. call \in Call /\ call.pc = "update" /\ call.id \in drawn
    BY <1>2, <2>1, <2>3, <2>5, <2>6 DEF Call
  <2>8. Knows(call)'
    BY <1>1, <2>7 DEF Knows
  <2> QED
    BY <1>1, <2>2, <2>6, <2>7, <2>8, RequestMoves DEF IInv, TypeOK
<1>5. CASE ReadToDelete(r) /\ Deletable(Key(r))
  <2>1. req[r].pc = "readToDelete" /\ req' = [req EXCEPT ![r] = [req[r] EXCEPT !.pc = "delete"]]
    BY <1>5 DEF ReadToDelete, Goto
  <2>2. PICK call : call = [req[r] EXCEPT !.pc = "delete"]
    OBVIOUS
  <2>3. req[r] \in [pc : {"readToDelete", "delete"}, id : Attribute, team : Team]
    BY <1>2, <2>1 DEF Call
  <2>4. call \in Call /\ call.pc = "delete" /\ call.id = req[r].id /\ call.team = req[r].team
    BY <2>2, <2>3 DEF Call
  <2>5. Key(r) \in Keys /\ table[Key(r)] # None /\ ~table[Key(r)].isDefault
    BY <1>2, <1>5 DEF Key, Keys, Deletable
  <2>6. Knows(call)'
    BY <1>1, <2>4, <2>5 DEF Knows, IsDefault, Key, Keys, IInv, StoredIsDrawn
  <2> QED
    BY <1>1, <2>1, <2>2, <2>4, <2>6, RequestMoves DEF IInv, TypeOK
<1> QED
  BY <1>3, <1>4, <1>5 DEF GetAttributeById, ReadToDelete, Goto
-----------------------------------------------------------------------------
(* Steps that write to the table.                                          *)

\* A default stays what it is.
Remains(k) == IsDefault(k) => /\ table'[k] # None /\ table'[k].isDefault
                              /\ table'[k].type = table[k].type

LEMMA WriteKeeps ==
    ASSUME IInv, NEW r \in Request, NEW k \in Keys, NEW x \in Stored \cup {None},
           table' = [table EXCEPT ![k] = x], k[1] \in drawn,
           x # None /\ x.isDefault => IsDefault(k),
           Goto(r, Idle)
    PROVE  IInv'
<1>1. TypeOK'
  BY DEF IInv, TypeOK, Goto, Stored, Keys
<1>2. StoredIsDrawn'
  BY DEF IInv, TypeOK, StoredIsDrawn, Goto, Keys
<1>3. ASSUME NEW s \in Request PROVE Knows(req[s])'
  <2>1. CASE s = r
    BY <2>1 DEF IInv, TypeOK, Goto, Knows, Idle
  <2>2. CASE s # r
    <3>1. req'[s] = req[s] /\ drawn' = drawn /\ Knows(req[s])
      BY <2>2 DEF IInv, TypeOK, Goto
    <3>2. ASSUME NEW j, ~IsDefault(j), j \in Keys PROVE ~IsDefault(j)'
      BY <3>2 DEF IInv, TypeOK, IsDefault, Keys
    <3>3. req[s].pc \in {"put", "delete"} => <<req[s].id, req[s].team>> \in Keys
      BY DEF IInv, TypeOK, Call, Idle, Keys
    <3> QED
      BY <3>1, <3>2, <3>3 DEF Knows
  <2> QED
    BY <2>1, <2>2
<1> QED
  BY <1>1, <1>2, <1>3 DEF IInv

LEMMA WritesKeep ==
    ASSUME IInv, NEW r \in Request,
           CreateCustomAttribute(r) \/ UpdateAttribute(r) \/ DeleteAttribute(r)
    PROVE  IInv' /\ \A k \in Keys : Remains(k)
<1> DEFINE k == Key(r)
<1>1. req[r] \in Call /\ req[r].pc \in {"put", "update", "delete"} /\ Goto(r, Idle)
  BY DEF CreateCustomAttribute, UpdateAttribute, DeleteAttribute, IInv, TypeOK, Idle
<1>2. k \in Keys /\ k[1] = req[r].id /\ k[1] \in drawn /\ Knows(req[r])
  BY <1>1 DEF Key, Keys, Call, IInv, Knows
<1>3. table[k] \in Stored \cup {None}
  BY <1>2 DEF IInv, TypeOK, Keys, Stored
<1>4. \E x \in Stored \cup {None} :
          /\ table' = [table EXCEPT ![k] = x]
          /\ x # None /\ x.isDefault => IsDefault(k)
          /\ IsDefault(k) => x # None /\ x.isDefault /\ x.type = table[k].type
  <2>1. CASE CreateCustomAttribute(r)
    <3>1. req[r].pc = "put" /\ table' = [table EXCEPT ![k] = req[r].item]
      BY <2>1 DEF CreateCustomAttribute
    <3>2. req[r].item \in TeamAttribute
      BY <1>1, <3>1 DEF Call
    <3>3. ~req[r].item.isDefault /\ ~IsDefault(k)
      BY <1>2, <3>1 DEF Knows, Key
    <3> QED
      BY <3>1, <3>2, <3>3 DEF Stored
  <2>2. CASE UpdateAttribute(r)
    <3>1. /\ req[r].pc = "update"
          /\ table' = [table EXCEPT ![k] = Named(table[k], req[r].name, req[r].desc)]
      BY <2>2 DEF UpdateAttribute
    <3>2. req[r].name \in Text /\ req[r].desc \in Text
      BY <1>1, <3>1 DEF Call
    <3>3. PICK x : x = Named(table[k], req[r].name, req[r].desc)
      OBVIOUS
    <3>4. CASE table[k] = None
      <4>1. x \in Remnant /\ ~x.isDefault
        BY <3>2, <3>3, <3>4 DEF Named, Remnant
      <4> QED
        BY <3>1, <3>3, <3>4, <4>1 DEF Stored, IsDefault
    <3>5. CASE table[k] # None
      <4>1. x = [table[k] EXCEPT !.name = req[r].name, !.desc = req[r].desc]
        BY <3>3, <3>5 DEF Named
      <4>2. x \in Stored /\ x.isDefault = table[k].isDefault /\ x.type = table[k].type
        BY <1>3, <3>2, <3>5, <4>1 DEF Stored, TeamAttribute, Remnant
      <4>3. x # None
        BY <4>2, NoneAssumption DEF Stored
      <4> QED
        BY <3>1, <3>3, <3>5, <4>2, <4>3 DEF IsDefault
    <3> QED
      BY <3>4, <3>5
  <2>3. CASE DeleteAttribute(r)
    BY <1>2, <2>3 DEF DeleteAttribute, Knows, Key
  <2> QED
    BY <2>1, <2>2, <2>3
<1> HIDE DEF k
<1>5. PICK x \in Stored \cup {None} :
          /\ table' = [table EXCEPT ![k] = x]
          /\ x # None /\ x.isDefault => IsDefault(k)
          /\ IsDefault(k) => x # None /\ x.isDefault /\ x.type = table[k].type
  BY <1>4
<1>6. IInv'
  <2>1. PICK j \in Keys : j = k
    BY <1>2
  <2> QED
    BY <1>1, <1>2, <1>5, <2>1, WriteKeeps
<1>7. ASSUME NEW j \in Keys PROVE Remains(j)
  BY <1>2, <1>5 DEF Remains, IsDefault, IInv, TypeOK, Keys
<1> QED
  BY <1>6, <1>7

\* Defaults come under ids of their own, where nothing was.
LEMMA DefaultsKeep ==
    ASSUME IInv, NEW t \in Team, NEW by \in User, InitializeDefaultAttributes(t, by)
    PROVE  IInv' /\ \A k \in Keys : Remains(k)
<1>1. PICK processed \in SUBSET DOMAIN Default :
          table' = [k \in Keys |->
              IF k[2] = t /\ k[1] \in processed
                THEN [type |-> Default[k[1]], name |-> CHOOSE x \in Text : TRUE,
                      desc |-> CHOOSE x \in Text : TRUE, isDefault |-> TRUE, createdBy |-> by]
                ELSE table[k]]
  BY DEF InitializeDefaultAttributes, Keys
<1>2. /\ DOMAIN Default \cap drawn = {} /\ drawn' = drawn \cup DOMAIN Default
      /\ UNCHANGED <<role, req, faults>>
  BY DEF InitializeDefaultAttributes
<1>3. PICK text \in Text : text = CHOOSE x \in Text : TRUE
  BY DefaultAssumption
<1>4. ASSUME NEW k \in Keys
      PROVE  /\ table'[k] \in Stored \cup {None}
             /\ table'[k] # None => k[1] \in drawn'
             /\ k[1] \in drawn => table'[k] = table[k]
  <2>1. CASE k[2] = t /\ k[1] \in processed
    <3>1. Default[k[1]] \in Type /\ k[1] \in DOMAIN Default
      BY <2>1, DefaultAssumption
    <3>2. table'[k] = [type |-> Default[k[1]], name |-> text, desc |-> text,
                       isDefault |-> TRUE, createdBy |-> by]
      BY <1>1, <1>3, <2>1
    <3>3. table'[k] \in TeamAttribute
      BY <3>1, <3>2 DEF TeamAttribute
    <3> QED
      BY <1>2, <3>1, <3>3 DEF Stored
  <2>2. CASE ~(k[2] = t /\ k[1] \in processed)
    BY <1>1, <1>2, <2>2 DEF IInv, TypeOK, StoredIsDrawn, Keys, Stored
  <2> QED
    BY <2>1, <2>2
<1>5. TypeOK'
  <2>1. table' \in [Attribute \X Team -> TeamAttribute \cup Remnant \cup {None}]
    BY <1>1, <1>4 DEF Keys, Stored
  <2> QED
    BY <1>2, <2>1, DefaultAssumption DEF IInv, TypeOK
<1>6. StoredIsDrawn'
  BY <1>4 DEF StoredIsDrawn
<1>7. ASSUME NEW s \in Request PROVE Knows(req[s])'
  <2>1. req[s].pc \in {"put", "delete"} =>
            <<req[s].id, req[s].team>> \in Keys /\ req[s].id \in drawn
    BY DEF IInv, TypeOK, Call, Idle, Keys, Knows
  <2>2. req[s].pc \in {"put", "delete"} =>
            table'[<<req[s].id, req[s].team>>] = table[<<req[s].id, req[s].team>>]
    BY <1>4, <2>1
  <2> QED
    BY <1>2, <2>2 DEF IInv, Knows, IsDefault
<1>8. ASSUME NEW k \in Keys PROVE Remains(k)
  BY <1>4 DEF Remains, IsDefault, IInv, StoredIsDrawn
<1> QED
  BY <1>5, <1>6, <1>7, <1>8 DEF IInv
-----------------------------------------------------------------------------
LEMMA NextInv == IInv /\ [Next]_vars => IInv' /\ \A k \in Keys : Remains(k)
<1> SUFFICES ASSUME IInv, [Next]_vars PROVE IInv' /\ \A k \in Keys : Remains(k)
  OBVIOUS
<1>1. table' = table => \A k \in Keys : Remains(k)
  BY DEF Remains, IsDefault
<1>2. CASE UNCHANGED vars
  BY <1>1, <1>2 DEF IInv, TypeOK, StoredIsDrawn, Knows, IsDefault, vars
<1>3. CASE ChangeRole
  <2>1. TypeOK'
    BY <1>3 DEF ChangeRole, IInv, TypeOK
  <2> QED
    BY <1>1, <1>3, <2>1 DEF ChangeRole, IInv, StoredIsDrawn, Knows, IsDefault
<1>4. ASSUME NEW t \in Team, NEW by \in User, NEW r \in Request, Handler(r, t, by)
      PROVE  IInv' /\ \A k \in Keys : Remains(k)
  <2>1. table' = table
    BY <1>4 DEF Handler, createCustomAttribute, updateCustomAttribute, deleteCustomAttribute, Begin
  <2>2. [f \in Field |-> None] \in [Field -> Text \cup {None}]
    OBVIOUS
  <2> QED
    BY <1>1, <1>4, <2>1, <2>2, CreateBegins, ChangeBegins DEF Handler
<1>5. ASSUME NEW r \in Request, Fail(r) PROVE IInv' /\ \A k \in Keys : Remains(k)
  <2>1. faults' \in 0..MaxFaults
    BY <1>5, BoundAssumption DEF Fail, IInv, TypeOK
  <2> QED
    BY <1>1, <1>5, <2>1, StopKeeps DEF Fail
<1>6. ASSUME NEW r \in Request, GetAttributeById(r) \/ ReadToDelete(r)
      PROVE  IInv' /\ \A k \in Keys : Remains(k)
  BY <1>1, <1>6, ReadKeeps DEF GetAttributeById, ReadToDelete
<1> QED
  BY <1>2, <1>3, <1>4, <1>5, <1>6, WritesKeep, DefaultsKeep DEF Next

LEMMA InvIsInductive == Spec => []IInv
<1> QED
  BY InitInv, NextInv, PTL DEF Spec

\* Every reachable state of TeamAttributes is well typed: what an update makes
\* of an attribute that is gone is a remnant, never half an attribute with a type.
THEOREM TypeCorrect == Spec => []TypeOK
<1>1. IInv => TypeOK
  BY DEF IInv
<1> QED
  BY <1>1, InvIsInductive, PTL

\* However many requests change and delete attributes at once, on what they
\* read a call earlier, no default of a team is lost or becomes its own.
THEOREM DefaultsAreKept == Spec => DefaultsRemain
<1> DEFINE Kept == \A t \in Team : \A a \in ListTeamAttributes(t, Type) :
                      table[<<a, t>>].isDefault =>
                          /\ a \in listTeamAttributes(t, Type)'.attributes[table[<<a, t>>].type]
                          /\ table'[<<a, t>>].isDefault
<1>1. IInv /\ [Next]_vars => Kept
  <2> SUFFICES ASSUME IInv, [Next]_vars, NEW t \in Team, NEW a \in ListTeamAttributes(t, Type),
                      table[<<a, t>>].isDefault
               PROVE  /\ a \in listTeamAttributes(t, Type)'.attributes[table[<<a, t>>].type]
                      /\ table'[<<a, t>>].isDefault
    OBVIOUS
  <2>1. <<a, t>> \in Keys /\ IsDefault(<<a, t>>) /\ table[<<a, t>>].type \in Type /\ a \in Attribute
    BY DEF ListTeamAttributes, Keys, IsDefault
  <2>2. Remains(<<a, t>>)
    BY <2>1, NextInv
  <2>3. a \in GetAttributesByType(t)'[table[<<a, t>>].type]
    BY <2>1, <2>2 DEF Remains, GetAttributesByType, ListTeamAttributes
  <2> QED
    BY <2>1, <2>2, <2>3 DEF Remains, listTeamAttributes
<1>2. Spec => [][Kept]_vars
  BY <1>1, InvIsInductive, PTL DEF Spec
<1> QED
  BY <1>2 DEF DefaultsRemain
-----------------------------------------------------------------------------
(* The attributes that requests change one by one: they are whole, and an    *)
(* update holds what is stored, but for what it was asked to change.         *)

Current(r, k) ==
    /\ table[k] # None
    /\ req[r].name = Patched(table[k], req[r].patch, "name")
    /\ req[r].desc = Patched(table[k], req[r].patch, "desc")

Sound(k) == /\ ~Meet(k)
            /\ table[k] # None => table[k] \in TeamAttribute
            /\ \A r \in Request : Changes(r, k) /\ req[r].pc = "update" => Current(r, k)
SInv == \A k \in Keys \ overlapped : Sound(k)

\* Requests change, and none but one that was so already is about to update.
LEMMA NoUpdateSound ==
    ASSUME NEW k \in Keys, Sound(k), ~Meet(k)', table'[k] = table[k],
           \A r \in Request : req'[r].pc = "update" => req'[r] = req[r]
    PROVE  Sound(k)'
<1>1. ASSUME NEW r \in Request, Changes(r, k)', req'[r].pc = "update" PROVE Current(r, k)'
  BY <1>1 DEF Sound, Changes, Key, Current
<1> QED
  BY <1>1 DEF Sound

\* Its own request writes an attribute and is done; there was no other.
LEMMA WrittenSound ==
    ASSUME IInv, NEW k \in Keys, Sound(k), ~Meet(k)', NEW r \in Request, Changes(r, k),
           Goto(r, Idle), table'[k] # None => table'[k] \in TeamAttribute
    PROVE  Sound(k)'
<1>1. \A s \in Request : ~Changes(s, k)'
  <2>1. req'[r] = Idle /\ \A s \in Request \ {r} : req'[s] = req[s]
    BY DEF Goto, IInv, TypeOK
  <2> QED
    BY <2>1 DEF Sound, Meet, Changes, Key
<1> QED
  BY <1>1 DEF Sound

LEMMA WritesSound ==
    ASSUME IInv, NEW k \in Keys, Sound(k), ~Meet(k)', NEW r \in Request,
           CreateCustomAttribute(r) \/ UpdateAttribute(r) \/ DeleteAttribute(r)
    PROVE  Sound(k)'
<1>1. req[r] \in Call /\ req[r] # Idle /\ Goto(r, Idle)
  BY DEF CreateCustomAttribute, UpdateAttribute, DeleteAttribute, IInv, TypeOK, Idle
<1>2. CASE Key(r) # k
  <2>1. table'[k] = table[k]
    BY <1>2 DEF CreateCustomAttribute, UpdateAttribute, DeleteAttribute, IInv, TypeOK, Keys
  <2>2. \A s \in Request : req'[s].pc = "update" => req'[s] = req[s]
    BY <1>1 DEF Goto, IInv, TypeOK, Idle
  <2> QED
    BY <2>1, <2>2, NoUpdateSound
<1>3. CASE Key(r) = k
  <2>1. Changes(r, k)
    BY <1>1, <1>3 DEF Changes
  <2>2. CASE CreateCustomAttribute(r)
    <3>1. table'[k] = req[r].item /\ req[r].item \in TeamAttribute
      BY <1>1, <1>3, <2>2 DEF CreateCustomAttribute, IInv, TypeOK, Keys, Call
    <3> QED
      BY <1>1, <2>1, <3>1, WrittenSound
  <2>3. CASE UpdateAttribute(r)
    <3>1. req[r].pc = "update" /\ table[k] \in TeamAttribute /\ table[k] # None
      BY <2>1, <2>3 DEF UpdateAttribute, Sound, Current
    <3>2. req[r].name \in Text /\ req[r].desc \in Text
      BY <1>1, <3>1 DEF Call
    <3>3. table'[k] = [table[k] EXCEPT !.name = req[r].name, !.desc = req[r].desc]
      BY <1>3, <2>3, <3>1 DEF UpdateAttribute, Named, IInv, TypeOK, Keys
    <3>4. table'[k] \in TeamAttribute
      BY <3>1, <3>2, <3>3 DEF TeamAttribute
    <3> QED
      BY <1>1, <2>1, <3>4, WrittenSound
  <2>4. CASE DeleteAttribute(r)
    <3>1. table'[k] = None
      BY <1>3, <2>4 DEF DeleteAttribute, IInv, TypeOK, Keys
    <3> QED
      BY <1>1, <2>1, <3>1, WrittenSound
  <2> QED
    BY <2>2, <2>3, <2>4
<1> QED
  BY <1>2, <1>3

\* What an update is about to write it has just read.
LEMMA ReadSound ==
    ASSUME IInv, NEW k \in Keys, Sound(k), ~Meet(k)', NEW r \in Request,
           GetAttributeById(r) \/ ReadToDelete(r)
    PROVE  Sound(k)'
<1>1. table' = table /\ req[r] # Idle /\ \A s \in Request \ {r} : req'[s] = req[s]
  BY DEF GetAttributeById, ReadToDelete, Goto, IInv, TypeOK, Idle
<1>2. CASE req'[r].pc # "update"
  BY <1>1, <1>2, NoUpdateSound
<1>3. CASE req'[r].pc = "update"
  <2>1. GetAttributeById(r) /\ Found(Key(r)) # {}
    <3>1. req[r] \in Call
      BY <1>1 DEF IInv, TypeOK
    <3>2. ASSUME ReadToDelete(r) PROVE req'[r].pc # "update"
      <4>1. req[r] \in [pc : {"readToDelete", "delete"}, id : Attribute, team : Team]
        BY <3>1, <3>2 DEF ReadToDelete, Call
      <4>2. PICK call : call = [req[r] EXCEPT !.pc = "delete"]
        OBVIOUS
      <4>3. call.pc = "delete"
        BY <4>1, <4>2
      <4>4. req'[r] = call \/ req'[r] = Idle
        BY <3>2, <4>2 DEF ReadToDelete, Goto, IInv, TypeOK
      <4> QED
        BY <4>3, <4>4 DEF Idle
    <3>3. Found(Key(r)) = {} /\ GetAttributeById(r) => req'[r] = Idle
      BY DEF GetAttributeById, Goto, IInv, TypeOK
    <3> QED
      BY <1>3, <3>2, <3>3 DEF Idle
  <2>2. PICK old \in Found(Key(r)) :
            req' = [req EXCEPT ![r] =
                       [pc |-> "update", id |-> req[r].id, team |-> req[r].team, patch |-> req[r].patch,
                        name |-> Patched(old, req[r].patch, "name"),
                        desc |-> Patched(old, req[r].patch, "desc")]]
    BY <2>1 DEF GetAttributeById, Goto
  <2>3. old = table[Key(r)] /\ old # None
    BY <2>2 DEF Found
  <2>4. /\ req'[r].id = req[r].id /\ req'[r].team = req[r].team /\ req'[r].patch = req[r].patch
        /\ req'[r].name = Patched(old, req[r].patch, "name")
        /\ req'[r].desc = Patched(old, req[r].patch, "desc")
    BY <2>2 DEF IInv, TypeOK
  <2>5. ASSUME NEW s \in Request, Changes(s, k)', req'[s].pc = "update" PROVE Current(s, k)'
    <3>1. CASE s = r
      <4>1. Key(r) = k
        BY <2>4, <2>5, <3>1 DEF Changes, Key
      <4> QED
        BY <1>1, <2>3, <2>4, <3>1, <4>1 DEF Current, Patched
    <3>2. CASE s # r
      BY <1>1, <2>5, <3>2 DEF Sound, Changes, Key, Current
    <3> QED
      BY <3>1, <3>2
  <2> QED
    BY <1>1, <2>5 DEF Sound
<1> QED
  BY <1>2, <1>3

\* A default comes under an id no request can have found.
LEMMA DefaultsSound ==
    ASSUME IInv, NEW k \in Keys, Sound(k), ~Meet(k)', NEW t \in Team, NEW by \in User,
           InitializeDefaultAttributes(t, by)
    PROVE  Sound(k)'
<1>1. PICK processed \in SUBSET DOMAIN Default :
          table' = [j \in Keys |->
              IF j[2] = t /\ j[1] \in processed
                THEN [type |-> Default[j[1]], name |-> CHOOSE x \in Text : TRUE,
                      desc |-> CHOOSE x \in Text : TRUE, isDefault |-> TRUE, createdBy |-> by]
                ELSE table[j]]
  BY DEF InitializeDefaultAttributes, Keys
<1>2. req' = req /\ DOMAIN Default \cap drawn = {}
  BY DEF InitializeDefaultAttributes
<1>3. CASE ~(k[2] = t /\ k[1] \in processed)
  BY <1>1, <1>2, <1>3, NoUpdateSound
<1>4. CASE k[2] = t /\ k[1] \in processed
  <2>1. PICK text \in Text : text = CHOOSE x \in Text : TRUE
    BY DefaultAssumption
  <2>2. table'[k] = [type |-> Default[k[1]], name |-> text, desc |-> text, isDefault |-> TRUE, createdBy |-> by]
    BY <1>1, <1>4, <2>1
  <2>3. table'[k] \in TeamAttribute
    BY <1>4, <2>2, DefaultAssumption DEF TeamAttribute
  <2>4. ASSUME NEW r \in Request, Changes(r, k)', req'[r].pc = "update" PROVE FALSE
    <3>1. req[r].id = k[1] /\ req[r].id \in drawn
      BY <1>2, <2>4 DEF Changes, Key, IInv, Knows
    <3> QED
      BY <1>2, <1>4, <3>1
  <2> QED
    BY <2>3, <2>4 DEF Sound
<1> QED
  BY <1>3, <1>4

LEMMA NextSound == IInv /\ SInv /\ [HNext]_<<vars, overlapped>> => SInv'
<1> SUFFICES ASSUME IInv, SInv, [HNext]_<<vars, overlapped>>, NEW k \in Keys, k \notin overlapped'
             PROVE  Sound(k)'
  BY DEF SInv
<1>1. CASE UNCHANGED <<vars, overlapped>>
  <2>1. Sound(k)
    BY <1>1 DEF SInv
  <2>2. ~Meet(k)'
    BY <1>1, <2>1 DEF Sound, Meet, Changes, Key, vars
  <2> QED
    BY <1>1, <2>1, <2>2, NoUpdateSound DEF vars
<1>2. CASE HNext
  <2>1. k \notin overlapped /\ ~Meet(k)' /\ Next
    BY <1>2 DEF HNext, Remember, Keys
  <2>2. Sound(k)
    BY <2>1 DEF SInv
  <2>3. ASSUME NEW t \in Team, NEW by \in User, NEW r \in Request, Handler(r, t, by) PROVE Sound(k)'
    <3>1. table' = table /\ \A s \in Request \ {r} : req'[s] = req[s]
      BY <2>3 DEF Handler, createCustomAttribute, updateCustomAttribute, deleteCustomAttribute, Begin,
         IInv, TypeOK
    <3>2. req'[r].pc \in {"put", "read", "readToDelete"}
      BY <2>3 DEF Handler, createCustomAttribute, updateCustomAttribute, deleteCustomAttribute, Begin,
         IInv, TypeOK
    <3> QED
      BY <2>1, <2>2, <3>1, <3>2, NoUpdateSound
  <2>4. ASSUME NEW r \in Request, Fail(r) PROVE Sound(k)'
    <3>1. table' = table /\ \A s \in Request : req'[s].pc = "update" => req'[s] = req[s]
      BY <2>4 DEF Fail, IInv, TypeOK, Idle
    <3> QED
      BY <2>1, <2>2, <3>1, NoUpdateSound
  <2>5. ASSUME ChangeRole PROVE Sound(k)'
    BY <2>1, <2>2, <2>5, NoUpdateSound DEF ChangeRole
  <2> QED
    BY <2>1, <2>2, <2>3, <2>4, <2>5, WritesSound, ReadSound, DefaultsSound DEF Next
<1> QED
  BY <1>1, <1>2

LEMMA SoundnessIsInductive == HSpec => [](IInv /\ SInv)
<1>1. HInit => IInv /\ SInv
  <2>1. HInit => SInv
    BY DEF HInit, Init, SInv, Sound, Meet, Changes, Keys
  <2> QED
    BY <2>1, InitInv DEF HInit
<1>2. IInv /\ SInv /\ [HNext]_<<vars, overlapped>> => IInv' /\ SInv'
  <2>1. [HNext]_<<vars, overlapped>> => [Next]_vars
    BY DEF HNext, vars
  <2> QED
    BY <2>1, NextInv, NextSound
<1> QED
  BY <1>1, <1>2, PTL DEF HSpec

\* A map that takes every attribute listed to the one group it is shown in.
LEMMA ListedOnce ==
    ASSUME NEW L, NEW S, IsFiniteSet(L), NEW group,
           S = {<<group[a], a>> : a \in L}
    PROVE  Cardinality(S) = Cardinality(L)
<1> DEFINE f == [a \in L |-> <<group[a], a>>]
<1>1. f \in Bijection(L, S)
  <2>1. f \in [L -> S] /\ \A a, b \in L : f[a] = f[b] => a = b
    OBVIOUS
  <2>2. \A s \in S : \E a \in L : f[a] = s
    OBVIOUS
  <2> QED
    BY <2>1, <2>2, Fun_IsBij
<1>2. ExistsBijection(L, S)
  BY <1>1 DEF ExistsBijection
<1> QED
  BY <1>2, FS_Bijection

\* However many requests are at work, a team's attributes are listed under their
\* types, none twice, as many as the total says; and at an attribute that requests
\* change one by one there is never a remnant, which no list would show.
THEOREM AttributesAreShown == HSpec => []EveryAttributeIsShown
<1>1. ASSUME IInv, SInv, NEW t \in Team
      PROVE  LET answer == listTeamAttributes(t, Type)
                 InList == {s \in Type \X Attribute : s[2] \in answer.attributes[s[1]]} IN
             /\ Cardinality(InList) = answer.total
             /\ \A a \in Attribute : table[<<a, t>>] # None /\ <<a, t>> \notin overlapped =>
                   \E type \in Type : <<type, a>> \in InList
  <2> DEFINE groups == listTeamAttributes(t, Type).attributes
             InList == {s \in Type \X Attribute : s[2] \in groups[s[1]]}
             Listed == ListTeamAttributes(t, Type)
             group == [a \in Attribute |-> table[<<a, t>>].type]
  <2>1. listTeamAttributes(t, Type).total = Cardinality(Listed)
    BY DEF listTeamAttributes
  <2>2. \A type \in Type : groups[type] = {a \in Listed : group[a] = type}
    BY DEF listTeamAttributes, GetAttributesByType, ListTeamAttributes
  <2>3. Listed \subseteq Attribute /\ \A a \in Listed : group[a] \in Type
    BY DEF ListTeamAttributes
  <2> HIDE DEF groups, Listed, group
  <2>4. InList = {<<group[a], a>> : a \in Listed}
    BY <2>2, <2>3
  <2>5. IsFiniteSet(Listed)
    BY <2>3, AttributeAssumption, FS_Subset
  <2>6. Cardinality(InList) = Cardinality(Listed)
    BY <2>4, <2>5, ListedOnce
  <2>7. ASSUME NEW a \in Attribute, table[<<a, t>>] # None, <<a, t>> \notin overlapped
        PROVE  \E type \in Type : <<type, a>> \in InList
    <3>1. <<a, t>> \in Keys
      BY DEF Keys
    <3>2. table[<<a, t>>] \in TeamAttribute
      BY <1>1, <2>7, <3>1 DEF SInv, Sound
    <3>3. table[<<a, t>>].type \in Type
      BY <3>2 DEF TeamAttribute
    <3>4. a \in Listed /\ group[a] = table[<<a, t>>].type
      BY <2>7, <3>3 DEF ListTeamAttributes, Listed, group
    <3> QED
      BY <2>2, <3>3, <3>4
  <2> QED
    BY <2>1, <2>6, <2>7 DEF groups
<1>2. IInv /\ SInv => EveryAttributeIsShown
  BY <1>1 DEF EveryAttributeIsShown
<1> QED
  BY <1>2, SoundnessIsInductive, PTL

\* An update of an attribute that requests change one by one writes the field it was
\* not given as it is stored, though it was read a call earlier.
THEOREM UpdatesKeepTheOther == HSpec => OneFieldKeepsTheOther
<1> DEFINE Kept == \A r \in Request :
              req[r].pc = "update" /\ Key(r) \notin overlapped' /\ table'[Key(r)] # table[Key(r)] =>
                  \A f \in Field : req[r].patch[f] = None => table'[Key(r)][f] = table[Key(r)][f]
<1>1. ASSUME IInv, SInv, Next, overlapped \subseteq overlapped',
             NEW r \in Request, req[r].pc = "update", Key(r) \notin overlapped',
             table'[Key(r)] # table[Key(r)], NEW f \in Field, req[r].patch[f] = None
      PROVE  table'[Key(r)][f] = table[Key(r)][f]
  <2>1. req[r] \in Call /\ req[r] # Idle /\ Key(r) \in Keys
    BY <1>1 DEF IInv, TypeOK, Idle, Call, Key, Keys
  <2>2. PICK k \in Keys : k = Key(r)
    BY <2>1
  <2>3. Sound(k) /\ Changes(r, k)
    BY <1>1, <2>1, <2>2 DEF SInv, Changes
  <2>4. Current(r, k) /\ table[k] \in TeamAttribute
    BY <1>1, <2>3 DEF Sound, Current
  <2>5. ASSUME NEW s \in Request, s # r PROVE Key(s) # k \/ req[s] = Idle
    BY <2>3, <2>5 DEF Sound, Meet, Changes
  <2>6. ~\E t \in Team, by \in User : InitializeDefaultAttributes(t, by)
    <3>1. ASSUME NEW t \in Team, NEW by \in User, InitializeDefaultAttributes(t, by) PROVE FALSE
      <4>1. k[1] \in drawn
        BY <1>1, <2>4, <2>2 DEF Current, IInv, StoredIsDrawn, Keys
      <4>2. table'[k] = table[k]
        BY <3>1, <4>1, <2>2 DEF InitializeDefaultAttributes, Keys
      <4> QED
        BY <1>1, <2>2, <4>2
    <3> QED
      BY <3>1
  <2>7. UpdateAttribute(r)
    <3>1. PICK s \in Request : CreateCustomAttribute(s) \/ UpdateAttribute(s) \/ DeleteAttribute(s)
      <4>1. table' # table
        BY <1>1
      <4>2. ASSUME NEW t \in Team, NEW by \in User, NEW s \in Request, Handler(s, t, by) PROVE FALSE
        BY <4>1, <4>2 DEF Handler, createCustomAttribute, updateCustomAttribute, deleteCustomAttribute, Begin
      <4>3. ~ChangeRole /\ \A s \in Request : ~GetAttributeById(s) /\ ~ReadToDelete(s) /\ ~Fail(s)
        BY <4>1 DEF GetAttributeById, ReadToDelete, Fail, ChangeRole
      <4> QED
        BY <1>1, <2>6, <4>2, <4>3 DEF Next
    <3>2. req[s] # Idle
      BY <3>1 DEF CreateCustomAttribute, UpdateAttribute, DeleteAttribute, Idle
    <3>3. Key(s) # k => table'[k] = table[k]
      BY <1>1, <3>1 DEF CreateCustomAttribute, UpdateAttribute, DeleteAttribute, IInv, TypeOK, Keys
    <3>4. s = r
      BY <1>1, <2>2, <2>5, <3>2, <3>3
    <3> QED
      BY <1>1, <3>1, <3>4 DEF CreateCustomAttribute, DeleteAttribute
  <2>8. table'[k] = [table[k] EXCEPT !.name = req[r].name, !.desc = req[r].desc]
    BY <1>1, <2>2, <2>4, <2>7 DEF UpdateAttribute, Named, Current, IInv, TypeOK, Keys
  <2>9. table'[k].name = req[r].name /\ table'[k].desc = req[r].desc
    BY <2>4, <2>8 DEF TeamAttribute
  <2>10. CASE f = "name"
    <3>1. req[r].name = table[k].name
      BY <1>1, <2>4, <2>10 DEF Current, Patched
    <3> QED
      BY <2>2, <2>9, <2>10, <3>1
  <2>11. CASE f = "desc"
    <3>1. req[r].desc = table[k].desc
      BY <1>1, <2>4, <2>11 DEF Current, Patched
    <3> QED
      BY <2>2, <2>9, <2>11, <3>1
  <2> QED
    BY <2>10, <2>11 DEF Field
<1>2. IInv /\ SInv /\ [HNext]_<<vars, overlapped>> => [Kept]_vars
  BY <1>1 DEF HNext, Remember, vars
<1> QED
  BY <1>2, SoundnessIsInductive, PTL DEF HSpec, OneFieldKeepsTheOther
-----------------------------------------------------------------------------
(* The accounts the operator keeps, tenants and suppliers.                   *)

\* Of a stage the comments are counted, and an addition is of a sub-domain that is there.
StagesCounted == \A s \in Account \X StageId :
                     stages[s] # Absent => stages[s].count = Len(stages[s].comments)
AdditionsPlaced == \A r \in AdminRequest : addition[r] # Absent => subdomain[addition[r].key] # Absent

AInv == ATypeOK /\ StagesCounted /\ AdditionsPlaced

LEMMA AccountsInit == AInit => AInv
<1> HAVE AInit
<1>1. failures \in 0..MaxFailures
  BY FailuresAssumption DEF AInit
<1> QED
  BY <1>1 DEF AInit, AInv, ATypeOK, StagesCounted, AdditionsPlaced
-----------------------------------------------------------------------------
(* The steps, by the table they are of.                                      *)

ProfileStep(a) ==
    /\ profile' \in [Account -> Profile \cup {Absent}]
    /\ UNCHANGED <<stages, subdomain, users, addition, failures>>

StageStep(a, n) ==
    /\ \E c \in Comment, status \in Posted : AddNewStageData(a, n, c, status)
    /\ UNCHANGED <<profile, subdomain, users, addition, failures>>

SubDomainStep ==
    \E k \in DomainKey :
        \/ CreateTenantSubDomain(k)
        \/ \E p \in Pool : StackDeployed(k, p)
        \/ \E r \in AdminRequest, admin \in Admin : AddSubDomainAdmin(r, k, admin)

\* The id of a name is that of a stage, or 0.
LEMMA StageOfName ==
    ASSUME NEW name
    PROVE  /\ SetStageIdFromStageName_PatchTenantOverallStage(name) \in StageId \cup {0}
           /\ \A n \in StageId :
                 StageNames[n] = name =>
                     SetStageIdFromStageName_PatchTenantOverallStage(name) = n
           /\ (\A n \in StageId : StageNames[n] # name) =>
                 SetStageIdFromStageName_PatchTenantOverallStage(name) = 0
<1>1. \A m, n \in StageId : StageNames[m] = StageNames[n] => m = n
  BY DEF StageId, StageNames
<1> DEFINE Id == CHOOSE n \in StageId : StageNames[n] = name
<1>2. ASSUME NEW n \in StageId, StageNames[n] = name
      PROVE  Id \in StageId /\ StageNames[Id] = name
  BY <1>2
<1> HIDE DEF Id
<1>3. SetStageIdFromStageName_PatchTenantOverallStage(name) =
          IF \E n \in StageId : StageNames[n] = name THEN Id ELSE 0
  BY DEF Id, SetStageIdFromStageName_PatchTenantOverallStage
<1> QED
  BY <1>1, <1>2, <1>3

LEMMA ProfileSteps ==
    ASSUME ATypeOK, NEW a \in Account,
           manageTenantProfiles(a) \/ manageSupplierProfiles(a)
    PROVE  ProfileStep(a)
<1>1. \/ CreateTenantProfile(a)
      \/ \E env \in 0..1 : PatchTopLevelInfo(a, env)
      \/ \E c \in Contact, as \in {"primary", "other"} : PatchTenantContacts(a, c, as)
      \/ \E name \in Asked : PatchOverallStageId(a, name)
  BY DEF manageTenantProfiles, manageSupplierProfiles, CreateSupplierProfile,
     PatchSupplierTopLevelInfo, PatchSupplierContacts, PatchSupplierOverallStageId,
     PatchOverallStageId, SetStageIdFromStageName_PatchSupplierOverallStage
<1>2. profile \in [Account -> Profile \cup {Absent}]
  BY DEF ATypeOK
<1>3. \A p \in Profile : /\ p.stage \in StageId \cup {0} /\ p.env \in 0..1
                                 /\ p.contacts \in [Contact -> {Absent, "primary", "other"}]
  BY DEF Profile
<1>4. ASSUME NEW p \in Profile, profile' = [profile EXCEPT ![a] = p],
             UNCHANGED <<stages, subdomain, users, addition, failures>>
      PROVE  ProfileStep(a)
  BY <1>2, <1>4 DEF ProfileStep
<1>5. CASE CreateTenantProfile(a)
  <2> PICK c \in Contact : profile' = [profile EXCEPT ![a] =
                        [stage |-> 1, env |-> 0,
                         contacts |-> [d \in Contact |-> IF d = c THEN "primary" ELSE Absent]]]
    BY <1>5 DEF CreateTenantProfile
  <2>1. [stage |-> 1, env |-> 0, contacts |-> [d \in Contact |-> IF d = c THEN "primary" ELSE Absent]]
           \in Profile
    BY DEF Profile, StageId, StageNames
  <2> QED
    BY <1>4, <1>5, <2>1 DEF CreateTenantProfile, OnlyProfile
<1>6. ASSUME NEW env \in 0..1, PatchTopLevelInfo(a, env) PROVE ProfileStep(a)
  <2>1. profile[a] \in Profile
    BY <1>2, <1>6 DEF PatchTopLevelInfo
  <2>2. [profile[a] EXCEPT !.env = env] \in Profile
    BY <2>1 DEF Profile
  <2>3. profile' = [profile EXCEPT ![a] = [profile[a] EXCEPT !.env = env]]
    BY <1>2, <1>6 DEF PatchTopLevelInfo
  <2> QED
    BY <1>4, <1>6, <2>2, <2>3 DEF PatchTopLevelInfo, OnlyProfile
<1>7. ASSUME NEW c \in Contact, NEW as \in {"primary", "other"}, PatchTenantContacts(a, c, as)
      PROVE  ProfileStep(a)
  <2>1. profile[a] \in Profile
    BY <1>2, <1>7 DEF PatchTenantContacts
  <2>2. WithContact(profile[a].contacts, c, as) \in [Contact -> {Absent, "primary", "other"}]
    BY <2>1, <1>3 DEF WithContact
  <2> DEFINE new == [profile[a] EXCEPT !.contacts = WithContact(profile[a].contacts, c, as)]
  <2>3. new \in Profile
    BY <2>1, <2>2 DEF Profile
  <2>4. profile' = [profile EXCEPT ![a] = new]
    BY <1>2, <1>7 DEF PatchTenantContacts
  <2> QED
    BY <1>4, <1>7, <2>3, <2>4 DEF PatchTenantContacts, OnlyProfile
<1>8. ASSUME NEW name \in Asked, PatchOverallStageId(a, name) PROVE ProfileStep(a)
  <2> DEFINE id == SetStageIdFromStageName_PatchTenantOverallStage(name)
  <2>1. profile[a] \in Profile
    BY <1>2, <1>8 DEF PatchOverallStageId
  <2>2. [profile[a] EXCEPT !.stage = id] \in Profile
    BY <2>1, StageOfName DEF Profile
  <2>3. profile' = [profile EXCEPT ![a] = [profile[a] EXCEPT !.stage = id]]
    BY <1>2, <1>8 DEF PatchOverallStageId
  <2> QED
    BY <1>4, <1>8, <2>2, <2>3 DEF PatchOverallStageId, OnlyProfile
<1> QED
  BY <1>1, <1>5, <1>6, <1>7, <1>8

LEMMA StageSteps ==
    ASSUME NEW a \in Account, manageTenantStages(a) \/ manageSupplierStages(a)
    PROVE  \E n \in StageId : StageStep(a, n)
<1>1. \E c \in Comment, status \in Posted, n \in StageId :
          AddNewStageData(a, n, c, status)
  BY DEF manageTenantStages, manageSupplierStages, AddNewSupplierStageData,
     SetStageIdFromStageName_Post
<1> QED
  BY <1>1 DEF StageStep, AddNewStageData

\* What DynamoDB refuses changes nothing.
LEMMA SubDomainSteps ==
    ASSUME NEW a \in Account, manageTenantSubDomains(a) \/ manageSupplierSubDomains(a)
    PROVE  SubDomainStep \/ UNCHANGED avars
<1>1. \A s \in SubDomain : <<s, a>> \in DomainKey
  BY DEF DomainKey
<1>2. \E s \in SubDomain :
         \/ CreateTenantSubDomain(<<s, a>>)
         \/ UNCHANGED avars
         \/ \E r \in AdminRequest, admin \in Admin : AddSubDomainAdmin(r, <<s, a>>, admin)
  BY DEF manageTenantSubDomains, manageSupplierSubDomains, CreateSupplierSubDomain,
     UpdateSubDomainStackInfo, UpdateSupplierSubDomainStackInfo, AddSupplierSubDomainAdmin
<1> QED
  BY <1>1, <1>2 DEF SubDomainStep

LEMMA AccountSteps ==
    ASSUME ATypeOK, ANext
    PROVE  \/ \E a \in Account : ProfileStep(a)
           \/ \E a \in Account, n \in StageId : StageStep(a, n)
           \/ SubDomainStep
           \/ UNCHANGED avars
           \/ \E r \in AdminRequest : AdminCreateUser(r) \/ RecordAdmin(r) \/ FailAddition(r)
<1>1. Tenant \subseteq Account /\ Supplier \subseteq Account
  BY DEF Account
<1> QED
  BY <1>1, ProfileSteps, StageSteps, SubDomainSteps DEF ANext, SubDomainStep
-----------------------------------------------------------------------------
(* Each kind of step keeps the invariant.                                    *)

LEMMA ProfileStepKeeps ==
    ASSUME AInv, NEW a \in Account, ProfileStep(a)
    PROVE  AInv'
BY DEF AInv, ATypeOK, StagesCounted, AdditionsPlaced, ProfileStep

\* A comment is added to the last and counted.
LEMMA StageAdded ==
    ASSUME AInv, NEW a \in Account, NEW n \in StageId,
           NEW c \in Comment, NEW status \in Posted, AddNewStageData(a, n, c, status)
    PROVE  \E new \in StageItem :
              /\ stages' = [stages EXCEPT ![<<a, n>>] = new]
              /\ new.count = Len(new.comments)
              /\ stages[<<a, n>>] = Absent => new.comments = <<c>>
              /\ stages[<<a, n>>] # Absent => new.comments = Append(stages[<<a, n>>].comments, c)
<1> DEFINE old == stages[<<a, n>>]
           first == [count |-> 1, comments |-> <<c>>, status |-> status]
           next == [count |-> old.count + 1, comments |-> Append(old.comments, c), status |-> status]
<1>1. <<a, n>> \in Account \X StageId
  OBVIOUS
<1>2. old \in StageItem \cup {Absent} /\ (old # Absent => old.count = Len(old.comments))
  BY <1>1 DEF AInv, ATypeOK, StagesCounted
<1>3. stages' = [stages EXCEPT ![<<a, n>>] = IF old = Absent THEN first ELSE next]
  BY DEF AInv, ATypeOK, AddNewStageData, list_append
<1>4. CASE old = Absent
  <2>1. <<c>> \in Seq(Comment) /\ Len(<<c>>) = 1
    OBVIOUS
  <2>2. first \in StageItem /\ first.count = Len(first.comments)
    BY <2>1 DEF StageItem
  <2> QED
    BY <1>3, <1>4, <2>2
<1>5. CASE old # Absent
  <2>1. old.comments \in Seq(Comment) /\ old.count \in Nat
    BY <1>2, <1>5 DEF StageItem
  <2>2. Append(old.comments, c) \in Seq(Comment) /\ Len(Append(old.comments, c)) = Len(old.comments) + 1
    BY <2>1
  <2>3. next \in StageItem /\ next.count = Len(next.comments)
    BY <1>2, <1>5, <2>1, <2>2 DEF StageItem
  <2> QED
    BY <1>3, <1>5, <2>3
<1> QED
  BY <1>4, <1>5

LEMMA StageStepKeeps ==
    ASSUME AInv, NEW a \in Account, NEW n \in StageId, StageStep(a, n)
    PROVE  AInv'
<1>1. PICK c \in Comment, status \in Posted : AddNewStageData(a, n, c, status)
  BY DEF StageStep
<1>2. PICK new \in StageItem : /\ stages' = [stages EXCEPT ![<<a, n>>] = new]
                                        /\ new.count = Len(new.comments)
  BY <1>1, StageAdded
<1>3. stages \in [Account \X StageId -> StageItem \cup {Absent}]
  BY DEF AInv, ATypeOK
<1>4. stages' \in [Account \X StageId -> StageItem \cup {Absent}] /\ StagesCounted'
  BY <1>2, <1>3 DEF AInv, StagesCounted
<1> QED
  BY <1>4 DEF StageStep, AInv, ATypeOK, AdditionsPlaced

LEMMA SubDomainStepKeeps ==
    ASSUME AInv, SubDomainStep
    PROVE  AInv'
<1>1. PICK k \in DomainKey :
        \/ CreateTenantSubDomain(k)
        \/ \E p \in Pool : StackDeployed(k, p)
        \/ \E r \in AdminRequest, admin \in Admin : AddSubDomainAdmin(r, k, admin)
  BY DEF SubDomainStep
<1>2. subdomain \in [DomainKey -> SubDomainItem \cup {Absent}]
  BY DEF AInv, ATypeOK
<1>3. ASSUME NEW item \in SubDomainItem, subdomain' = [subdomain EXCEPT ![k] = item],
             UNCHANGED <<profile, stages, users, addition, failures>>
      PROVE  AInv'
  <2>1. subdomain' \in [DomainKey -> SubDomainItem \cup {Absent}]
    BY <1>2, <1>3
  <2>2. item # Absent
    BY NoItemAssumption
  <2>3. ASSUME NEW r \in AdminRequest, addition[r] # Absent PROVE subdomain'[addition[r].key] # Absent
    <3>1. addition[r].key \in DomainKey
      BY <2>3 DEF AInv, ATypeOK, Addition
    <3> QED
      BY <1>2, <1>3, <2>2, <2>3, <3>1 DEF AInv, AdditionsPlaced
  <2> QED
    BY <1>3, <2>1, <2>3 DEF AInv, ATypeOK, StagesCounted, AdditionsPlaced
<1>4. [pool |-> Absent, admins |-> <<>>] \in SubDomainItem
  BY DEF SubDomainItem
<1>5. CASE CreateTenantSubDomain(k)
  BY <1>3, <1>4, <1>5 DEF CreateTenantSubDomain, OnlySubDomain
<1>6. ASSUME NEW p \in Pool, StackDeployed(k, p) PROVE AInv'
  <2> DEFINE item == [subdomain[k] EXCEPT !.pool = p]
  <2>1. subdomain[k] \in SubDomainItem
    BY <1>2, <1>6 DEF StackDeployed
  <2>2. item \in SubDomainItem
    BY <2>1 DEF SubDomainItem
  <2>3. subdomain' = [subdomain EXCEPT ![k] = item]
    BY <1>2, <1>6 DEF StackDeployed
  <2> QED
    BY <1>3, <1>6, <2>2, <2>3 DEF StackDeployed, OnlySubDomain
<1>7. ASSUME NEW r \in AdminRequest, NEW admin \in Admin, AddSubDomainAdmin(r, k, admin) PROVE AInv'
  <2> DEFINE new == [key |-> k, pool |-> subdomain[k].pool, admin |-> admin, at |-> "create"]
  <2>1. subdomain[k] # Absent /\ addition' = [addition EXCEPT ![r] = new]
    BY <1>7 DEF AddSubDomainAdmin, GetAllTenantSubDomains
  <2>2. new \in Addition
    BY <1>2, <1>7, <2>1 DEF AddSubDomainAdmin, SubDomainItem, Addition
  <2>3. addition' \in [AdminRequest -> Addition \cup {Absent}]
    BY <2>1, <2>2 DEF AInv, ATypeOK
  <2>4. AdditionsPlaced'
    BY <1>7, <2>1 DEF AInv, ATypeOK, AdditionsPlaced, AddSubDomainAdmin
  <2> QED
    BY <1>7, <2>3, <2>4 DEF AInv, ATypeOK, StagesCounted, AddSubDomainAdmin, OnlySubDomain
<1> QED
  BY <1>1, <1>5, <1>6, <1>7

\* A step of an addition creates its user or is refused it, lists it, or fails.
Ends(r) == addition' = [addition EXCEPT ![r] = Absent]
UserCreated(r) ==
    /\ addition[r].at = "create" /\ addition[r].admin \notin users[addition[r].pool]
    /\ addition' = [addition EXCEPT ![r] = [addition[r] EXCEPT !.at = "record"]]
    /\ users' = [users EXCEPT ![addition[r].pool] = @ \cup {addition[r].admin}]
    /\ UNCHANGED <<subdomain, failures>>
UserRefused(r) == Ends(r) /\ addition[r].at = "create" /\ UNCHANGED <<subdomain, users, failures>>
AdminListed(r) ==
    /\ Ends(r) /\ addition[r].at = "record"
    /\ subdomain' = [subdomain EXCEPT ![addition[r].key] =
                        [subdomain[addition[r].key] EXCEPT !.admins = Append(@, addition[r].admin)]]
    /\ UNCHANGED <<users, failures>>
CallFailed(r) == Ends(r) /\ failures' > failures /\ failures' \in 0..MaxFailures /\ UNCHANGED <<subdomain, users>>

LEMMA AdditionStep ==
    ASSUME AInv, NEW r \in AdminRequest,
           AdminCreateUser(r) \/ RecordAdmin(r) \/ FailAddition(r)
    PROVE  /\ addition[r] \in Addition /\ UNCHANGED <<profile, stages>>
           /\ subdomain[addition[r].key] \in SubDomainItem
           /\ UserCreated(r) \/ UserRefused(r) \/ AdminListed(r) \/ CallFailed(r)
<1>1. addition[r] \in Addition /\ addition[r].key \in DomainKey
  BY DEF AInv, ATypeOK, AdminCreateUser, RecordAdmin, FailAddition, Addition
<1>2. subdomain[addition[r].key] \in SubDomainItem
  BY <1>1 DEF AInv, ATypeOK, AdditionsPlaced, AdminCreateUser, RecordAdmin, FailAddition
<1>3. CASE AdminCreateUser(r)
  <2>1. CASE addition[r].admin \notin users[addition[r].pool]
    BY <1>1, <1>2, <1>3, <2>1
    DEF UserCreated, AdminCreateUser, UserIsNew, AInv, ATypeOK
  <2>2. CASE addition[r].admin \in users[addition[r].pool]
    BY <1>1, <1>2, <1>3, <2>2 DEF UserRefused, Ends, AdminCreateUser, UserIsNew
  <2> QED
    BY <2>1, <2>2
<1>4. CASE RecordAdmin(r)
  BY <1>1, <1>2, <1>4
  DEF AdminListed, Ends, RecordAdmin, AdminAppended, OnlySubDomain, AInv, ATypeOK
<1>5. CASE FailAddition(r)
  <2>1. failures \in 0..MaxFailures /\ MaxFailures \in Nat
    BY FailuresAssumption DEF AInv, ATypeOK
  <2>2. failures' > failures /\ failures' \in 0..MaxFailures
    BY <1>5, <2>1 DEF FailAddition
  <2> QED
    BY <1>1, <1>2, <1>5, <2>2 DEF CallFailed, Ends, FailAddition
<1> QED
  BY <1>3, <1>4, <1>5

LEMMA AdditionFields ==
    ASSUME NEW q \in Addition
    PROVE  /\ q # Absent /\ q.key \in DomainKey /\ q.pool \in Pool /\ q.admin \in Admin
           /\ LET done == [q EXCEPT !.at = "record"] IN
              /\ done \in Addition /\ done # Absent
              /\ done.at = "record" /\ done.key = q.key /\ done.pool = q.pool /\ done.admin = q.admin
BY NoItemAssumption DEF Addition

LEMMA AdminAdded ==
    ASSUME NEW item \in SubDomainItem, NEW admin \in Admin
    PROVE  LET longer == [item EXCEPT !.admins = Append(@, admin)] IN
           /\ longer \in SubDomainItem /\ longer # Absent
           /\ longer.pool = item.pool /\ longer.admins = Append(item.admins, admin)
           /\ item.admins \in Seq(Admin)
<1> DEFINE longer == [item EXCEPT !.admins = Append(@, admin)]
<1>1. /\ longer \in SubDomainItem
      /\ longer.pool = item.pool /\ longer.admins = Append(item.admins, admin)
      /\ item.admins \in Seq(Admin)
  BY DEF SubDomainItem
<1>2. longer # Absent
  BY <1>1, NoItemAssumption
<1> QED
  BY <1>1, <1>2

LEMMA AdditionStepKeeps ==
    ASSUME AInv, NEW r \in AdminRequest,
           AdminCreateUser(r) \/ RecordAdmin(r) \/ FailAddition(r)
    PROVE  AInv'
<1> DEFINE q == addition[r]   item == subdomain[q.key]
<1>1. /\ q \in Addition /\ item \in SubDomainItem /\ UNCHANGED <<profile, stages>>
      /\ UserCreated(r) \/ UserRefused(r) \/ AdminListed(r) \/ CallFailed(r)
  BY AdditionStep
<1>2. q.key \in DomainKey /\ q.pool \in Pool /\ q.admin \in Admin /\ q # Absent
  BY <1>1, AdditionFields
<1>3. ATypeOK /\ AdditionsPlaced
  BY DEF AInv
<1>4. /\ addition' \in [AdminRequest -> Addition \cup {Absent}]
      /\ \A s \in AdminRequest : addition'[s] # Absent => addition[s] # Absent /\ addition'[s].key = addition[s].key
  <2>1. CASE Ends(r)
    BY <1>3, <2>1 DEF Ends, ATypeOK
  <2>2. CASE UserCreated(r)
    <3> DEFINE done == [q EXCEPT !.at = "record"]
    <3>1. done \in Addition /\ done.key = q.key
      BY <1>1, AdditionFields
    <3>2. addition' = [addition EXCEPT ![r] = done]
      BY <2>2 DEF UserCreated
    <3> QED
      BY <1>2, <1>3, <3>1, <3>2 DEF ATypeOK
  <2> QED
    BY <1>1, <2>1, <2>2 DEF UserRefused, AdminListed, CallFailed
<1>5. /\ subdomain' \in [DomainKey -> SubDomainItem \cup {Absent}]
      /\ \A k \in DomainKey : subdomain[k] # Absent => subdomain'[k] # Absent
  <2>1. CASE subdomain' = subdomain
    BY <1>3, <2>1 DEF ATypeOK
  <2>2. CASE AdminListed(r)
    <3> DEFINE longer == [item EXCEPT !.admins = Append(@, q.admin)]
    <3>1. longer \in SubDomainItem /\ longer # Absent
      BY <1>1, <1>2, AdminAdded
    <3>2. subdomain' = [subdomain EXCEPT ![q.key] = longer]
      BY <2>2 DEF AdminListed
    <3> HIDE DEF longer
    <3> QED
      BY <1>2, <1>3, <3>1, <3>2 DEF ATypeOK
  <2> QED
    BY <1>1, <2>1, <2>2 DEF UserCreated, UserRefused, CallFailed
<1>6. users' \in [Pool -> SUBSET Admin] /\ failures' \in 0..MaxFailures
  <2>1. CASE UserCreated(r)
    BY <1>2, <1>3, <2>1 DEF UserCreated, ATypeOK
  <2> QED
    BY <1>1, <1>3, <2>1 DEF UserRefused, AdminListed, CallFailed, ATypeOK
<1>7. AdditionsPlaced'
  <2> SUFFICES ASSUME NEW s \in AdminRequest, addition'[s] # Absent PROVE subdomain'[addition'[s].key] # Absent
    BY DEF AdditionsPlaced
  <2>1. addition[s] # Absent /\ addition'[s].key = addition[s].key
    BY <1>4
  <2>2. addition[s].key \in DomainKey
    BY <1>3, <2>1 DEF ATypeOK, Addition
  <2> QED
    BY <1>3, <1>5, <2>1, <2>2 DEF AdditionsPlaced
<1> QED
  BY <1>1, <1>4, <1>5, <1>6, <1>7 DEF AInv, ATypeOK, StagesCounted

LEMMA AccountsStep == AInv /\ [ANext]_avars => AInv'
<1> SUFFICES ASSUME AInv, [ANext]_avars PROVE AInv'
  OBVIOUS
<1>1. CASE UNCHANGED avars
  BY <1>1 DEF avars, AInv, ATypeOK, StagesCounted, AdditionsPlaced
<1>2. CASE ANext
  BY <1>1, <1>2, AccountSteps, ProfileStepKeeps, StageStepKeeps, SubDomainStepKeeps, AdditionStepKeeps DEF AInv
<1> QED
  BY <1>1, <1>2

LEMMA AccountsInv == ASpec => []AInv
BY AccountsInit, AccountsStep, PTL DEF ASpec

\* Every reachable state of Accounts is well typed: what is put or updated without a
\* condition makes an item whole (CreateTenantSubDomain, AddNewStageData), whatever status
\* comes with a comment, and the number of calls that may fail is kept.
THEOREM AccountsTypeCorrect == ASpec => []ATypeOK
<1>1. AInv => ATypeOK
  BY DEF AInv
<1> QED
  BY <1>1, AccountsInv, PTL
-----------------------------------------------------------------------------
(* Administrators and users.                                                 *)

Of(r, k) == addition[r] # Absent /\ addition[r].key = k
Listed(k) == Range(subdomain[k].admins)
Awaited(k) == {addition[r].admin : r \in AboutToList(k)}

\* A pool belongs to those that had it, and has no users before anybody does; an addition
\* has the pool its sub-domain had when it began, and past its creation a user there.
PoolsHold == /\ pools \in [DomainKey -> SUBSET Pool]
             /\ \A k \in DomainKey : PoolOf(k) \subseteq pools[k]
             /\ \A r \in AdminRequest : addition[r] # Absent => addition[r].pool \in pools[addition[r].key]
UsersHold == /\ \A p \in Pool : Shared(p) = {} => users[p] = {}
             /\ \A r \in AdminRequest : addition[r] # Absent /\ addition[r].at = "record" =>
                    addition[r].admin \in users[addition[r].pool]
ListedHold == \A k \in GetSubDomains : \A admin \in Listed(k) : \E p \in pools[k] : admin \in users[p]

\* A sub-domain that is not disturbed has the one pool it ever had, and its additions have
\* that one too; so no two of them create the same user.
OnePool(k) == /\ pools[k] = PoolOf(k)
              /\ \A r \in AdminRequest : Of(r, k) => addition[r].pool \in PoolOf(k)
              /\ k \in GetSubDomains /\ PoolOf(k) = {} => subdomain[k].admins = <<>>
Once(k) == /\ k \in GetSubDomains =>
                 /\ IsInjective(subdomain[k].admins) /\ Listed(k) \cap Awaited(k) = {}
                 /\ \A p \in PoolOf(k) : Listed(k) \subseteq users[p]
           /\ \A r, s \in AboutToList(k) : addition[r].admin = addition[s].admin => r = s
NoOther(k) == \A p \in PoolOf(k) : Shared(p) = {k} => users[p] = Listed(k) \cup Awaited(k)

Matches(k) == OnePool(k) /\ Once(k) /\ NoOther(k)
AllMatch == \A k \in DomainKey \ disturbed : Matches(k)

AHInv == AInv /\ PoolsHold /\ UsersHold /\ ListedHold /\ AllMatch

LEMMA PoolIsOne ==
    ASSUME AInv, NEW k \in DomainKey
    PROVE  /\ PoolOf(k) \subseteq Pool
           /\ \A p, q \in PoolOf(k) : p = q
           /\ PoolOf(k) # {} => k \in GetSubDomains
           /\ k \in GetSubDomains => /\ subdomain[k] \in SubDomainItem
                                              /\ subdomain[k].admins \in Seq(Admin)
BY DEF AInv, ATypeOK, PoolOf, GetSubDomains, SubDomainItem

LEMMA AccountsHInit ==
    ASSUME AHInit
    PROVE  AHInv
<1>1. AInv
  BY AccountsInit DEF AHInit
<1>2. /\ \A k \in DomainKey : subdomain[k] = Absent /\ pools[k] = {}
      /\ \A r \in AdminRequest : addition[r] = Absent
      /\ \A p \in Pool : users[p] = {}
      /\ pools \in [DomainKey -> SUBSET Pool]
  BY DEF AHInit, AInit
<1>3. \A k \in DomainKey : /\ PoolOf(k) = {} /\ k \notin GetSubDomains
                             /\ AboutToList(k) = {}
  BY <1>2 DEF PoolOf, GetSubDomains, AboutToList
<1>4. PoolsHold /\ UsersHold /\ ListedHold
  BY <1>2, <1>3 DEF PoolsHold, UsersHold, ListedHold, GetSubDomains
<1>5. AllMatch
  BY <1>2, <1>3 DEF AllMatch, Matches, OnePool, Once, NoOther, Of
<1> QED
  BY <1>1, <1>4, <1>5 DEF AHInv

\* A step that lets the sub-domain alone.
LEMMA MatchStays ==
    ASSUME NEW k \in DomainKey, Matches(k), subdomain'[k] = subdomain[k], pools'[k] = pools[k],
           \A r \in AdminRequest : Of(r, k)' => Of(r, k) /\ addition'[r].pool = addition[r].pool,
           AboutToList(k)' = AboutToList(k),
           \A r \in AboutToList(k) : addition'[r] = addition[r],
           \A p \in PoolOf(k) : users[p] \subseteq users'[p],
           \A p \in PoolOf(k) :
               Shared(p)' = {k} => Shared(p) = {k} /\ users'[p] = users[p]
    PROVE  Matches(k)'
<1>1. /\ PoolOf(k)' = PoolOf(k) /\ Listed(k)' = Listed(k)
      /\ (k \in GetSubDomains)' = (k \in GetSubDomains)
  BY DEF PoolOf, GetSubDomains, Listed
<1>2. Awaited(k)' = Awaited(k)
  BY DEF Awaited
<1>3. OnePool(k)'
  BY <1>1 DEF Matches, OnePool
<1>4. Once(k)'
  BY <1>1, <1>2 DEF Matches, Once
<1>5. NoOther(k)'
  BY <1>1, <1>2 DEF Matches, NoOther
<1> QED
  BY <1>3, <1>4, <1>5 DEF Matches

\* Nothing but the histories of a step's own sub-domains changes.
LEMMA Remembered ==
    ASSUME AHInv, AInv', ARemember, NEW K \in SUBSET DomainKey,
           \A k \in DomainKey \ K : subdomain'[k] = subdomain[k]
    PROVE  /\ pools' \in [DomainKey -> SUBSET Pool]
           /\ \A k \in DomainKey : pools'[k] = pools[k] \cup PoolOf(k)'
           /\ \A k \in DomainKey \ K : pools'[k] = pools[k]
           /\ disturbed \subseteq disturbed'
           /\ \A k \in K : k \notin disturbed' => PoolOf(k) \subseteq PoolOf(k)'
<1>1. \A k \in DomainKey : pools'[k] = pools[k] \cup PoolOf(k)'
  BY DEF ARemember
<1>2. \A k \in DomainKey \ K : PoolOf(k)' = PoolOf(k)
  BY DEF PoolOf
<1>3. \A k \in DomainKey \ K : pools'[k] = pools[k]
  BY <1>1, <1>2 DEF AHInv, PoolsHold
<1>4. /\ disturbed \subseteq disturbed'
      /\ \A k \in K : k \notin disturbed' => PoolOf(k) \subseteq PoolOf(k)'
  BY DEF ARemember
<1>5. pools' \in [DomainKey -> SUBSET Pool]
  <2>1. \A k \in DomainKey : PoolOf(k)' \subseteq Pool
    BY DEF AInv, ATypeOK, PoolOf, SubDomainItem
  <2>2. \A k \in DomainKey : pools'[k] \subseteq Pool
    BY <1>1, <2>1 DEF AHInv, PoolsHold
  <2>3. pools' = [k \in DomainKey |-> pools[k] \cup PoolOf(k)']
    BY DEF ARemember
  <2> QED
    BY <1>1, <2>2, <2>3
<1> QED
  BY <1>1, <1>3, <1>4, <1>5
-----------------------------------------------------------------------------
(* Each kind of step keeps administrators and users together.                *)

\* Additions begin or end, and nobody is listed or created.
LEMMA AdditionsMove ==
    ASSUME AHInv, AInv', ARemember, UNCHANGED <<subdomain, users>>,
           \A r \in AdminRequest : addition'[r] # Absent =>
               \/ addition'[r] = addition[r]
               \/ addition'[r].at = "create" /\ addition'[r].pool \in PoolOf(addition'[r].key),
           \A k \in DomainKey \ disturbed' : AboutToList(k)' = AboutToList(k)
    PROVE  AHInv'
<1>1. /\ pools' \in [DomainKey -> SUBSET Pool] /\ disturbed \subseteq disturbed'
      /\ \A k \in DomainKey : pools'[k] = pools[k]
  <2>1. {} \in SUBSET DomainKey
    OBVIOUS
  <2> QED
    BY <2>1, Remembered
<1>2. pools' = pools
  BY <1>1 DEF AHInv, PoolsHold
<1>3. \A r \in AdminRequest : addition'[r] # Absent => addition'[r] \in Addition
  BY DEF AInv, ATypeOK
<1>4. \A k \in DomainKey : PoolOf(k)' = PoolOf(k)
  BY DEF PoolOf
<1>5. \A p \in Pool : Shared(p)' = Shared(p)
  BY <1>2 DEF Shared
<1>6. PoolsHold'
  <2> SUFFICES ASSUME NEW r \in AdminRequest, addition'[r] # Absent PROVE addition'[r].pool \in pools[addition'[r].key]
    BY <1>1, <1>2, <1>4 DEF AHInv, PoolsHold
  <2>1. addition'[r].key \in DomainKey
    BY <1>3 DEF Addition
  <2> QED
    BY <2>1 DEF AHInv, PoolsHold
<1>7. UsersHold'
  BY <1>5 DEF AHInv, UsersHold
<1>8. ListedHold'
  BY <1>2 DEF AHInv, ListedHold, GetSubDomains, Listed
<1>9. ASSUME NEW k \in DomainKey \ disturbed' PROVE Matches(k)'
  <2>1. Matches(k)
    BY <1>1, <1>9 DEF AHInv, AllMatch
  <2>2. /\ PoolOf(k)' = PoolOf(k) /\ Listed(k)' = Listed(k)
        /\ (k \in GetSubDomains)' = (k \in GetSubDomains)
    BY DEF PoolOf, GetSubDomains, Listed
  <2>3. \A r \in AboutToList(k) : addition'[r] = addition[r]
    <3> SUFFICES ASSUME NEW r \in AboutToList(k) PROVE addition'[r] = addition[r]
      OBVIOUS
    <3>1. r \in AboutToList(k)'
      BY <1>9
    <3> QED
      BY <3>1 DEF AboutToList
  <2>4. AboutToList(k)' = AboutToList(k) /\ Awaited(k)' = Awaited(k)
    BY <1>9, <2>3 DEF Awaited
  <2>5. OnePool(k)'
    BY <1>2, <2>1, <2>2 DEF Matches, OnePool, Of
  <2>6. Once(k)'
    BY <2>1, <2>2, <2>3, <2>4 DEF Matches, Once
  <2>7. NoOther(k)'
    BY <1>2, <2>1, <2>2, <2>4 DEF Matches, NoOther, Shared
  <2> QED
    BY <2>5, <2>6, <2>7 DEF Matches
<1> QED
  BY <1>6, <1>7, <1>8, <1>9 DEF AHInv, AllMatch

\* A sub-domain is put; what it had is lost.
LEMMA SubDomainPut ==
    ASSUME AHInv, AInv', ARemember,
           NEW k \in DomainKey, CreateTenantSubDomain(k)
    PROVE  AHInv'
<1>1. /\ subdomain' = [subdomain EXCEPT ![k] = [pool |-> Absent, admins |-> <<>>]]
      /\ UNCHANGED <<users, addition, failures>>
  BY DEF CreateTenantSubDomain, OnlySubDomain
<1>2. subdomain'[k] = [pool |-> Absent, admins |-> <<>>] /\ \A j \in DomainKey \ {k} : subdomain'[j] = subdomain[j]
  BY <1>1 DEF AHInv, AInv, ATypeOK
<1>3. PoolOf(k)' = {} /\ Listed(k)' = {} /\ (k \in GetSubDomains)'
  <2>1. [pool |-> Absent, admins |-> <<>>] \in SubDomainItem
    BY DEF SubDomainItem
  <2>2. [pool |-> Absent, admins |-> <<>>] # Absent
    BY <2>1, NoItemAssumption
  <2> QED
    BY <1>2, <2>2 DEF PoolOf, Listed, Range, GetSubDomains
<1>4. /\ pools' \in [DomainKey -> SUBSET Pool] /\ disturbed \subseteq disturbed'
      /\ \A j \in DomainKey \ {k} : pools'[j] = pools[j]
      /\ pools'[k] = pools[k] \cup PoolOf(k)'
      /\ k \notin disturbed' => PoolOf(k) \subseteq PoolOf(k)'
  <2>1. {k} \in SUBSET DomainKey
    OBVIOUS
  <2> QED
    BY <1>2, <2>1, Remembered
<1>5. pools' = pools
  BY <1>3, <1>4 DEF AHInv, PoolsHold
<1>6. \A j \in DomainKey \ {k} : PoolOf(j)' = PoolOf(j) /\ Listed(j)' = Listed(j)
  BY <1>2 DEF PoolOf, Listed
<1>7. PoolsHold'
  BY <1>1, <1>3, <1>4, <1>5, <1>6 DEF AHInv, PoolsHold
<1>8. UsersHold'
  BY <1>1, <1>5 DEF AHInv, UsersHold, Shared
<1>9. ListedHold'
  BY <1>1, <1>2, <1>3, <1>5, <1>6 DEF AHInv, ListedHold, GetSubDomains
<1>10. ASSUME NEW j \in DomainKey \ disturbed' PROVE Matches(j)'
  <2>1. Matches(j)
    BY <1>4, <1>10 DEF AHInv, AllMatch
  <2>2. CASE j # k
    BY <1>1, <1>2, <1>5, <2>1, <2>2, MatchStays DEF Of, AboutToList, Shared
  <2>3. CASE j = k
    <3>1. PoolOf(k) = {}
      BY <1>3, <1>4, <1>10, <2>3
    <3>2. \A r \in AdminRequest : ~Of(r, k) /\ ~Of(r, k)'
      BY <1>1, <2>1, <2>3, <3>1 DEF Matches, OnePool, Of
    <3>3. AboutToList(k)' = {} /\ Awaited(k)' = {}
      BY <3>2 DEF AboutToList, Awaited, Of
    <3>4. OnePool(k)'
      BY <1>2, <1>3, <1>5, <2>1, <2>3, <3>1, <3>2 DEF Matches, OnePool
    <3>5. IsInjective(<<>>)
      BY DEF IsInjective
    <3>6. Once(k)' /\ NoOther(k)'
      BY <1>2, <1>3, <3>3, <3>5 DEF Once, NoOther
    <3> QED
      BY <2>3, <3>4, <3>6 DEF Matches
  <2> QED
    BY <2>2, <2>3
<1> QED
  BY <1>7, <1>8, <1>9, <1>10 DEF AHInv, AllMatch

\* A sub-domain gets its pool, or another.
LEMMA SubDomainGetsPool ==
    ASSUME AHInv, AInv', ARemember,
           NEW k \in DomainKey, NEW p \in Pool, StackDeployed(k, p)
    PROVE  AHInv'
<1> DEFINE old == subdomain[k]
           item == [old EXCEPT !.pool = p]
<1>1. subdomain' = [subdomain EXCEPT ![k] = item] /\ UNCHANGED <<users, addition, failures>>
  BY DEF StackDeployed, OnlySubDomain, AHInv, AInv, ATypeOK
<1>2. /\ old \in SubDomainItem /\ old # Absent /\ item \in SubDomainItem /\ item # Absent
      /\ item.pool = p /\ item.admins = old.admins
      /\ p # Absent
  <2>1. old \in SubDomainItem /\ old # Absent
    BY DEF StackDeployed, AHInv, AInv, ATypeOK
  <2>2. item \in SubDomainItem /\ item.pool = p /\ item.admins = old.admins
    BY <2>1 DEF SubDomainItem
  <2>3. item # Absent /\ p # Absent
    BY <2>2, NoItemAssumption
  <2> QED
    BY <2>1, <2>2, <2>3
<1>3. subdomain'[k] = item /\ \A j \in DomainKey \ {k} : subdomain'[j] = subdomain[j]
  BY <1>1 DEF AHInv, AInv, ATypeOK
<1> HIDE DEF item
<1>4. PoolOf(k)' = {p} /\ k \in GetSubDomains /\ (k \in GetSubDomains)' /\ Listed(k)' = Listed(k)
  BY <1>2, <1>3 DEF PoolOf, Listed, GetSubDomains
<1>5. /\ pools' \in [DomainKey -> SUBSET Pool] /\ disturbed \subseteq disturbed'
      /\ \A j \in DomainKey \ {k} : pools'[j] = pools[j]
      /\ pools'[k] = pools[k] \cup {p}
      /\ k \notin disturbed' => PoolOf(k) \subseteq {p}
  <2>1. {k} \in SUBSET DomainKey
    OBVIOUS
  <2> QED
    BY <1>3, <1>4, <2>1, Remembered
<1>6. \A j \in DomainKey \ {k} : PoolOf(j)' = PoolOf(j) /\ Listed(j)' = Listed(j)
  BY <1>3 DEF PoolOf, Listed
<1>7. PoolsHold'
  <2>1. \A j \in DomainKey : pools[j] \subseteq pools'[j]
    BY <1>5
  <2>2. \A j \in DomainKey : PoolOf(j)' \subseteq pools'[j]
    BY <1>4, <1>5, <1>6 DEF AHInv, PoolsHold
  <2>3. \A r \in AdminRequest : addition[r] # Absent => addition[r].key \in DomainKey
    BY DEF AHInv, AInv, ATypeOK, Addition
  <2> QED
    BY <1>1, <1>5, <2>1, <2>2, <2>3 DEF AHInv, PoolsHold
<1>8. \A q \in Pool : /\ Shared(q) \subseteq Shared(q)'
                      /\ Shared(q)' \subseteq Shared(q) \cup {k}
                      /\ q # p => Shared(q)' = Shared(q)
      /\ k \in Shared(p)'
  BY <1>5 DEF Shared
<1>9. UsersHold'
  BY <1>1, <1>8 DEF AHInv, UsersHold
<1>10. ListedHold'
  <2> SUFFICES ASSUME NEW j \in GetSubDomains', NEW admin \in Listed(j)'
               PROVE  \E q \in pools'[j] : admin \in users[q]
    BY <1>1 DEF ListedHold
  <2>1. j \in DomainKey /\ j \in GetSubDomains /\ admin \in Listed(j)
    BY <1>3, <1>4, <1>6 DEF GetSubDomains
  <2> QED
    BY <1>5, <2>1 DEF AHInv, ListedHold
<1>11. ASSUME NEW j \in DomainKey \ disturbed' PROVE Matches(j)'
  <2>1. Matches(j)
    BY <1>5, <1>11 DEF AHInv, AllMatch
  <2>2. CASE j # k
    <3>1. \A q \in PoolOf(j) : Shared(q)' = {j} => Shared(q) = {j}
      <4> SUFFICES ASSUME NEW q \in PoolOf(j), Shared(q)' = {j} PROVE Shared(q) = {j}
        OBVIOUS
      <4>1. q \in Pool
        BY PoolIsOne DEF AHInv
      <4>2. q # p
        BY <1>8, <2>2
      <4> QED
        BY <1>8, <4>1, <4>2
    <3> QED
      BY <1>1, <1>3, <1>5, <2>1, <2>2, <3>1, MatchStays DEF Of, AboutToList
  <2>3. CASE j = k /\ PoolOf(k) = {}
    <3>1. \A r \in AdminRequest : ~Of(r, k) /\ ~Of(r, k)'
      BY <1>1, <2>1, <2>3 DEF Matches, OnePool, Of
    <3>2. AboutToList(k)' = {} /\ Awaited(k)' = {}
      BY <3>1 DEF AboutToList, Awaited, Of
    <3>3. item.admins = <<>> /\ Listed(k)' = {}
      BY <1>2, <1>3, <2>1, <2>3 DEF Matches, OnePool, Listed, Range, GetSubDomains
    <3>4. pools[k] = {} /\ pools'[k] = {p}
      BY <1>5, <2>1, <2>3 DEF Matches, OnePool
    <3>5. Shared(p)' = {k} => users[p] = {}
      <4>1. k \notin Shared(p)
        BY <3>4 DEF Shared
      <4>2. Shared(p)' = {k} => Shared(p) = {}
        BY <1>8, <4>1
      <4> QED
        BY <4>2 DEF AHInv, UsersHold
    <3>6. OnePool(k)'
      BY <1>3, <1>4, <3>1, <3>4 DEF OnePool
    <3>7. IsInjective(<<>>)
      BY DEF IsInjective
    <3>8. Once(k)'
      BY <1>3, <3>2, <3>3, <3>7 DEF Once
    <3>9. NoOther(k)'
      BY <1>1, <1>4, <3>2, <3>3, <3>5 DEF NoOther
    <3> QED
      BY <2>3, <3>6, <3>8, <3>9 DEF Matches
  <2>4. CASE j = k /\ PoolOf(k) = {p}
    <3>1. k \in GetSubDomains
      BY <2>4, PoolIsOne DEF AHInv
    <3>2. old.pool = p /\ old \in SubDomainItem
      BY <1>2, <2>4, <3>1 DEF PoolOf, GetSubDomains
    <3>3. item = old
      BY <3>1, <3>2 DEF item, SubDomainItem, GetSubDomains
    <3>4. pools'[k] = pools[k]
      BY <1>5, <2>4 DEF AHInv, PoolsHold
    <3>5. \A q \in Pool : Shared(q)' = Shared(q)
      BY <1>5, <3>4 DEF Shared
    <3>6. \A q \in PoolOf(k) : Shared(q)' = Shared(q)
      BY <2>4, <3>5
    <3> QED
      BY <1>1, <1>3, <2>1, <2>4, <3>3, <3>4, <3>6, MatchStays DEF Of, AboutToList
  <2>5. PoolOf(k) = {} \/ PoolOf(k) = {p} \/ j # k
    BY <1>5, <1>11
  <2> QED
    BY <2>2, <2>3, <2>4, <2>5
<1> QED
  BY <1>7, <1>9, <1>10, <1>11 DEF AHInv, AllMatch

\* A user is created for a sub-domain, in a pool that had none of this name.
LEMMA UserCreatedMatches ==
    ASSUME AHInv, AInv', ARemember,
           NEW r \in AdminRequest, addition[r] \in Addition, UserCreated(r)
    PROVE  AHInv'
<1> DEFINE q == addition[r]   done == [q EXCEPT !.at = "record"]
<1>1. /\ q # Absent /\ q.key \in DomainKey /\ q.pool \in Pool /\ q.admin \in Admin
      /\ done # Absent /\ done.at = "record" /\ done.key = q.key /\ done.pool = q.pool /\ done.admin = q.admin
  BY AdditionFields
<1>2. /\ q.at = "create" /\ q.admin \notin users[q.pool]
      /\ addition' = [addition EXCEPT ![r] = done]
      /\ users' = [users EXCEPT ![q.pool] = users[q.pool] \cup {q.admin}]
      /\ UNCHANGED subdomain
  BY DEF UserCreated
<1> HIDE DEF done
<1>3. addition'[r] = done /\ \A s \in AdminRequest \ {r} : addition'[s] = addition[s]
  BY <1>2 DEF AHInv, AInv, ATypeOK
<1>4. /\ users'[q.pool] = users[q.pool] \cup {q.admin}
      /\ \A p \in Pool \ {q.pool} : users'[p] = users[p]
      /\ \A p \in Pool : users[p] \subseteq users'[p]
  BY <1>1, <1>2 DEF AHInv, AInv, ATypeOK
<1>5. /\ pools' \in [DomainKey -> SUBSET Pool] /\ disturbed \subseteq disturbed'
      /\ \A k \in DomainKey : pools'[k] = pools[k]
  <2>1. {} \in SUBSET DomainKey
    OBVIOUS
  <2> QED
    BY <1>2, <2>1, Remembered
<1>6. pools' = pools
  BY <1>5 DEF AHInv, PoolsHold
<1>7. /\ \A k \in DomainKey : PoolOf(k)' = PoolOf(k) /\ Listed(k)' = Listed(k)
      /\ GetSubDomains' = GetSubDomains
      /\ \A p \in Pool : Shared(p)' = Shared(p)
  BY <1>2, <1>6 DEF PoolOf, Listed, GetSubDomains, Shared
<1>8. q.pool \in pools[q.key] /\ q.key \in Shared(q.pool)
  BY <1>1 DEF AHInv, PoolsHold, Shared
<1>9. PoolsHold'
  BY <1>1, <1>3, <1>6, <1>7 DEF AHInv, PoolsHold
<1>10. UsersHold'
  <2>1. \A p \in Pool : Shared(p)' = {} => users'[p] = {}
    BY <1>4, <1>7, <1>8 DEF AHInv, UsersHold
  <2>2. ASSUME NEW s \in AdminRequest, addition'[s] # Absent, addition'[s].at = "record"
        PROVE  addition'[s].admin \in users'[addition'[s].pool]
    <3>1. CASE s = r
      BY <1>1, <1>3, <1>4, <3>1
    <3>2. CASE s # r
      <4>1. addition[s].pool \in Pool /\ addition'[s] = addition[s]
        BY <1>3, <2>2, <3>2 DEF AHInv, AInv, ATypeOK, Addition
      <4> QED
        BY <1>4, <2>2, <4>1 DEF AHInv, UsersHold
    <3> QED
      BY <3>1, <3>2
  <2> QED
    BY <2>1, <2>2 DEF UsersHold
<1>11. ListedHold'
  <2>1. \A k \in DomainKey : pools[k] \subseteq Pool
    BY DEF AHInv, PoolsHold
  <2>2. GetSubDomains \subseteq DomainKey
    BY DEF GetSubDomains
  <2> QED
    BY <1>4, <1>6, <1>7, <2>1, <2>2 DEF AHInv, ListedHold
<1>12. ASSUME NEW k \in DomainKey \ disturbed' PROVE Matches(k)'
  <2>1. Matches(k)
    BY <1>5, <1>12 DEF AHInv, AllMatch
  <2>2. \A s \in AdminRequest : Of(s, k)' => Of(s, k) /\ addition'[s].pool = addition[s].pool
    BY <1>1, <1>3 DEF Of
  <2>3. \A p \in PoolOf(k) : p \in Pool
    BY PoolIsOne DEF AHInv
  <2>4. CASE k # q.key
    <3>1. AboutToList(k)' = AboutToList(k) /\ r \notin AboutToList(k)
      BY <1>1, <1>3, <2>4 DEF AboutToList
    <3>2. \A s \in AboutToList(k) : addition'[s] = addition[s]
      BY <1>3, <3>1 DEF AboutToList
    <3>3. \A p \in PoolOf(k) : Shared(p)' = {k} =>
                Shared(p) = {k} /\ users'[p] = users[p]
      BY <1>4, <1>7, <1>8, <2>3, <2>4
    <3> QED
      BY <1>2, <1>4, <1>6, <2>1, <2>2, <2>3, <3>1, <3>2, <3>3, MatchStays
  <2>5. CASE k = q.key
    <3>1. AboutToList(k)' = AboutToList(k) \cup {r} /\ r \notin AboutToList(k)
      BY <1>1, <1>2, <1>3, <2>5 DEF AboutToList
    <3>2. \A s \in AboutToList(k) : addition'[s] = addition[s] /\ addition[s].admin \in users[q.pool]
      <4> SUFFICES ASSUME NEW s \in AboutToList(k)
                   PROVE  addition'[s] = addition[s] /\ addition[s].admin \in users[q.pool]
        OBVIOUS
      <4>1. s \in AdminRequest /\ addition[s] # Absent /\ Of(s, k) /\ addition[s].at = "record"
        BY DEF AboutToList, Of
      <4>2. Of(r, k)
        BY <1>1, <2>5 DEF Of
      <4>3. addition[s].pool = q.pool
        BY <2>1, <4>1, <4>2, PoolIsOne DEF AHInv, Matches, OnePool
      <4> QED
        BY <1>3, <3>1, <4>1, <4>3 DEF AHInv, UsersHold
    <3>3. Awaited(k)' = Awaited(k) \cup {q.admin}
      <4>1. \A s \in AboutToList(k)' : addition'[s].admin = IF s = r THEN q.admin ELSE addition[s].admin
        BY <1>1, <1>3, <3>1, <3>2
      <4> QED
        BY <3>1, <4>1 DEF Awaited
    <3>4. q.pool \in PoolOf(k)
      BY <1>1, <2>1, <2>5 DEF Matches, OnePool, Of
    <3>5. k \in GetSubDomains /\ \A p \in PoolOf(k) : p = q.pool
      BY <3>4, PoolIsOne DEF AHInv
    <3>6. q.admin \notin Listed(k)
      BY <1>2, <2>1, <3>4, <3>5 DEF Matches, Once
    <3>7. OnePool(k)'
      BY <1>2, <1>6, <1>7, <2>1, <2>2 DEF Matches, OnePool
    <3>8. Once(k)'
      <4>1. \A s, t \in AboutToList(k)' : addition'[s].admin = addition'[t].admin => s = t
        BY <1>1, <1>2, <1>3, <2>1, <3>1, <3>2 DEF Matches, Once
      <4>2. Listed(k)' \cap Awaited(k)' = {} /\ IsInjective(subdomain'[k].admins)
        BY <1>2, <1>7, <2>1, <3>3, <3>5, <3>6 DEF Matches, Once
      <4>3. \A p \in PoolOf(k)' : Listed(k)' \subseteq users'[p]
        BY <1>4, <1>7, <2>1, <2>3, <3>5 DEF Matches, Once
      <4> QED
        BY <4>1, <4>2, <4>3 DEF Once
    <3>9. NoOther(k)'
      <4> SUFFICES ASSUME NEW p \in PoolOf(k), Shared(p) = {k}
                   PROVE  users'[p] = Listed(k)' \cup Awaited(k)'
        BY <1>7, <2>3 DEF NoOther
      <4>1. users[p] = Listed(k) \cup Awaited(k)
        BY <2>1 DEF Matches, NoOther
      <4> QED
        BY <1>4, <1>7, <3>3, <3>5, <4>1
    <3> QED
      BY <3>7, <3>8, <3>9 DEF Matches
  <2> QED
    BY <2>4, <2>5
<1> QED
  BY <1>9, <1>10, <1>11, <1>12 DEF AHInv, AllMatch

LEMMA OneMore ==
    ASSUME NEW s \in Seq(Admin), NEW a \in Admin
    PROVE  /\ Range(Append(s, a)) = Range(s) \cup {a}
           /\ IsInjective(s) /\ a \notin Range(s) => IsInjective(Append(s, a))
<1>1. /\ DOMAIN Append(s, a) = 1..Len(s) + 1 /\ DOMAIN s = 1..Len(s) /\ Len(s) \in Nat
      /\ \A i \in 1..Len(s) : Append(s, a)[i] = s[i]
      /\ Append(s, a)[Len(s) + 1] = a
  OBVIOUS
<1> QED
  BY <1>1 DEF Range, IsInjective

\* A user that was created is listed.
LEMMA AdminListedMatches ==
    ASSUME AHInv, AInv', ARemember,
           NEW r \in AdminRequest, addition[r] \in Addition,
           subdomain[addition[r].key] \in SubDomainItem, AdminListed(r)
    PROVE  AHInv'
<1> DEFINE q == addition[r]   item == subdomain[q.key]   longer == [item EXCEPT !.admins = Append(@, q.admin)]
<1>1. /\ q # Absent /\ q.key \in DomainKey /\ q.pool \in Pool /\ q.admin \in Admin
      /\ longer # Absent /\ longer.pool = item.pool /\ longer.admins = Append(item.admins, q.admin)
      /\ item.admins \in Seq(Admin) /\ item # Absent
  <2>1. q # Absent /\ q.key \in DomainKey /\ q.pool \in Pool /\ q.admin \in Admin
    BY AdditionFields
  <2> QED
    BY <2>1, AdminAdded, NoItemAssumption
<1>2. /\ q.at = "record" /\ addition' = [addition EXCEPT ![r] = Absent]
      /\ subdomain' = [subdomain EXCEPT ![q.key] = longer] /\ UNCHANGED <<users, failures>>
  BY DEF AdminListed, Ends
<1> HIDE DEF longer
<1> PICK K \in DomainKey : K = q.key
  BY <1>1
<1>3. /\ addition'[r] = Absent /\ \A s \in AdminRequest \ {r} : addition'[s] = addition[s]
      /\ subdomain'[K] = longer /\ \A k \in DomainKey \ {K} : subdomain'[k] = subdomain[k]
  BY <1>1, <1>2 DEF AHInv, AInv, ATypeOK
<1>4. /\ GetSubDomains' = GetSubDomains /\ K \in GetSubDomains
      /\ \A k \in DomainKey : PoolOf(k)' = PoolOf(k)
      /\ \A k \in DomainKey \ {K} : Listed(k)' = Listed(k)
  BY <1>1, <1>3 DEF PoolOf, GetSubDomains, Listed
<1>5. Listed(K)' = Listed(K) \cup {q.admin}
  <2>1. subdomain'[K].admins = Append(subdomain[K].admins, q.admin)
    BY <1>1, <1>3
  <2> QED
    BY <1>1, <2>1, OneMore DEF Listed
<1>6. /\ pools' \in [DomainKey -> SUBSET Pool] /\ disturbed \subseteq disturbed'
      /\ \A k \in DomainKey : pools'[k] = pools[k]
  <2>1. {K} \in SUBSET DomainKey /\ \A k \in DomainKey \ {K} : subdomain'[k] = subdomain[k]
    BY <1>3
  <2>2. /\ pools' \in [DomainKey -> SUBSET Pool] /\ disturbed \subseteq disturbed'
        /\ \A k \in DomainKey : pools'[k] = pools[k] \cup PoolOf(k)'
    BY <2>1, Remembered
  <2>3. \A k \in DomainKey : PoolOf(k)' \subseteq pools[k]
    BY <1>4 DEF AHInv, PoolsHold
  <2>4. \A k \in DomainKey : pools'[k] = pools[k]
    BY <2>2, <2>3
  <2> QED
    BY <2>2, <2>4
<1>7. pools' = pools /\ \A p \in Pool : Shared(p)' = Shared(p)
  BY <1>6 DEF AHInv, PoolsHold, Shared
<1>8. q.pool \in pools[K] /\ q.admin \in users[q.pool]
  BY <1>1, <1>2 DEF AHInv, PoolsHold, UsersHold
<1>9. PoolsHold'
  BY <1>3, <1>4, <1>7 DEF AHInv, PoolsHold
<1>10. UsersHold'
  BY <1>2, <1>3, <1>7 DEF AHInv, UsersHold
<1>11. ListedHold'
  <2>1. GetSubDomains \subseteq DomainKey
    BY DEF GetSubDomains
  <2> QED
    BY <1>2, <1>4, <1>5, <1>7, <1>8, <2>1 DEF AHInv, ListedHold
<1>12. ASSUME NEW k \in DomainKey \ disturbed' PROVE Matches(k)'
  <2>1. Matches(k)
    BY <1>6, <1>12 DEF AHInv, AllMatch
  <2>2. \A s \in AdminRequest : Of(s, k)' => Of(s, k) /\ addition'[s].pool = addition[s].pool
    BY <1>3 DEF Of
  <2>3. \A p \in PoolOf(k) : p \in Pool
    BY PoolIsOne DEF AHInv
  <2>4. CASE k # K
    <3>1. AboutToList(k)' = AboutToList(k) /\ r \notin AboutToList(k)
      BY <1>3, <2>4 DEF AboutToList
    <3>2. \A s \in AboutToList(k) : addition'[s] = addition[s]
      BY <1>3, <3>1 DEF AboutToList
    <3> QED
      BY <1>2, <1>3, <1>7, <2>1, <2>2, <2>3, <2>4, <3>1, <3>2, MatchStays
  <2>5. CASE k = K
    <3>1. /\ AboutToList(k)' = AboutToList(k) \ {r} /\ r \in AboutToList(k)
          /\ \A s \in AboutToList(k)' : addition'[s] = addition[s]
      BY <1>1, <1>2, <1>3, <2>5 DEF AboutToList
    <3>2. Awaited(k) = Awaited(k)' \cup {q.admin} /\ q.admin \notin Awaited(k)'
      BY <2>1, <3>1 DEF Awaited, Matches, Once
    <3>3. q.admin \notin Listed(k)
      BY <1>4, <2>1, <2>5, <3>2 DEF Matches, Once
    <3>4. q.pool \in PoolOf(k) /\ \A p \in PoolOf(k) : p = q.pool
      BY <1>1, <2>1, <2>5, PoolIsOne DEF AHInv, Matches, OnePool, Of
    <3>5. OnePool(k)'
      BY <1>4, <1>7, <2>1, <2>2, <3>4 DEF Matches, OnePool
    <3>6. Once(k)'
      <4>1. IsInjective(subdomain'[k].admins)
        <5>1. subdomain'[k].admins = Append(item.admins, q.admin) /\ item = subdomain[k]
          BY <1>1, <1>3, <2>5
        <5>2. IsInjective(item.admins) /\ q.admin \notin Range(item.admins)
          BY <1>4, <2>1, <2>5, <3>3, <5>1 DEF Matches, Once, Listed
        <5> QED
          BY <1>1, <5>1, <5>2, OneMore
      <4>2. Listed(k)' \cap Awaited(k)' = {}
        BY <1>4, <1>5, <2>1, <2>5, <3>2 DEF Matches, Once
      <4>3. \A p \in PoolOf(k)' : Listed(k)' \subseteq users'[p]
        BY <1>2, <1>4, <1>5, <1>8, <2>1, <2>5, <3>4 DEF Matches, Once
      <4>4. \A s, t \in AboutToList(k)' : addition'[s].admin = addition'[t].admin => s = t
        BY <2>1, <3>1 DEF Matches, Once
      <4> QED
        BY <4>1, <4>2, <4>3, <4>4 DEF Once
    <3>7. NoOther(k)'
      <4> SUFFICES ASSUME NEW p \in PoolOf(k), Shared(p) = {k}
                   PROVE  users[p] = Listed(k)' \cup Awaited(k)'
        BY <1>2, <1>4, <1>7, <2>3 DEF NoOther
      <4>1. users[p] = Listed(k) \cup Awaited(k)
        BY <2>1 DEF Matches, NoOther
      <4> QED
        BY <1>5, <2>5, <3>2, <4>1
    <3> QED
      BY <3>5, <3>6, <3>7 DEF Matches
  <2> QED
    BY <2>4, <2>5
<1> QED
  BY <1>9, <1>10, <1>11, <1>12 DEF AHInv, AllMatch

\* An addition begins, with the pool its sub-domain has.
LEMMA AdditionBegins ==
    ASSUME AHInv, AInv', ARemember, NEW k \in DomainKey, NEW r \in AdminRequest, NEW admin \in Admin,
           AddSubDomainAdmin(r, k, admin)
    PROVE  AHInv'
<1>1. /\ addition[r] = Absent /\ subdomain[k] # Absent /\ subdomain[k].pool # Absent /\ UNCHANGED <<subdomain, users>>
      /\ addition' = [addition EXCEPT ![r] =
                        [key |-> k, pool |-> subdomain[k].pool, admin |-> admin, at |-> "create"]]
  BY DEF AddSubDomainAdmin, OnlySubDomain, GetAllTenantSubDomains
<1>2. /\ addition'[r] = [key |-> k, pool |-> subdomain[k].pool, admin |-> admin, at |-> "create"]
      /\ \A s \in AdminRequest \ {r} : addition'[s] = addition[s]
  BY <1>1 DEF AHInv, AInv, ATypeOK
<1>3. subdomain[k].pool \in PoolOf(k)
  BY <1>1 DEF PoolOf
<1>4. \A j \in DomainKey : AboutToList(j)' = AboutToList(j)
  BY <1>1, <1>2 DEF AboutToList
<1> QED
  BY <1>1, <1>2, <1>3, <1>4, AdditionsMove

\* An addition ends without having created its user, or leaves the sub-domain disturbed.
LEMMA AdditionEnds ==
    ASSUME AHInv, AInv', ARemember, NEW r \in AdminRequest, addition[r] # Absent,
           UserRefused(r) \/ CallFailed(r)
    PROVE  AHInv'
<1>1. Ends(r) /\ UNCHANGED <<subdomain, users>>
  BY DEF UserRefused, CallFailed
<1>2. addition'[r] = Absent /\ \A s \in AdminRequest \ {r} : addition'[s] = addition[s]
  BY <1>1 DEF Ends, AHInv, AInv, ATypeOK
<1>3. CallFailed(r) => addition[r].key \in disturbed'
  BY <1>2 DEF CallFailed, ARemember
<1>4. \A k \in DomainKey \ disturbed' : AboutToList(k)' = AboutToList(k)
  BY <1>2, <1>3 DEF AboutToList, UserRefused
<1> QED
  BY <1>1, <1>2, <1>4, AdditionsMove

LEMMA AccountsHStep == AHInv /\ [AHNext]_<<avars, pools, disturbed>> => AHInv'
<1> SUFFICES ASSUME AHInv, [AHNext]_<<avars, pools, disturbed>> PROVE AHInv'
  OBVIOUS
<1>1. AInv /\ AInv'
  BY AccountsStep DEF AHInv, AHNext
<1>2. CASE UNCHANGED <<avars, pools, disturbed>>
  <2>1. \A k \in DomainKey : Matches(k)' = Matches(k)
    BY <1>2 DEF Matches, OnePool, Once, NoOther, Listed, Awaited, Of, AboutToList, PoolOf,
       Shared, GetSubDomains, avars
  <2> QED
    BY <1>1, <1>2, <2>1 DEF AHInv, AllMatch, PoolsHold, UsersHold, ListedHold, Listed, PoolOf,
       Shared, GetSubDomains, avars
<1>3. CASE ANext /\ ARemember
  <2>1. CASE UNCHANGED <<subdomain, users, addition, failures>>
    <3>1. \A k \in DomainKey : AboutToList(k)' = AboutToList(k)
      BY <2>1 DEF AboutToList
    <3> QED
      BY <1>1, <1>3, <2>1, <3>1, AdditionsMove
  <2>2. ASSUME SubDomainStep PROVE AHInv'
    BY <1>1, <1>3, <2>2, SubDomainPut, SubDomainGetsPool, AdditionBegins DEF SubDomainStep
  <2>3. ASSUME NEW r \in AdminRequest, AdminCreateUser(r) \/ RecordAdmin(r) \/ FailAddition(r)
        PROVE  AHInv'
    <3>1. /\ addition[r] \in Addition /\ subdomain[addition[r].key] \in SubDomainItem
          /\ UserCreated(r) \/ UserRefused(r) \/ AdminListed(r) \/ CallFailed(r)
      BY <1>1, <2>3, AdditionStep
    <3>2. addition[r] # Absent
      BY <3>1, NoItemAssumption
    <3> QED
      BY <1>1, <1>3, <3>1, <3>2, UserCreatedMatches, AdminListedMatches, AdditionEnds
  <2> QED
    BY <1>1, <1>3, <2>1, <2>2, <2>3, AccountSteps DEF AInv, ProfileStep, StageStep, avars
<1> QED
  BY <1>2, <1>3 DEF AHNext

\* Who is listed for a sub-domain has a user in a pool the sub-domain had; and the users of
\* its pool are those listed, once, and those about to be, unless the sub-domain lost its
\* pool, shared it or had an addition that failed (AddSubDomainAdmin of both services).
THEOREM AdminsAreUsers == AHSpec => []AdminsMatchUsers
<1>1. AHInv => AdminsMatchUsers
  <2> SUFFICES ASSUME AHInv PROVE AdminsMatchUsers
    OBVIOUS
  <2>1. \A k \in GetSubDomains : \A admin \in Range(subdomain[k].admins) :
            \E p \in pools[k] : admin \in users[p]
    BY DEF AHInv, ListedHold, Listed
  <2>2. ASSUME NEW k \in GetSubDomains \ disturbed
        PROVE  /\ IsInjective(subdomain[k].admins)
               /\ Listed(k) \cap Awaited(k) = {}
               /\ \A p \in PoolOf(k) : Shared(p) = {k} => users[p] = Listed(k) \cup Awaited(k)
    BY <2>2 DEF AHInv, AllMatch, Matches, Once, NoOther, GetSubDomains
  <2> QED
    BY <2>1, <2>2 DEF AdminsMatchUsers, Listed, Awaited
<1> QED
  BY <1>1, AccountsHInit, AccountsHStep, PTL DEF AHSpec
-----------------------------------------------------------------------------
(* What is shown of the stages.                                              *)

LEMMA StageNamed ==
    /\ StageId = 1..10
    /\ \A m, n \in StageId : StageNames[m] = StageNames[n] => m = n
    /\ \A n \in StageId : /\ (StageNames[n] = "Active") = (n = 8)
                          /\ StageNames[n] \in {"Inactive", "Deactivated"} => n \in {9, 10}
    /\ StageNames[8] = "Active" /\ StageNames[9] = "Inactive"
    /\ StageNames[10] = "Deactivated"
    /\ Range(StageNames) = {StageNames[n] : n \in StageId}
BY DEF StageId, StageNames, Range

\* The account of a patch has the stage of the name, whichever of the two services patched it.
LEMMA PatchedStage ==
    ASSUME AInv, AInv', NEW a \in Account, NEW name,
           StagePatched(a, name)
    PROVE  /\ profile'[a] # Absent
           /\ profile'[a].stage = SetStageIdFromStageName_PatchTenantOverallStage(name)
<1> DEFINE id == SetStageIdFromStageName_PatchTenantOverallStage(name)
<1>1. profile[a] # Absent /\ profile' = [profile EXCEPT ![a].stage = id]
  BY DEF StagePatched, PatchOverallStageId, PatchSupplierOverallStageId,
     SetStageIdFromStageName_PatchSupplierOverallStage
<1>2. profile \in [Account -> Profile \cup {Absent}]
  BY DEF AInv, ATypeOK
<1>3. profile[a] \in Profile
  BY <1>1, <1>2
<1>4. [profile[a] EXCEPT !.stage = id] \in Profile /\ [profile[a] EXCEPT !.stage = id].stage = id
  BY <1>3, StageOfName DEF Profile
<1>5. profile'[a] = [profile[a] EXCEPT !.stage = id]
  BY <1>1, <1>2
<1> QED
  BY <1>4, <1>5, NoItemAssumption

LEMMA PatchIsShown ==
    ASSUME AInv, AInv', NEW a \in Account, NEW name,
           StagePatched(a, name)
    PROVE  /\ Shown(a)' = IF name \in Range(StageNames) THEN name ELSE Absent
           /\ (name = "Active") = ([id |-> a, stage |-> name] \in Lists(a).Active')
           /\ name \in {"Inactive", "Deactivated"} =>
                  \A item \in Lists(a).OnboardingInProg' : item.id # a
<1> DEFINE id == SetStageIdFromStageName_PatchTenantOverallStage(name)
<1>1. profile'[a] # Absent /\ profile'[a].stage = id
  BY PatchedStage
<1>2. /\ id \in StageId \cup {0}
      /\ \A n \in StageId : StageNames[n] = name => id = n
      /\ (\A n \in StageId : StageNames[n] # name) => id = 0
  BY StageOfName
<1> HIDE DEF id
<1>3. /\ name \in Range(StageNames) <=> id \in StageId
      /\ id \in StageId => StageNames[id] = name
  BY <1>2, StageNamed
<1>4. Shown(a)' = IF name \in Range(StageNames) THEN name ELSE Absent
  BY <1>1, <1>3 DEF Shown, GetTenantProfileById, GetSupplierProfileById,
     SetStageIdFromStageName_GetTenantData, SetStageIdFromStageName_GetSupplierData
<1>5. (name = "Active") = (id = 8)
  BY <1>2, <1>3, StageNamed
<1>6. PICK own : /\ own \in {Tenant, Supplier} /\ a \in own
                 /\ Lists(a).Active' = ExecuteQueryDDB(own, {8})'
                 /\ Lists(a).OnboardingInProg' = ExecuteQueryDDB(own, 1..7)'
  BY DEF Lists, GetAllTenantDetails, GetAllSupplierDetails, Account
<1>7. (name = "Active") = ([id |-> a, stage |-> name] \in Lists(a).Active')
  <2>1. CASE name = "Active"
    <3>1. [id |-> a, stage |-> name] \in ExecuteQueryDDB(own, {8})'
      BY <1>1, <1>5, <1>6, <2>1, StageNamed DEF ExecuteQueryDDB, SetStageIdFromStageName
    <3> QED
      BY <1>6, <2>1, <3>1
  <2>2. CASE name # "Active"
    <3>1. ASSUME [id |-> a, stage |-> name] \in ExecuteQueryDDB(own, {8})' PROVE FALSE
      <4>1. PICK b : /\ profile'[b].stage = 8
                     /\ [id |-> a, stage |-> name] =
                           [id |-> b, stage |-> SetStageIdFromStageName(profile[b].stage)']
        BY <3>1 DEF ExecuteQueryDDB
      <4>2. a = b
        BY <4>1
      <4> QED
        BY <1>1, <1>5, <2>2, <4>1, <4>2
    <3> QED
      BY <1>6, <2>2, <3>1
  <2> QED
    BY <2>1, <2>2
<1>8. ASSUME name \in {"Inactive", "Deactivated"}, NEW item \in ExecuteQueryDDB(own, 1..7)'
      PROVE  item.id # a
  <2>1. profile'[item.id].stage \in 1..7
    BY <1>8 DEF ExecuteQueryDDB
  <2>2. id \in {9, 10}
    BY <1>2, <1>8, StageNamed
  <2> QED
    BY <1>1, <2>1, <2>2
<1> QED
  BY <1>4, <1>6, <1>7, <1>8

LEMMA LongerBegins ==
    ASSUME NEW s \in Seq(Comment)
    PROVE  IsPrefix(s, s) /\ \A c \in Comment : IsPrefix(s, Append(s, c))
BY DEF IsPrefix

LEMMA CommentsStay ==
    ASSUME AInv, AInv', [ANext]_avars,
           NEW a \in Account, NEW n \in StageId
    PROVE  LET shown == GETStage(a, n)' IN
           /\ IsPrefix(Noted(a, n), Noted(a, n)')
           /\ shown.OverallStatus # "UNDEFINED" =>
                 /\ shown.FollowUpDetails = Noted(a, n)'
                 /\ StageNames[n] # "OnboardingDemo" => shown.CommentsCount = Len(shown.FollowUpDetails)
<1>1. /\ MapStageDataToResponse(a, n)' = [OverallStatus |-> MapStageDataToResponse(a, n)'.OverallStatus,
                                          CommentsCount |-> MapStageDataToResponse(a, n)'.CommentsCount,
                                          FollowUpDetails |-> Noted(a, n)']
  BY DEF MapStageDataToResponse, GetAllTenantStages, Noted
<1>2. <<a, n>> \in Account \X StageId
  OBVIOUS
<1>3. StageNames[n] # "OnboardingDemo" =>
         MapStageDataToResponse(a, n)'.CommentsCount = Len(Noted(a, n)')
  BY <1>2 DEF MapStageDataToResponse, GetAllTenantStages, Noted, AInv, StagesCounted
<1>4. Noted(a, n) \in Seq(Comment)
  BY <1>2 DEF Noted, AInv, ATypeOK, StageItem
<1>5. ASSUME stages' = stages PROVE IsPrefix(Noted(a, n), Noted(a, n)')
  <2>1. Noted(a, n)' = Noted(a, n)
    BY <1>5 DEF Noted
  <2> QED
    BY <1>4, <2>1, LongerBegins
<1>6. ASSUME NEW b \in Account, NEW m \in StageId, StageStep(b, m)
      PROVE  IsPrefix(Noted(a, n), Noted(a, n)')
  <2>1. PICK c \in Comment, status \in Posted : AddNewStageData(b, m, c, status)
    BY <1>6 DEF StageStep
  <2>2. PICK new \in StageItem :
              /\ stages' = [stages EXCEPT ![<<b, m>>] = new]
              /\ new.count = Len(new.comments)
              /\ stages[<<b, m>>] = Absent => new.comments = <<c>>
              /\ stages[<<b, m>>] # Absent => new.comments = Append(stages[<<b, m>>].comments, c)
    BY <1>6, <2>1, StageAdded
  <2>3. new # Absent
    BY NoItemAssumption
  <2>4. Noted(a, n)' = Noted(a, n) \/ Noted(a, n)' = Append(Noted(a, n), c)
    <3>1. stages \in [Account \X StageId -> StageItem \cup {Absent}]
      BY DEF AInv, ATypeOK
    <3>2. CASE <<a, n>> # <<b, m>>
      <4>1. stages'[<<a, n>>] = stages[<<a, n>>]
        BY <1>2, <2>2, <3>1, <3>2
      <4> QED
        BY <4>1 DEF Noted
    <3>3. CASE <<a, n>> = <<b, m>>
      <4>1. stages'[<<a, n>>] = new
        BY <1>2, <2>2, <3>1, <3>3
      <4>2. Noted(a, n)' = new.comments
        BY <2>3, <4>1 DEF Noted
      <4>3. CASE stages[<<a, n>>] = Absent
        <5>1. Noted(a, n) = <<>> /\ new.comments = <<c>>
          BY <2>2, <3>3, <4>3 DEF Noted
        <5>2. <<c>> = Append(<<>>, c)
          OBVIOUS
        <5> QED
          BY <4>2, <5>1, <5>2
      <4>4. CASE stages[<<a, n>>] # Absent
        <5>1. Noted(a, n) = stages[<<a, n>>].comments
          BY <4>4 DEF Noted
        <5>2. new.comments = Append(stages[<<a, n>>].comments, c)
          BY <2>2, <3>3, <4>4
        <5> QED
          BY <4>2, <5>1, <5>2
      <4> QED
        BY <4>3, <4>4
    <3> QED
      BY <3>2, <3>3
  <2> QED
    BY <1>4, <2>4, LongerBegins
<1>7. stages' = stages \/ \E b \in Account, m \in StageId : StageStep(b, m)
  BY AccountSteps, AdditionStep DEF AInv, avars, ProfileStep, SubDomainStep, OnlySubDomain,
     CreateTenantSubDomain, StackDeployed, AddSubDomainAdmin,
     AdminCreateUser, RecordAdmin, FailAddition
\* What a status shows is what the stage has; without one it is "UNDEFINED".
<1>8. GETStage(a, n)'.OverallStatus # "UNDEFINED" => GETStage(a, n)' = MapStageDataToResponse(a, n)'
  BY <1>1 DEF GETStage, SetOverallStatus
<1> QED
  BY <1>1, <1>3, <1>5, <1>6, <1>7, <1>8

\* The stage a request asked for is the stage that is shown of the account and the list the
\* account is in; the comments on a stage stay, whatever status they come with, and those
\* of a stage that has a status are shown and counted, but for OnboardingDemo's.
THEOREM StagesAreShown == ASpec => StageShownAsAsked
<1>1. AInv /\ AInv' /\ [ANext]_avars =>
         [\A a \in Account :
            /\ \A name \in Asked : StagePatched(a, name) =>
                  /\ Shown(a)' = IF name \in Range(StageNames) THEN name ELSE Absent
                  /\ (name = "Active") = ([id |-> a, stage |-> name] \in Lists(a).Active')
                  /\ name \in {"Inactive", "Deactivated"} =>
                         \A item \in Lists(a).OnboardingInProg' : item.id # a
            /\ \A n \in StageId :
                  LET shown == GETStage(a, n)' IN
                  /\ IsPrefix(Noted(a, n), Noted(a, n)')
                  /\ shown.OverallStatus # "UNDEFINED" =>
                        /\ shown.FollowUpDetails = Noted(a, n)'
                        /\ StageNames[n] # "OnboardingDemo" => shown.CommentsCount = Len(shown.FollowUpDetails)
         ]_<<profile, stages>>
  BY PatchIsShown, CommentsStay
<1> QED
  BY <1>1, AccountsInv, AccountsStep, PTL DEF ASpec, StageShownAsAsked
=============================================================================
