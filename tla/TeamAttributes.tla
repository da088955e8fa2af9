---------------------------- MODULE TeamAttributes ----------------------------
(***************************************************************************)
(* The skills, values, milestones and metrics of a team:                   *)
(* TeamAttributeServiceV2 behind manage-team-attributes.                   *)
(*                                                                         *)
(* A request is let in by one read of the requester's member item, reads   *)
(* the attribute it is about, and then writes.  An update sets the name    *)
(* and the description it has put together without asking whether the item *)
(* is still there; DynamoDB then makes one that has nothing else.          *)
(***************************************************************************)
EXTENDS Naturals, FiniteSets

CONSTANTS Team, User,
          Attribute,   \* ids, drawn at random
          Text,        \* names and descriptions
          Default,     \* the attributes every team begins with, functions of ids to types
          Request,     \* requests in flight
          MaxFaults,   \* bound: calls that return an error, or the last of a request
          None

Type == {"SKILL", "VALUE", "MILESTONE", "METRIC"}

VARIABLES table,   \* under an id and a team
          drawn,   \* ids given out
          role,    \* of each user in each team, kept by the teams service
          req,
          faults

vars == <<table, drawn, role, req, faults>>

Field == {"name", "desc"}
TeamAttribute == [type : Type, name : Text, desc : Text, isDefault : BOOLEAN, createdBy : User]

\* What an update makes of an item that is gone has no type, and so is not in the index.
Remnant == [type : {None}, name : Text, desc : Text, isDefault : {FALSE}, createdBy : {None}]

ASSUME NoneAssumption == None \notin Type \cup Text \cup TeamAttribute \cup Remnant
ASSUME AttributeAssumption == IsFiniteSet(Attribute)
ASSUME DefaultAssumption == /\ Text # {}
                            /\ DOMAIN Default \subseteq Attribute
                            /\ \A a \in DOMAIN Default : Default[a] \in Type
ASSUME BoundAssumption == MaxFaults \in Nat

Call == [pc : {"put"}, id : Attribute, team : Team, item : TeamAttribute]
   \cup [pc : {"read"}, id : Attribute, team : Team, patch : [Field -> Text \cup {None}]]
   \cup [pc : {"update"}, id : Attribute, team : Team, patch : [Field -> Text \cup {None}], name : Text, desc : Text]
   \cup [pc : {"readToDelete", "delete"}, id : Attribute, team : Team]
Idle == [pc |-> "idle"]

\* An attribute is whole, or what an update left of one that was deleted.
TypeOK == /\ table \in [Attribute \X Team -> TeamAttribute \cup Remnant \cup {None}]
          /\ drawn \subseteq Attribute
          /\ role \in [Team -> [User -> {"ADMIN", "MEMBER", None}]]
          /\ req \in [Request -> Call \cup {Idle}]
          /\ faults \in 0..MaxFaults

Init == /\ table = [k \in Attribute \X Team |-> None]
        /\ drawn = {}
        /\ role \in [Team -> [User -> {"ADMIN", "MEMBER", None}]]
        /\ req = [r \in Request |-> Idle]
        /\ faults = 0
-----------------------------------------------------------------------------
Key(r) == <<req[r].id, req[r].team>>

Begin(r, call) ==
    /\ req[r] = Idle
    /\ req' = [req EXCEPT ![r] = call]
    /\ UNCHANGED <<table, role, faults>>

Goto(r, call) == req' = [req EXCEPT ![r] = call] /\ UNCHANGED <<drawn, role, faults>>

\* All in one BatchWriteItem, which may process a part of it; what it leaves is
\* not asked for.  Nothing but tests calls it.
InitializeDefaultAttributes(t, by) ==
    /\ DOMAIN Default \cap drawn = {}
    /\ drawn' = drawn \cup DOMAIN Default
    /\ \E processed \in SUBSET DOMAIN Default :
          table' = [k \in Attribute \X Team |->
                      IF k[2] = t /\ k[1] \in processed
                        THEN [type |-> Default[k[1]], name |-> CHOOSE x \in Text : TRUE, desc |-> CHOOSE x \in Text : TRUE,
                              isDefault |-> TRUE, createdBy |-> by]
                        ELSE table[k]]
    /\ UNCHANGED <<role, req, faults>>

\* isAdmin of verifyTeamMembership; whether the member is active is not asked.
verifyTeamMembership(t, u) == role[t][u] = "ADMIN"

createCustomAttribute(r, t, by, a, type, name) ==
    /\ verifyTeamMembership(t, by)
    /\ a \notin drawn
    /\ drawn' = drawn \cup {a}
    /\ Begin(r, [pc |-> "put", id |-> a, team |-> t,
                 item |-> [type |-> type, name |-> name, desc |-> name, isDefault |-> FALSE, createdBy |-> by]])

updateCustomAttribute(r, t, by, a, patch) ==
    /\ verifyTeamMembership(t, by)
    /\ \E f \in Field : patch[f] # None
    /\ Begin(r, [pc |-> "read", id |-> a, team |-> t, patch |-> patch])
    /\ UNCHANGED drawn

deleteCustomAttribute(r, t, by, a) ==
    /\ verifyTeamMembership(t, by)
    /\ Begin(r, [pc |-> "readToDelete", id |-> a, team |-> t])
    /\ UNCHANGED drawn
-----------------------------------------------------------------------------
(* The calls that follow.                                                  *)

CreateCustomAttribute(r) ==
    /\ req[r].pc = "put"
    /\ table' = [table EXCEPT ![Key(r)] = req[r].item]
    /\ Goto(r, Idle)

\* What GetItem finds; nothing is "attribute not found".
Found(k) == {table[k]} \ {None}

\* Plausible error: a field the request leaves out is written as it came.
PatchedAsGiven(old, patch, f) == patch[f]

Patched(old, patch, f) == IF patch[f] = None THEN old[f] ELSE patch[f]

GetAttributeById(r) ==
    LET q == req[r] IN
    /\ q.pc = "read"
    /\ IF Found(Key(r)) = {} THEN Goto(r, Idle)
       ELSE \E old \in Found(Key(r)) :
               Goto(r, [pc |-> "update", id |-> q.id, team |-> q.team, patch |-> q.patch,
                        name |-> Patched(old, q.patch, "name"), desc |-> Patched(old, q.patch, "desc")])
    /\ UNCHANGED table

Named(old, name, desc) ==
    IF old = None THEN [type |-> None, name |-> name, desc |-> desc, isDefault |-> FALSE, createdBy |-> None]
    ELSE [old EXCEPT !.name = name, !.desc = desc]

UpdateAttribute(r) ==
    /\ req[r].pc = "update"
    /\ table' = [table EXCEPT ![Key(r)] = Named(@, req[r].name, req[r].desc)]
    /\ Goto(r, Idle)

\* Plausible error: a default may be deleted.
DeletableAll(k) == table[k] # None

Deletable(k) == table[k] # None /\ ~table[k].isDefault

\* The handler's own first read, which decides on a 404, is merged with this one.
ReadToDelete(r) ==
    /\ req[r].pc = "readToDelete"
    /\ Goto(r, IF Deletable(Key(r)) THEN [req[r] EXCEPT !.pc = "delete"] ELSE Idle)
    /\ UNCHANGED table

DeleteAttribute(r) ==
    /\ req[r].pc = "delete"
    /\ table' = [table EXCEPT ![Key(r)] = None]
    /\ Goto(r, Idle)

Fail(r) ==
    /\ req[r] # Idle
    /\ faults < MaxFaults /\ faults' = faults + 1
    /\ req' = [req EXCEPT ![r] = Idle]
    /\ UNCHANGED <<table, drawn, role>>

\* The teams service changes roles meanwhile.
ChangeRole ==
    /\ \E t \in Team, u \in User, new \in {"ADMIN", "MEMBER"} : role' = [role EXCEPT ![t][u] = new]
    /\ UNCHANGED <<table, drawn, req, faults>>
-----------------------------------------------------------------------------
Handler(r, t, by) ==
    \E a \in Attribute :
        \/ \E type \in Type, name \in Text : createCustomAttribute(r, t, by, a, type, name)
        \/ \E patch \in [Field -> Text \cup {None}] : updateCustomAttribute(r, t, by, a, patch)
        \/ deleteCustomAttribute(r, t, by, a)

Next == \/ \E t \in Team, by \in User : \/ InitializeDefaultAttributes(t, by)
                                        \/ \E r \in Request : Handler(r, t, by)
        \/ \E r \in Request : \/ CreateCustomAttribute(r) \/ GetAttributeById(r) \/ UpdateAttribute(r)
                              \/ ReadToDelete(r) \/ DeleteAttribute(r) \/ Fail(r)
        \/ ChangeRole

Spec == Init /\ [][Next]_vars
-----------------------------------------------------------------------------
(* What a member sees.                                                     *)

\* The index has the items that have a team and a type.
ListTeamAttributes(t, types) == {a \in Attribute : table[<<a, t>>] # None /\ table[<<a, t>>].type \in types}

\* Plausible error: a group is forgotten.
GroupedWithoutMetrics(t) ==
    [type \in Type |-> IF type = "METRIC" THEN {} ELSE ListTeamAttributes(t, {type})]

GetAttributesByType(t) == [type \in Type |-> {a \in ListTeamAttributes(t, Type) : table[<<a, t>>].type = type}]

\* The groups are those of the whole team, whatever type was asked for; only the
\* total is of that type.
listTeamAttributes(t, types) ==
    [attributes |-> GetAttributesByType(t), total |-> Cardinality(ListTeamAttributes(t, types))]
-----------------------------------------------------------------------------
\* "List attributes filtered by type": false of this code, which groups them all.
FilterIsApplied ==
    \A t \in Team, type \in Type : \A other \in Type \ {type} :
        listTeamAttributes(t, {type}).attributes[other] = {}

\* "Default attributes (`isDefault=true`) cannot be updated or deleted": that they
\* cannot be updated is false of this code, which asks so for a deletion alone.
DefaultsAreFixed ==
    [][\A k \in Attribute \X Team : table[k] # None /\ table[k].isDefault => table'[k] = table[k]]_vars

\* "cannot delete default attributes", the half of it that DeleteAttribute keeps: of
\* those a team was given none is lost, becomes one of its own, or loses its type to
\* an update that comes late.
DefaultsRemain ==
    [][\A t \in Team : \A a \in ListTeamAttributes(t, Type) :
          table[<<a, t>>].isDefault =>
              /\ a \in listTeamAttributes(t, Type)'.attributes[table[<<a, t>>].type]
              /\ table'[<<a, t>>].isDefault]_vars
=============================================================================
