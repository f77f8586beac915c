-------------------------- MODULE ScreenRouterProofs ---------------------------
(***************************************************************************)
(* The screens of ScreenRouter for any number of records, requests, forms, *)
(* keys and values.  Each screen has an inductive invariant of its own;    *)
(* what they have in common is that requests are numbered in the order     *)
(* they are sent and answered in any order, so that an invariant speaks    *)
(* of the request sent last.                                               *)
(***************************************************************************)
EXTENDS ScreenRouter, TLAPS, FiniteSetTheorems, NaturalsInduction, WellFoundedInduction

--------------------------------------------------------------------------------
(* Slots of requests. *)

\* A set of numbers that is not empty has a smallest one.
LEMMA SmallestIsThere ==
  ASSUME NEW S, S \subseteq Nat, S # {}
  PROVE  \E x \in S : \A y \in S : x <= y
  <1> DEFINE Less == {ss \in Nat \X Nat : ss[1] < ss[2]}
  <1>1. IsWellFoundedOn(Less, Nat)
    <2>1. OpToRel(<, Nat) = Less
      BY DEF OpToRel
    <2> QED
      BY <2>1, NatLessThanWellFounded
  <1>2. PICK x \in S : \A y \in S : <<y, x>> \notin Less
    <2> HIDE DEF Less
    <2> QED
      BY <1>1, WFMin
  <1>3. ASSUME NEW y \in S PROVE x <= y
    <2>1. x \in Nat /\ y \in Nat
      OBVIOUS
    <2>2. y < x => <<y, x>> \in Less
      BY <2>1
    <2> HIDE DEF Less
    <2> QED
      BY <1>2, <2>1, <2>2
  <1> QED
    BY <1>3

\* First() of the roles screen finds it.
LEMMA FirstIsThere ==
  ASSUME NEW S, S \subseteq Nat, S # {}
  PROVE  Roles!First(S) \in S /\ \A y \in S : Roles!First(S) <= y
  BY SmallestIsThere DEF Roles!First

\* As many slots are used as the last one used says.
LEMMA SlotsUsed ==
  ASSUME NEW slots, NEW N \in Nat, NEW n \in 0..N,
         \A l \in 1..N : slots[l].step # "none" <=> l <= n
  PROVE  Cardinality({l \in 1..N : slots[l].step # "none"}) = n
  <1>1. {l \in 1..N : slots[l].step # "none"} = 1..n
    OBVIOUS
  <1>2. Cardinality(1..n) = n
    <2>1. Cardinality(1..n) = IF 1 > n THEN 0 ELSE n - 1 + 1
      BY FS_Interval
    <2> QED
      BY <2>1
  <1> QED
    BY <1>1, <1>2

\* The roles screen counts with the same Cardinality.
LEMMA CountedAlike == \A S : Roles!Cardinality(S) = Cardinality(S)
  BY DEF Roles!Cardinality, Cardinality

--------------------------------------------------------------------------------
(* The settings screen.  The disabled Load button keeps one GET in flight, and the form *)
(* stays hidden until it is answered. *)

\* One GET is under way at most, and none behind a form that can be saved.
OneGet ==
  /\ \A g \in Settings!Gets, h \in Settings!Gets : Settings!InFlight(g) /\ Settings!InFlight(h) => g = h
  /\ loaded => \A g \in Settings!Gets : ~Settings!InFlight(g)

\* While the key is not retyped, the GET under way and the form are about that key.
KeyIsCurrent ==
  ~retyped => /\ \A g \in Settings!Gets : Settings!InFlight(g) => gets[g].key = key
              /\ loaded => origin = key

\* What is sent was parsed: it is a value.
Parsed == put.step \in {"sent", "stored"} => put.value \in Settings!Stored

SettingsInv == Settings!TypeOK /\ Parsed /\ OneGet /\ KeyIsCurrent /\ Settings!StoredWhereItWasLoaded

--------------------------------------------------------------------------------
LEMMA SettingsInitInv == Settings!Init => SettingsInv
  <1> SUFFICES ASSUME Settings!Init
               PROVE  SettingsInv
    OBVIOUS
  <1> USE DEF Settings!Init
  <1>1. NoValue \in Settings!Stored /\ NoValue \in Settings!Texts
    BY DEF Settings!Stored, Settings!Texts
  <1>2. Settings!TypeOK
    BY <1>1 DEF Settings!TypeOK, Settings!GetOf
  <1>3. \A g \in Settings!Gets : ~Settings!InFlight(g)
    BY DEF Settings!InFlight, Settings!GetOf
  <1> QED
    BY <1>2, <1>3 DEF SettingsInv, Parsed, OneGet, KeyIsCurrent, Settings!StoredWhereItWasLoaded

LEMMA SettingsTypingKeepsInv == SettingsInv /\ (Settings!TypeKey \/ Settings!TypeValue) => SettingsInv'
  <1> SUFFICES ASSUME SettingsInv, Settings!TypeKey \/ Settings!TypeValue
               PROVE  SettingsInv'
    OBVIOUS
  <1> USE DEF SettingsInv, OneGet, KeyIsCurrent, Settings!StoredWhereItWasLoaded, Settings!InFlight, Parsed
  <1>1. CASE Settings!TypeKey
    <2>1. Settings!TypeOK'
      BY <1>1 DEF Settings!TypeKey, Settings!TypeOK
    <2> QED
      BY <1>1, <2>1 DEF Settings!TypeKey
  <1>2. CASE Settings!TypeValue
    <2>1. Settings!TypeOK'
      BY <1>2 DEF Settings!TypeValue, Settings!TypeOK
    <2> QED
      BY <1>2, <2>1 DEF Settings!TypeValue
  <1> QED
    BY <1>1, <1>2

LEMMA SettingsLoadKeepsInv ==
  ASSUME SettingsInv, NEW g \in Settings!Gets, Settings!Load(g)
  PROVE  SettingsInv'
  <1> USE DEF SettingsInv, Parsed, Settings!Load, Settings!SendGet
  <1>1. Settings!TypeOK'
    BY DEF Settings!TypeOK, Settings!GetOf, Settings!Stored, Settings!Texts
  <1>2. \A h \in Settings!Gets : Settings!InFlight(h)' => h = g
    BY DEF Settings!TypeOK, Settings!InFlight, Settings!Loading
  <1>3. gets'[g].key = key /\ key' = key /\ ~loaded' /\ put' = put
    BY DEF Settings!TypeOK, Settings!GetOf
  <1> QED
    BY <1>1, <1>2, <1>3 DEF OneGet, KeyIsCurrent, Settings!StoredWhereItWasLoaded

LEMMA SettingsAnswerKeepsInv ==
  ASSUME SettingsInv, NEW g \in Settings!Gets, Settings!Resolve(g) \/ Settings!Loaded(g) \/ Settings!LoadFails(g)
  PROVE  SettingsInv'
  <1> USE DEF SettingsInv, Parsed
  <1>1. CASE Settings!Resolve(g)
    <2> USE <1>1 DEF Settings!Resolve
    <2>1. Settings!TypeOK'
      BY DEF Settings!TypeOK, Settings!GetOf, Settings!Stored, Settings!Texts
    <2>2. \A h \in Settings!Gets : Settings!InFlight(h)' <=> Settings!InFlight(h)
      BY DEF Settings!TypeOK, Settings!InFlight, Settings!GetOf
    <2>3. \A h \in Settings!Gets : gets'[h].key = gets[h].key
      BY DEF Settings!TypeOK, Settings!GetOf
    <2> QED
      BY <2>1, <2>2, <2>3 DEF OneGet, KeyIsCurrent, Settings!StoredWhereItWasLoaded
  <1>2. CASE Settings!Loaded(g)
    <2> USE <1>2 DEF Settings!Loaded
    <2>1. Settings!TypeOK'
      BY DEF Settings!TypeOK
    <2>2. \A h \in Settings!Gets : ~Settings!InFlight(h)'
      BY DEF Settings!TypeOK, OneGet, Settings!InFlight
    <2>3. ~retyped => origin' = key
      BY DEF KeyIsCurrent, Settings!InFlight
    <2> QED
      BY <2>1, <2>2, <2>3 DEF OneGet, KeyIsCurrent, Settings!StoredWhereItWasLoaded
  <1>3. CASE Settings!LoadFails(g)
    <2> USE <1>3 DEF Settings!LoadFails
    <2>1. Settings!TypeOK'
      BY DEF Settings!TypeOK
    <2>2. \A h \in Settings!Gets : Settings!InFlight(h)' => Settings!InFlight(h) /\ gets'[h].key = gets[h].key
      BY DEF Settings!TypeOK, Settings!InFlight
    <2> QED
      BY <2>1, <2>2 DEF OneGet, KeyIsCurrent, Settings!StoredWhereItWasLoaded
  <1> QED
    BY <1>1, <1>2, <1>3

\* The form is saved only while it is there, so its value is the current key's or the key was retyped.
LEMMA SettingsSaveKeepsInv == SettingsInv /\ Settings!Save => SettingsInv'
  <1> SUFFICES ASSUME SettingsInv, Settings!Save
               PROVE  SettingsInv'
    OBVIOUS
  <1> USE DEF SettingsInv, Parsed, Settings!Save
  <1>1. Settings!TypeOK' /\ Parsed'
    BY DEF Settings!TypeOK, Settings!Texts
  <1>2. Settings!StoredWhereItWasLoaded'
    BY DEF Settings!StoredWhereItWasLoaded, KeyIsCurrent, Settings!TypeOK
  <1> QED
    BY <1>1, <1>2 DEF OneGet, KeyIsCurrent, Settings!InFlight

LEMMA SettingsPutKeepsInv ==
  SettingsInv /\ (Settings!Upsert \/ Settings!Saved \/ Settings!SaveFails) => SettingsInv'
  <1> SUFFICES ASSUME SettingsInv, Settings!Upsert \/ Settings!Saved \/ Settings!SaveFails
               PROVE  SettingsInv'
    OBVIOUS
  <1>0. put.step \in {"sent", "stored"}
    BY DEF Settings!Upsert, Settings!Saved, Settings!SaveFails, Settings!Saving
  <1>1. CASE Settings!Upsert
    <2>1. Settings!TypeOK'
      BY <1>1, <1>0 DEF SettingsInv, Parsed, Settings!TypeOK, Settings!Upsert
    <2> QED
      BY <2>1, <1>1 DEF SettingsInv, Parsed, Settings!TypeOK, Settings!Upsert, OneGet,
             KeyIsCurrent, Settings!StoredWhereItWasLoaded, Settings!InFlight
  <1>2. CASE Settings!Saved \/ Settings!SaveFails
    BY <1>0, <1>2 DEF SettingsInv, Parsed, Settings!TypeOK, Settings!Saved, Settings!SaveFails,
           OneGet, KeyIsCurrent, Settings!StoredWhereItWasLoaded, Settings!InFlight
  <1> QED
    BY <1>1, <1>2

LEMMA SettingsNextKeepsInv == SettingsInv /\ [Settings!Next]_settingsVars => SettingsInv'
  <1> SUFFICES ASSUME SettingsInv, [Settings!Next]_settingsVars
               PROVE  SettingsInv'
    OBVIOUS
  <1>1. CASE UNCHANGED settingsVars
    BY <1>1 DEF settingsVars, SettingsInv, Parsed, Settings!TypeOK, OneGet, KeyIsCurrent,
           Settings!StoredWhereItWasLoaded, Settings!InFlight
  <1> QED
    BY <1>1, SettingsTypingKeepsInv, SettingsLoadKeepsInv, SettingsAnswerKeepsInv,
       SettingsSaveKeepsInv, SettingsPutKeepsInv DEF Settings!Next

--------------------------------------------------------------------------------
(* The roles screen. *)

Saving == Roles!Saving
SaveSteps == {"patch", "patched", "put", "replaced", "post", "posted"}
Pending == \E s \in Roles!Saves : Roles!Pending(s)

\* A row, as the backend and the list have it, and a chain of requests.
IsRole(r) ==
  \/ r = Roles!NoRole
  \/ /\ r.id \in Nat \ {0}
     /\ r = [id |-> r.id, name |-> r.name, description |-> r.description,
             permissions |-> r.permissions, system |-> r.system]
IsChain(c) ==
  \/ c = Roles!NoSave
  \/ /\ c.step \in {"saved", "failed", "delete", "deleted"} \cup SaveSteps
     /\ c.touched \in BOOLEAN /\ c.lost \in BOOLEAN
     /\ c.lost => c.step \in {"patch", "put", "post", "delete", "failed"}
     /\ c = [step |-> c.step, id |-> c.id, text |-> c.text, touched |-> c.touched, lost |-> c.lost]
IsDialog(d) ==
  \/ d = Roles!NoDialog
  \/ /\ d.mode \in {"edit", "create"} /\ d.save \in 0..MaxRoleSaves
     /\ d = [mode |-> d.mode, id |-> d.id, form |-> d.form, save |-> d.save]

RoleTyped == IsRole(role) /\ role.id \in 0..ids /\ ids \in Nat /\ others \in 0..MaxRoleOthers
ListTyped ==
  /\ IsRole(roleRows) /\ roleRows.id \in 0..ids
  /\ rolesLoading \in BOOLEAN /\ behind \in BOOLEAN /\ rolesShown \in 0..MaxRoleLoads
  /\ roleLoads = [l \in Roles!Loads |-> roleLoads[l]]
  /\ \A l \in Roles!Loads :
       /\ roleLoads[l].step \in {"none", "sent", "read", "done"}
       /\ roleLoads[l].step = "read" => IsRole(roleLoads[l].role) /\ roleLoads[l].role.id \in 0..ids
ChainsTyped ==
  /\ IsDialog(roleDialog)
  /\ roleSaves = [s \in Roles!Saves |-> roleSaves[s]]
  /\ \A s \in Roles!Saves : IsChain(roleSaves[s])

\* A chain makes one role at most, and so does a change by others.
Begun == {s \in Roles!Saves : roleSaves[s].step \notin {"none", "post"}}
IdsCounted == ids <= 1 + others + Cardinality(Begun)

\* The list's loads take their slots in order.
RoleLoadsInOrder ==
  /\ Roles!Sent \in 1..MaxRoleLoads
  /\ \A l \in Roles!Loads : roleLoads[l].step # "none" <=> l <= Roles!Sent
  /\ rolesShown <= Roles!Sent

\* A dialog that saves waits for a chain of its own that is under way and not lost.
DialogWaits ==
  Saving => /\ roleDialog.save \in Roles!Saves
            /\ roleSaves[roleDialog.save].step \in SaveSteps /\ ~roleSaves[roleDialog.save].lost

\* What a chain has written is there until another request is committed.
Wrote(c, r) ==
  /\ c.step \in {"patched", "put", "replaced", "posted"} => r.id # 0
  /\ c.step = "deleted" => r.id = 0
  /\ c.step \in {"patched", "put", "replaced", "posted", "saved"} /\ r.id # 0 =>
       r.name = c.text.name /\ c.text.description \in {r.description, NoText}
  /\ c.step \in {"replaced", "posted", "saved"} /\ r.id # 0 => r.permissions = c.text.permissions
WroteWhatItSays ==
  \A s \in Roles!Saves : roleSaves[s].step # "none" /\ ~roleSaves[s].touched => Wrote(roleSaves[s], role)

\* A save whose dialog is gone, and a request that was lost, will not load the list, and is on
\* record.
Unheard(s) ==
  \/ roleSaves[s].step \in SaveSteps /\ ~(Saving /\ roleDialog.save = s)
  \/ roleSaves[s].step = "delete" /\ roleSaves[s].lost
UnheardIsBehind == \A s \in Roles!Saves : Unheard(s) => behind

\* The load sent last brings the role as it is committed, or a reload is to come.
LastLoadIsFresh ==
  \/ behind
  \/ Pending
  \/ /\ roleLoads[Roles!Sent].step = "read" => roleLoads[Roles!Sent].role = role
     /\ rolesShown = Roles!Sent => roleRows = role

RolesInv ==
  /\ RoleTyped /\ ListTyped /\ ChainsTyped
  /\ IdsCounted
  /\ RoleLoadsInOrder
  /\ DialogWaits
  /\ WroteWhatItSays
  /\ UnheardIsBehind
  /\ LastLoadIsFresh

LEMMA RolesInitInv == Roles!Init => RolesInv
  <1> SUFFICES ASSUME Roles!Init PROVE RolesInv
    OBVIOUS
  <1>1. /\ IsRole(role) /\ ids = role.id /\ role.id \in {0, 1}
    BY DEF Roles!Init, IsRole, Roles!NoRole, Roles!RoleOf
  <1>2. /\ roleRows = Roles!NoRole /\ rolesLoading = TRUE /\ behind = FALSE /\ rolesShown = 0
        /\ others = 0 /\ roleDialog = Roles!NoDialog
        /\ roleSaves = [s \in Roles!Saves |-> Roles!NoSave]
        /\ roleLoads = [l \in Roles!Loads |-> IF l = 1 THEN [step |-> "sent"] ELSE Roles!NoLoad]
    BY DEF Roles!Init
  <1>3. \A s \in Roles!Saves : roleSaves[s] = Roles!NoSave /\ roleSaves[s].step = "none"
    BY <1>2 DEF Roles!NoSave
  <1>4. \A l \in Roles!Loads : roleLoads[l].step = IF l = 1 THEN "sent" ELSE "none"
    BY <1>2 DEF Roles!NoLoad
  <1>5. Roles!NoRole.id = 0 /\ Roles!NoDialog.mode = "none" /\ IsRole(Roles!NoRole)
    BY DEF Roles!NoRole, Roles!NoDialog, IsRole
  <1>6. RoleTyped /\ ListTyped /\ ChainsTyped
    <2>1. role.id \in 0..ids /\ ids \in Nat /\ roleRows.id \in 0..ids
      BY <1>1, <1>2, <1>5
    <2>2. others \in 0..MaxRoleOthers /\ rolesShown \in 0..MaxRoleLoads
      BY <1>2, RouterAssumption
    <2>3. \A s \in Roles!Saves : IsChain(roleSaves[s])
      BY <1>3 DEF IsChain
    <2>4. roleSaves = [s \in Roles!Saves |-> roleSaves[s]]
      BY <1>2
    <2>5. roleLoads = [l \in Roles!Loads |-> roleLoads[l]]
      BY <1>2
    <2>6. \A l \in Roles!Loads : roleLoads[l].step \in {"none", "sent"}
      BY <1>4
    <2>7. IsDialog(roleDialog)
      BY <1>2 DEF IsDialog
    <2> QED
      BY <1>1, <1>2, <1>5, <2>1, <2>2, <2>3, <2>4, <2>5, <2>6, <2>7 DEF RoleTyped, ListTyped, ChainsTyped
  <1>7. Roles!Sent = 1
    <2>1. 1 \in 0..MaxRoleLoads /\ \A l \in 1..MaxRoleLoads : roleLoads[l].step # "none" <=> l <= 1
      BY <1>4, RouterAssumption DEF Roles!Loads
    <2>2. Cardinality({l \in 1..MaxRoleLoads : roleLoads[l].step # "none"}) = 1
      BY <2>1, SlotsUsed, RouterAssumption
    <2>3. Roles!Sent = Cardinality({l \in 1..MaxRoleLoads : roleLoads[l].step # "none"})
      BY Zenon, CountedAlike DEF Roles!Sent, Roles!Loads
    <2> QED
      BY <2>2, <2>3
  <1>8. RoleLoadsInOrder
    BY <1>2, <1>4, <1>7, RouterAssumption DEF RoleLoadsInOrder, Roles!Loads
  <1>9. IdsCounted
    <2>1. Begun = {}
      BY <1>3 DEF Begun
    <2>2. Cardinality(Begun) = 0
      BY <2>1, FS_EmptySet
    <2> QED
      BY <1>1, <1>2, <2>2 DEF IdsCounted
  <1>10. ~Saving
    BY <1>2, <1>5 DEF Saving, Roles!Saving
  <1>11. DialogWaits /\ WroteWhatItSays /\ UnheardIsBehind
    BY <1>3, <1>10 DEF DialogWaits, WroteWhatItSays, Wrote, UnheardIsBehind, Unheard,
       SaveSteps
  <1>12. LastLoadIsFresh
    <2>1. 1 \in Roles!Loads
      BY RouterAssumption DEF Roles!Loads
    <2> QED
      BY <1>2, <1>4, <1>7, <2>1 DEF LastLoadIsFresh
  <1> QED
    BY <1>6, <1>8, <1>9, <1>11, <1>12 DEF RolesInv


\* The load sent last, before a step and after it.
LEMMA RolesSentIs ==
  ASSUME NEW n \in 0..MaxRoleLoads
  PROVE  /\ (\A l \in Roles!Loads : roleLoads[l].step # "none" <=> l <= n) => Roles!Sent = n
         /\ (\A l \in Roles!Loads : roleLoads'[l].step # "none" <=> l <= n) => Roles!Sent' = n
  <1>1. \A slots : (\A l \in 1..MaxRoleLoads : slots[l].step # "none" <=> l <= n)
                   => Roles!Cardinality({l \in 1..MaxRoleLoads : slots[l].step # "none"}) = n
    <2>1. SUFFICES ASSUME NEW slots, \A l \in 1..MaxRoleLoads : slots[l].step # "none" <=> l <= n
                   PROVE  Cardinality({l \in 1..MaxRoleLoads : slots[l].step # "none"}) = n
      BY Zenon, CountedAlike
    <2> QED
      BY <2>1, SlotsUsed, RouterAssumption
  <1> QED
    BY <1>1 DEF Roles!Sent, Roles!Loads

\* load() takes the slot after the last one used.
LEMMA RolesLoadIsNext ==
  ASSUME ListTyped, RoleLoadsInOrder, Roles!Load
  PROVE  /\ roleLoads' = [l \in Roles!Loads |-> roleLoads'[l]]
         /\ Roles!Sent + 1 \in Roles!Loads /\ Roles!Sent' = Roles!Sent + 1
         /\ roleLoads'[Roles!Sent + 1].step = "sent"
         /\ \A l \in Roles!Loads : l # Roles!Sent + 1 => roleLoads'[l] = roleLoads[l]
         /\ RoleLoadsInOrder'
         /\ rolesLoading' = TRUE /\ roleRows' = roleRows /\ rolesShown' = rolesShown
  <1> DEFINE n == Roles!Sent
             l0 == Roles!First(Roles!Unused(roleLoads))
  <1>1. Roles!Unused(roleLoads) # {} /\ roleLoads' = [roleLoads EXCEPT ![l0] = [step |-> "sent"]]
        /\ rolesLoading' = TRUE /\ roleRows' = roleRows /\ rolesShown' = rolesShown
    BY DEF Roles!Load
  <1>2. n \in 1..MaxRoleLoads /\ rolesShown <= n /\ rolesShown \in 0..MaxRoleLoads
        /\ \A l \in Roles!Loads : roleLoads[l].step # "none" <=> l <= n
    BY DEF RoleLoadsInOrder, ListTyped
  <1>3. Roles!Unused(roleLoads) = {l \in Roles!Loads : roleLoads[l].step = "none"}
    BY DEF Roles!Unused, ListTyped
  <1>4. l0 \in Roles!Unused(roleLoads) /\ \A l \in Roles!Unused(roleLoads) : l0 <= l
    <2>1. Roles!Unused(roleLoads) \subseteq Nat
      BY <1>3 DEF Roles!Loads
    <2> QED
      BY <2>1, <1>1, FirstIsThere
  <1> HIDE DEF n, l0
  <1>5. n + 1 \in Roles!Loads /\ l0 = n + 1
    <2>1. l0 \in Roles!Loads /\ l0 > n
      BY <1>2, <1>3, <1>4 DEF Roles!Loads
    <2>2. n + 1 \in Roles!Loads /\ n + 1 > n
      BY <2>1, <1>2, RouterAssumption DEF Roles!Loads
    <2>3. n + 1 \in Roles!Unused(roleLoads)
      BY <2>2, <1>2, <1>3 DEF Roles!Loads
    <2> QED
      BY <2>1, <2>2, <2>3, <1>2, <1>4 DEF Roles!Loads
  <1>6. DOMAIN roleLoads = Roles!Loads
    BY DEF ListTyped
  <1>7. /\ roleLoads' = [l \in Roles!Loads |-> roleLoads'[l]]
        /\ roleLoads'[n + 1].step = "sent"
        /\ \A l \in Roles!Loads : l # n + 1 => roleLoads'[l] = roleLoads[l]
    BY <1>1, <1>5, <1>6
  <1>8. \A l \in Roles!Loads : roleLoads'[l].step # "none" <=> l <= n + 1
    BY <1>2, <1>5, <1>7 DEF Roles!Loads
  <1>9. n + 1 \in 0..MaxRoleLoads /\ n + 1 \in 1..MaxRoleLoads /\ rolesShown <= n + 1
    BY <1>2, <1>5 DEF Roles!Loads
  <1>10. Roles!Sent' = n + 1
    BY <1>8, <1>9, RolesSentIs
  <1>11. RoleLoadsInOrder'
    BY <1>1, <1>8, <1>9, <1>10 DEF RoleLoadsInOrder
  <1> QED
    BY <1>1, <1>5, <1>7, <1>10, <1>11 DEF n

\* Where no chain goes back and no role is made, the ids are still counted.
LEMMA IdsStayCounted ==
  ASSUME IdsCounted, ids \in Nat, ids' = ids, others \in Nat, others' \in Nat, others <= others',
         \A t \in Roles!Saves : roleSaves[t].step \notin {"none", "post"}
                                => roleSaves'[t].step \notin {"none", "post"}
  PROVE  IdsCounted'
  <1>1. Begun \subseteq Begun' /\ Begun' \subseteq 1..MaxRoleSaves
    BY DEF Begun, Roles!Saves
  <1>2. IsFiniteSet(Begun') /\ IsFiniteSet(Begun)
    <2>1. IsFiniteSet(1..MaxRoleSaves)
      BY FS_Interval, RouterAssumption
    <2>2. IsFiniteSet(Begun')
      BY <1>1, <2>1, FS_Subset
    <2> QED
      BY <1>1, <2>2, FS_Subset
  <1>3. Cardinality(Begun) <= Cardinality(Begun') /\ Cardinality(Begun) \in Nat /\ Cardinality(Begun') \in Nat
    BY <1>1, <1>2, FS_Subset, FS_CardinalityType
  <1> QED
    BY <1>3 DEF IdsCounted

LEMMA RolesListingKeepsInv ==
  ASSUME RolesInv, NEW l \in Roles!Loads, Roles!Read(l) \/ Roles!Show(l) \/ Roles!LoadFails(l)
  PROVE  RolesInv'
  <1> DEFINE n == Roles!Sent
  <1>0. RoleTyped /\ ListTyped /\ ChainsTyped /\ RoleLoadsInOrder
    BY DEF RolesInv
  <1>1. /\ role' = role /\ ids' = ids /\ others' = others
        /\ roleDialog' = roleDialog /\ roleSaves' = roleSaves
    BY DEF Roles!Read, Roles!Show, Roles!LoadFails, Roles!server
  <1>2. /\ RoleTyped' /\ ChainsTyped' /\ IdsCounted' /\ DialogWaits' /\ WroteWhatItSays'
        /\ Pending' = Pending /\ Saving' = Saving
    BY Zenon, <1>1 DEF RolesInv, RoleTyped, ChainsTyped, IdsCounted, Begun, DialogWaits, Saving,
      Roles!Saving, WroteWhatItSays, Pending, Roles!Pending, Roles!UnderWay
  <1>3. /\ roleLoads[l].step \in {"sent", "read"}
        /\ roleLoads' = [m \in Roles!Loads |-> roleLoads'[m]]
        /\ roleLoads'[l].step \in {"read", "done"}
        /\ \A m \in Roles!Loads : m # l => roleLoads'[m] = roleLoads[m]
        /\ roleLoads'[l].step = "read" => roleLoads'[l].role = role
    BY <1>0 DEF ListTyped, Roles!Read, Roles!Show, Roles!LoadFails
  <1>4. /\ rolesShown' \in {rolesShown, l} /\ rolesLoading' \in BOOLEAN /\ behind' \in BOOLEAN
        /\ behind => behind'
        /\ (roleRows' = roleRows \/ (roleLoads[l].step = "read" /\ roleRows' = roleLoads[l].role))
    BY <1>0 DEF ListTyped, Roles!Read, Roles!Show, Roles!LoadFails, Roles!server
  <1>5. ListTyped'
    <2>1. IsRole(roleRows') /\ roleRows'.id \in 0..ids
      BY <1>0, <1>4 DEF ListTyped
    <2>2. rolesShown' \in 0..MaxRoleLoads
      BY <1>0, <1>4, RouterAssumption DEF ListTyped, Roles!Loads
    <2>3. \A m \in Roles!Loads :
            /\ roleLoads'[m].step \in {"none", "sent", "read", "done"}
            /\ roleLoads'[m].step = "read" => IsRole(roleLoads'[m].role) /\ roleLoads'[m].role.id \in 0..ids
      BY <1>0, <1>3 DEF ListTyped, RoleTyped
    <2> QED
      BY <1>1, <1>3, <1>4, <2>1, <2>2, <2>3 DEF ListTyped, IsRole
  <1>6. n \in 1..MaxRoleLoads /\ l <= n
        /\ \A m \in Roles!Loads : roleLoads[m].step # "none" <=> m <= n
    BY <1>0, <1>3 DEF RoleLoadsInOrder
  <1>7. \A m \in Roles!Loads : roleLoads'[m].step # "none" <=> m <= n
    BY <1>3, <1>6
  <1>8. Roles!Sent' = n
    <2>1. n \in 0..MaxRoleLoads
      BY <1>6, RouterAssumption
    <2> HIDE DEF n
    <2> QED
      BY <2>1, <1>7, RolesSentIs
  <1>9. RoleLoadsInOrder'
    BY <1>0, <1>4, <1>6, <1>7, <1>8 DEF RoleLoadsInOrder
  <1>10. UnheardIsBehind'
    BY <1>1, <1>4 DEF RolesInv, UnheardIsBehind, Unheard, Saving, Roles!Saving
  <1>11. LastLoadIsFresh'
    <2>1. Pending' <=> Pending
      BY <1>1 DEF Pending, Roles!Pending, Roles!UnderWay
    <2>2. CASE behind \/ Pending
      BY <2>1, <2>2, <1>4 DEF LastLoadIsFresh
    <2>3. CASE Roles!LoadFails(l)
      BY <2>3 DEF LastLoadIsFresh, Roles!LoadFails
    <2>4. CASE /\ roleLoads[n].step = "read" => roleLoads[n].role = role
               /\ rolesShown = n => roleRows = role
               /\ Roles!Read(l) \/ Roles!Show(l)
      <3>0. n \in Roles!Loads /\ l \in Roles!Loads
        BY <1>6 DEF Roles!Loads
      <3>1. roleLoads'[n].step = "read" => roleLoads'[n].role = role
        BY <2>4, <3>0, <1>3
      <3>2. rolesShown' = n => roleRows' = role
        BY <2>4, <3>0, <1>1, <1>3 DEF Roles!Read, Roles!Show
      <3> QED
        BY <3>1, <3>2, <1>1, <1>8 DEF LastLoadIsFresh
    <2>5. behind \/ Pending \/ (/\ roleLoads[n].step = "read" => roleLoads[n].role = role
                                /\ rolesShown = n => roleRows = role)
      BY DEF RolesInv, LastLoadIsFresh
    <2> QED
      BY <2>2, <2>3, <2>4, <2>5
  <1> QED
    BY <1>2, <1>5, <1>9, <1>10, <1>11 DEF RolesInv

\* A chain moves on, and every other one stays as it is.
LEMMA ChainMoves ==
  ASSUME ChainsTyped, NEW s \in Roles!Saves, roleSaves[s].step # "none",
         NEW step \in {"put", "saved", "failed"}, step = "saved" => ~roleSaves[s].lost,
         roleSaves' = [roleSaves EXCEPT ![s].step = step]
  PROVE  /\ roleSaves' = [t \in Roles!Saves |-> roleSaves'[t]]
         /\ \A t \in Roles!Saves : IsChain(roleSaves'[t])
         /\ roleSaves'[s].step = step /\ roleSaves'[s].text = roleSaves[s].text
         /\ roleSaves'[s].touched = roleSaves[s].touched /\ roleSaves'[s].lost = roleSaves[s].lost
         /\ \A t \in Roles!Saves : t # s => roleSaves'[t] = roleSaves[t]
  <1>1. DOMAIN roleSaves = Roles!Saves /\ \A t \in Roles!Saves : IsChain(roleSaves[t])
    BY DEF ChainsTyped
  <1>2. /\ roleSaves' = [t \in Roles!Saves |-> roleSaves'[t]]
        /\ roleSaves'[s] = [roleSaves[s] EXCEPT !.step = step]
        /\ \A t \in Roles!Saves : t # s => roleSaves'[t] = roleSaves[t]
    BY <1>1
  <1>3. /\ roleSaves'[s].step = step /\ roleSaves'[s].text = roleSaves[s].text
        /\ roleSaves'[s].touched = roleSaves[s].touched /\ roleSaves'[s].lost = roleSaves[s].lost
        /\ IsChain(roleSaves'[s])
    <2>1. /\ roleSaves[s].touched \in BOOLEAN /\ roleSaves[s].lost \in BOOLEAN
          /\ roleSaves[s] = [step |-> roleSaves[s].step, id |-> roleSaves[s].id, text |-> roleSaves[s].text,
                             touched |-> roleSaves[s].touched, lost |-> roleSaves[s].lost]
      BY <1>1 DEF IsChain, Roles!NoSave
    <2> QED
      BY <1>2, <2>1 DEF IsChain, SaveSteps
  <1> QED
    BY <1>1, <1>2, <1>3

\* Where the chain of a committed request goes.
After(s, step) == IF roleSaves[s].lost THEN "failed" ELSE step

\* A request is lost on the way to the backend.
LEMMA ChainIsLost ==
  ASSUME ChainsTyped, NEW s \in Roles!Saves, roleSaves[s].step \in {"patch", "put", "post", "delete"},
         roleSaves' = [roleSaves EXCEPT ![s].lost = TRUE]
  PROVE  /\ roleSaves' = [t \in Roles!Saves |-> roleSaves'[t]]
         /\ \A t \in Roles!Saves : IsChain(roleSaves'[t])
         /\ roleSaves'[s] = [roleSaves[s] EXCEPT !.lost = TRUE] /\ roleSaves'[s].step = roleSaves[s].step
         /\ \A t \in Roles!Saves : t # s => roleSaves'[t] = roleSaves[t]
  <1>1. DOMAIN roleSaves = Roles!Saves /\ \A t \in Roles!Saves : IsChain(roleSaves[t])
    BY DEF ChainsTyped
  <1>2. /\ roleSaves' = [t \in Roles!Saves |-> roleSaves'[t]]
        /\ roleSaves'[s] = [roleSaves[s] EXCEPT !.lost = TRUE]
        /\ \A t \in Roles!Saves : t # s => roleSaves'[t] = roleSaves[t]
    BY <1>1
  <1>3. roleSaves'[s].step = roleSaves[s].step /\ IsChain(roleSaves'[s])
    <2>1. /\ roleSaves[s].touched \in BOOLEAN
          /\ roleSaves[s] = [step |-> roleSaves[s].step, id |-> roleSaves[s].id, text |-> roleSaves[s].text,
                             touched |-> roleSaves[s].touched, lost |-> roleSaves[s].lost]
      BY <1>1 DEF IsChain, Roles!NoSave
    <2> QED
      BY <1>2, <2>1 DEF IsChain, SaveSteps
  <1> QED
    BY <1>1, <1>2, <1>3

\* A committed request moves its own chain on, or ends it if it was lost, and touches every other one.
LEMMA ChainCommits ==
  ASSUME ChainsTyped, NEW s \in Roles!Saves, roleSaves[s].step # "none",
         NEW step \in {"patched", "replaced", "posted", "deleted"}, Roles!Committed(s, step)
  PROVE  /\ roleSaves' = [t \in Roles!Saves |-> roleSaves'[t]]
         /\ \A t \in Roles!Saves : IsChain(roleSaves'[t])
         /\ roleSaves'[s].step = After(s, step) /\ roleSaves'[s].text = roleSaves[s].text
         /\ roleSaves'[s].touched = roleSaves[s].touched /\ roleSaves'[s].lost = roleSaves[s].lost
         /\ \A t \in Roles!Saves : t # s =>
              /\ roleSaves'[t].step = roleSaves[t].step
              /\ roleSaves[t].step # "none" => roleSaves'[t].lost = roleSaves[t].lost
              /\ roleSaves'[t].step # "none" => roleSaves'[t].touched
  <1>1. \A t \in Roles!Saves : IsChain(roleSaves[t])
    BY DEF ChainsTyped
  <1>2. /\ roleSaves' = [t \in Roles!Saves |-> roleSaves'[t]]
        /\ roleSaves'[s] = [roleSaves[s] EXCEPT !.step = After(s, step)]
        /\ \A t \in Roles!Saves : t # s =>
             roleSaves'[t] = IF roleSaves[t].step = "none" THEN roleSaves[t]
                             ELSE [roleSaves[t] EXCEPT !.touched = TRUE]
    BY DEF Roles!Committed, After
  <1>3. \A t \in Roles!Saves : roleSaves[t].step # "none" =>
          /\ roleSaves[t].step \in {"saved", "failed", "delete", "deleted"} \cup SaveSteps
          /\ roleSaves[t].touched \in BOOLEAN /\ roleSaves[t].lost \in BOOLEAN
          /\ roleSaves[t].lost => roleSaves[t].step \in {"patch", "put", "post", "delete", "failed"}
          /\ roleSaves[t] = [step |-> roleSaves[t].step, id |-> roleSaves[t].id, text |-> roleSaves[t].text,
                             touched |-> roleSaves[t].touched, lost |-> roleSaves[t].lost]
    BY <1>1 DEF IsChain, Roles!NoSave
  <1>4. /\ roleSaves'[s].step = After(s, step) /\ roleSaves'[s].text = roleSaves[s].text
        /\ roleSaves'[s].touched = roleSaves[s].touched /\ roleSaves'[s].lost = roleSaves[s].lost
        /\ IsChain(roleSaves'[s])
    BY <1>2, <1>3 DEF IsChain, SaveSteps, After
  <1>5. ASSUME NEW t \in Roles!Saves, t # s
        PROVE  /\ roleSaves'[t].step = roleSaves[t].step
               /\ roleSaves[t].step # "none" => roleSaves'[t].lost = roleSaves[t].lost
               /\ roleSaves'[t].step # "none" => roleSaves'[t].touched
               /\ IsChain(roleSaves'[t])
    <2>1. CASE roleSaves[t].step = "none"
      BY <1>1, <1>2, <1>5, <2>1
    <2>2. CASE roleSaves[t].step # "none"
      BY <1>2, <1>3, <1>5, <2>2 DEF IsChain
    <2> QED
      BY <2>1, <2>2
  <1> QED
    BY <1>2, <1>4, <1>5

\* A change by others touches them all.
LEMMA ChainsTouched ==
  ASSUME ChainsTyped, Roles!SomeoneElse
  PROVE  /\ roleSaves' = [t \in Roles!Saves |-> roleSaves'[t]]
         /\ \A t \in Roles!Saves :
              /\ IsChain(roleSaves'[t])
              /\ roleSaves'[t].step = roleSaves[t].step
              /\ roleSaves[t].step # "none" => roleSaves'[t].lost = roleSaves[t].lost
              /\ roleSaves'[t].step # "none" => roleSaves'[t].touched
  <1>1. \A t \in Roles!Saves : IsChain(roleSaves[t])
    BY DEF ChainsTyped
  <1>2. /\ roleSaves' = [t \in Roles!Saves |-> roleSaves'[t]]
        /\ \A t \in Roles!Saves :
             roleSaves'[t] = IF roleSaves[t].step = "none" THEN roleSaves[t]
                             ELSE [roleSaves[t] EXCEPT !.touched = TRUE]
    BY DEF Roles!SomeoneElse
  <1>3. \A t \in Roles!Saves : roleSaves[t].step # "none" =>
          /\ roleSaves[t].step \in {"saved", "failed", "delete", "deleted"} \cup SaveSteps
          /\ roleSaves[t].touched \in BOOLEAN /\ roleSaves[t].lost \in BOOLEAN
          /\ roleSaves[t].lost => roleSaves[t].step \in {"patch", "put", "post", "delete", "failed"}
          /\ roleSaves[t] = [step |-> roleSaves[t].step, id |-> roleSaves[t].id, text |-> roleSaves[t].text,
                             touched |-> roleSaves[t].touched, lost |-> roleSaves[t].lost]
    BY <1>1 DEF IsChain, Roles!NoSave
  <1>4. ASSUME NEW t \in Roles!Saves
        PROVE  /\ roleSaves'[t].step = roleSaves[t].step
               /\ roleSaves[t].step # "none" => roleSaves'[t].lost = roleSaves[t].lost
               /\ roleSaves'[t].step # "none" => roleSaves'[t].touched
               /\ IsChain(roleSaves'[t])
    <2>1. CASE roleSaves[t].step = "none"
      BY <1>1, <1>2, <2>1
    <2>2. CASE roleSaves[t].step # "none"
      BY <1>2, <1>3, <2>2 DEF IsChain
    <2> QED
      BY <2>1, <2>2
  <1> QED
    BY <1>2, <1>4

\* A new chain takes the first slot.
LEMMA ChainBegins ==
  ASSUME ChainsTyped, Roles!Unused(roleSaves) # {}, NEW step \in {"patch", "post", "delete"}, NEW id, NEW text0,
         roleSaves' = [roleSaves EXCEPT ![Roles!First(Roles!Unused(roleSaves))] =
                         [step |-> step, id |-> id, text |-> text0, touched |-> FALSE, lost |-> FALSE]]
  PROVE  \E s \in Roles!Saves :
           /\ s = Roles!First(Roles!Unused(roleSaves))
           /\ roleSaves' = [t \in Roles!Saves |-> roleSaves'[t]]
           /\ \A t \in Roles!Saves : IsChain(roleSaves'[t])
           /\ roleSaves[s].step = "none" /\ roleSaves'[s].step = step /\ ~roleSaves'[s].lost
           /\ \A t \in Roles!Saves : t # s => roleSaves'[t] = roleSaves[t]
  <1> DEFINE s == Roles!First(Roles!Unused(roleSaves))
  <1>1. DOMAIN roleSaves = Roles!Saves /\ \A t \in Roles!Saves : IsChain(roleSaves[t])
    BY DEF ChainsTyped
  <1>2. s \in Roles!Saves /\ roleSaves[s].step = "none"
    <2>1. Roles!Unused(roleSaves) \subseteq Roles!Saves /\ Roles!Unused(roleSaves) \subseteq Nat
      BY <1>1 DEF Roles!Unused, Roles!Saves
    <2>2. s \in Roles!Unused(roleSaves)
      BY <2>1, FirstIsThere
    <2> HIDE DEF s
    <2> QED
      BY <1>1, <2>1, <2>2 DEF Roles!Unused
  <1> HIDE DEF s
  <1>3. roleSaves' = [roleSaves EXCEPT ![s] = [step |-> step, id |-> id, text |-> text0, touched |-> FALSE, lost |-> FALSE]]
    BY DEF s
  <1>4. /\ roleSaves' = [t \in Roles!Saves |-> roleSaves'[t]]
        /\ roleSaves'[s] = [step |-> step, id |-> id, text |-> text0, touched |-> FALSE, lost |-> FALSE]
        /\ \A t \in Roles!Saves : t # s => roleSaves'[t] = roleSaves[t]
    BY <1>1, <1>2, <1>3
  <1>5. IsChain(roleSaves'[s])
    <2> DEFINE c == [step |-> step, id |-> id, text |-> text0, touched |-> FALSE, lost |-> FALSE]
    <2>1. /\ c = [step |-> c.step, id |-> c.id, text |-> c.text, touched |-> c.touched, lost |-> c.lost]
          /\ c.step \in {"patch", "post", "delete"} /\ c.touched \in BOOLEAN /\ c.lost = FALSE
      OBVIOUS
    <2>2. roleSaves'[s] = c
      BY <1>4
    <2> HIDE DEF c
    <2> QED
      BY <2>1, <2>2 DEF IsChain, SaveSteps
  <1>6. \A t \in Roles!Saves : IsChain(roleSaves'[t])
    BY <1>1, <1>4, <1>5
  <1>7. roleSaves'[s].step = step /\ ~roleSaves'[s].lost
    BY <1>4
  <1>8. s = Roles!First(Roles!Unused(roleSaves))
    BY DEF s
  <1> QED
    BY <1>2, <1>4, <1>6, <1>7, <1>8

\* The user's steps leave the list and the role as they are.
LEMMA RolesUserKeepsInv == RolesInv /\ Roles!User => RolesInv'
  <1> SUFFICES ASSUME RolesInv, Roles!User
               PROVE  RolesInv'
    OBVIOUS
  <1>0. RoleTyped /\ ListTyped /\ ChainsTyped /\ RoleLoadsInOrder /\ IdsCounted /\ DialogWaits
        /\ WroteWhatItSays /\ UnheardIsBehind /\ LastLoadIsFresh
    BY DEF RolesInv
  <1>1. /\ role' = role /\ ids' = ids /\ others' = others
        /\ roleRows' = roleRows /\ rolesLoading' = rolesLoading /\ roleLoads' = roleLoads
        /\ rolesShown' = rolesShown
    BY DEF Roles!User, Roles!OpenEditDialog, Roles!OpenCreateDialog, Roles!Edit, Roles!Dismiss,
           Roles!Submit, Roles!Delete, Roles!server, Roles!list
  <1>2. behind' \in BOOLEAN /\ (behind => behind')
    BY <1>0 DEF ListTyped, Roles!User, Roles!OpenEditDialog, Roles!OpenCreateDialog, Roles!Edit,
           Roles!Dismiss, Roles!Submit, Roles!Delete
  <1>3. RoleTyped' /\ ListTyped' /\ RoleLoadsInOrder' /\ Roles!Sent' = Roles!Sent
    BY Zenon, <1>0, <1>1, <1>2 DEF RoleTyped, ListTyped, RoleLoadsInOrder, Roles!Sent
  <1>4. ASSUME \A s \in Roles!Saves : /\ roleSaves[s].step \notin {"none", "post"}
                                       => roleSaves'[s].step \notin {"none", "post"}
                                      /\ roleSaves[s].step # "none" => roleSaves'[s] = roleSaves[s],
               ChainsTyped', DialogWaits', UnheardIsBehind',
               \A s \in Roles!Saves : roleSaves[s].step = "none" =>
                                        roleSaves'[s].step \in {"none", "patch", "post", "delete"}
        PROVE  RolesInv'
    <2>1. IdsCounted'
      BY <1>0, <1>1, <1>4, IdsStayCounted DEF RoleTyped
    <2>2. WroteWhatItSays'
      <3>1. ASSUME NEW s \in Roles!Saves, roleSaves'[s].step # "none", ~roleSaves'[s].touched
            PROVE  Wrote(roleSaves'[s], role)
        <4>1. CASE roleSaves[s].step = "none"
          BY <1>4, <3>1, <4>1 DEF Wrote
        <4>2. CASE roleSaves[s].step # "none"
          <5>1. roleSaves'[s] = roleSaves[s] /\ Wrote(roleSaves[s], role)
            BY <1>0, <1>4, <3>1, <4>2 DEF WroteWhatItSays
          <5> QED
            BY <5>1
        <4> QED
          BY <4>1, <4>2
      <3> QED
        BY <1>1, <3>1 DEF WroteWhatItSays
    <2>3. LastLoadIsFresh'
      <3>1. Pending => Pending'
        BY <1>4 DEF Pending, Roles!Pending, Roles!UnderWay, Roles!Before, Roles!After
      <3> QED
        BY <3>1, <1>0, <1>1, <1>2, <1>3 DEF LastLoadIsFresh
    <2> QED
      BY <1>3, <1>4, <2>1, <2>2, <2>3 DEF RolesInv
  <1>5. CASE Roles!OpenEditDialog \/ Roles!OpenCreateDialog
    <2>1. /\ roleSaves' = roleSaves /\ behind' = behind
          /\ roleDialog.mode = "none" /\ IsDialog(roleDialog') /\ roleDialog'.save = 0
      BY <1>5, RouterAssumption DEF Roles!OpenEditDialog, Roles!OpenCreateDialog, Roles!Clickable, IsDialog
    <2>2. ~Saving /\ ~Saving'
      BY <2>1 DEF Saving, Roles!Saving
    <2>3. ChainsTyped' /\ DialogWaits' /\ UnheardIsBehind'
      BY <1>0, <2>1, <2>2 DEF ChainsTyped, IsDialog, DialogWaits, UnheardIsBehind, Unheard
    <2> QED
      BY <1>4, <2>1, <2>3
  <1>6. CASE Roles!Edit
    <2>1. roleSaves' = roleSaves /\ behind' = behind
      BY <1>6 DEF Roles!Edit
    <2>2. IsDialog(roleDialog') /\ roleDialog'.mode = roleDialog.mode /\ roleDialog'.save = roleDialog.save
      <3>1. PICK text0 \in RoleTexts : roleDialog' = [roleDialog EXCEPT !.form = text0]
        BY <1>6 DEF Roles!Edit
      <3>2. /\ roleDialog.mode \in {"edit", "create"} /\ roleDialog.save \in 0..MaxRoleSaves
            /\ roleDialog = [mode |-> roleDialog.mode, id |-> roleDialog.id, form |-> roleDialog.form,
                             save |-> roleDialog.save]
        BY <1>0, <1>6 DEF ChainsTyped, IsDialog, Roles!NoDialog, Roles!Edit
      <3> QED
        BY <3>1, <3>2 DEF IsDialog
    <2>3. Saving' <=> Saving
      BY <2>2 DEF Saving, Roles!Saving
    <2>4. ChainsTyped' /\ DialogWaits' /\ UnheardIsBehind'
      BY <1>0, <2>1, <2>2, <2>3 DEF ChainsTyped, IsDialog, DialogWaits, UnheardIsBehind, Unheard
    <2> QED
      BY <1>4, <2>1, <2>4
  <1>7. CASE Roles!Dismiss
    <2>1. /\ roleSaves' = roleSaves /\ roleDialog' = Roles!NoDialog /\ behind' = (behind \/ Saving)
      BY <1>7 DEF Roles!Dismiss, Saving
    <2>2. ~Saving' /\ IsDialog(roleDialog')
      BY <2>1 DEF Saving, Roles!Saving, Roles!NoDialog, IsDialog
    <2>3. ChainsTyped' /\ DialogWaits' /\ UnheardIsBehind'
      BY <1>0, <2>1, <2>2 DEF ChainsTyped, IsDialog, DialogWaits, UnheardIsBehind, Unheard
    <2> QED
      BY <1>4, <2>1, <2>3
  <1>8. CASE Roles!Submit
    <2> DEFINE s0 == Roles!First(Roles!Unused(roleSaves))
    <2>1. /\ roleDialog.mode # "none" /\ ~Saving /\ behind' = behind
          /\ Roles!Unused(roleSaves) # {}
          /\ roleSaves' = [roleSaves EXCEPT ![s0] =
               [step |-> IF roleDialog.mode = "edit" THEN "patch" ELSE "post",
                id |-> roleDialog.id, text |-> roleDialog.form, touched |-> FALSE, lost |-> FALSE]]
          /\ roleDialog' = [roleDialog EXCEPT !.save = s0]
      BY <1>8 DEF Roles!Submit, Saving
    <2>2. /\ s0 \in Roles!Saves
          /\ roleSaves' = [t \in Roles!Saves |-> roleSaves'[t]]
          /\ \A t \in Roles!Saves : IsChain(roleSaves'[t])
          /\ roleSaves[s0].step = "none" /\ roleSaves'[s0].step \in {"patch", "post"}
          /\ ~roleSaves'[s0].lost
          /\ \A t \in Roles!Saves : t # s0 => roleSaves'[t] = roleSaves[t]
      <3> DEFINE step0 == IF roleDialog.mode = "edit" THEN "patch" ELSE "post"
      <3>1. step0 \in {"patch", "post", "delete"} /\ step0 \in {"patch", "post"}
        OBVIOUS
      <3> HIDE DEF step0
      <3>2. roleSaves' = [roleSaves EXCEPT ![s0] =
               [step |-> step0, id |-> roleDialog.id, text |-> roleDialog.form, touched |-> FALSE, lost |-> FALSE]]
        BY <2>1 DEF step0
      <3> QED
        BY <1>0, <2>1, <3>1, <3>2, ChainBegins
    <2> HIDE DEF s0
    <2>3. /\ roleDialog'.mode = roleDialog.mode /\ roleDialog'.save = s0 /\ IsDialog(roleDialog')
      <3>1. /\ roleDialog.mode \in {"edit", "create"}
            /\ roleDialog = [mode |-> roleDialog.mode, id |-> roleDialog.id, form |-> roleDialog.form,
                             save |-> roleDialog.save]
        BY <1>0, <2>1 DEF ChainsTyped, IsDialog, Roles!NoDialog
      <3>2. s0 \in 0..MaxRoleSaves
        BY <2>2, RouterAssumption DEF Roles!Saves
      <3>3. roleDialog' = [roleDialog EXCEPT !.save = s0]
        BY <2>1
      <3> QED
        BY <3>1, <3>2, <3>3 DEF IsDialog
    <2>4. Saving'
      BY <2>1, <2>2, <2>3 DEF Saving, Roles!Saving, Roles!Saves
    <2>5. ChainsTyped'
      BY <2>2, <2>3 DEF ChainsTyped, IsDialog, IsChain
    <2>6. DialogWaits'
      BY <2>2, <2>3 DEF DialogWaits, SaveSteps
    <2>7. UnheardIsBehind'
      BY <1>0, <2>1, <2>2, <2>3, <2>4 DEF UnheardIsBehind, Unheard
    <2> QED
      BY <1>4, <2>2, <2>5, <2>6, <2>7
  <1>9. CASE Roles!Delete
    <2> DEFINE s0 == Roles!First(Roles!Unused(roleSaves))
    <2>1. /\ roleDialog' = roleDialog /\ roleDialog.mode = "none" /\ behind' = behind
          /\ Roles!Unused(roleSaves) # {}
          /\ roleSaves' = [roleSaves EXCEPT ![s0] =
               [step |-> "delete", id |-> roleRows.id, text |-> Roles!FormOf(roleRows), touched |-> FALSE, lost |-> FALSE]]
      BY <1>9 DEF Roles!Delete, Roles!Clickable
    <2>2. /\ s0 \in Roles!Saves
          /\ roleSaves' = [t \in Roles!Saves |-> roleSaves'[t]]
          /\ \A t \in Roles!Saves : IsChain(roleSaves'[t])
          /\ roleSaves[s0].step = "none" /\ roleSaves'[s0].step = "delete" /\ ~roleSaves'[s0].lost
          /\ \A t \in Roles!Saves : t # s0 => roleSaves'[t] = roleSaves[t]
      BY <1>0, <2>1, ChainBegins
    <2> HIDE DEF s0
    <2>3. ~Saving /\ ~Saving'
      BY <2>1 DEF Saving, Roles!Saving
    <2>4. ChainsTyped' /\ DialogWaits'
      BY <1>0, <2>1, <2>2, <2>3 DEF ChainsTyped, IsDialog, IsChain, DialogWaits
    <2>5. UnheardIsBehind'
      BY <1>0, <2>1, <2>2, <2>3 DEF UnheardIsBehind, Unheard, SaveSteps
    <2> QED
      BY <1>4, <2>2, <2>4, <2>5
  <1> QED
    BY <1>5, <1>6, <1>7, <1>8, <1>9 DEF Roles!User

\* A committed request is the latest one: its chain is the only one untouched.
LEMMA RolesCommitKeepsInv ==
  ASSUME RolesInv, NEW s \in Roles!Saves, Roles!Patch(s) \/ Roles!Put(s) \/ Roles!Post(s) \/ Roles!Remove(s)
  PROVE  RolesInv'
  <1>0. RoleTyped /\ ListTyped /\ ChainsTyped /\ RoleLoadsInOrder /\ IdsCounted /\ DialogWaits
        /\ WroteWhatItSays /\ UnheardIsBehind /\ LastLoadIsFresh
    BY DEF RolesInv
  <1>1. /\ others' = others /\ roleDialog' = roleDialog /\ behind' = (behind \/ roleSaves[s].lost)
        /\ roleRows' = roleRows /\ rolesLoading' = rolesLoading /\ roleLoads' = roleLoads
        /\ rolesShown' = rolesShown
    BY DEF Roles!Patch, Roles!Put, Roles!Post, Roles!Remove, Roles!list, Roles!Committed
  <1>2. RoleLoadsInOrder' /\ Roles!Sent' = Roles!Sent /\ Saving' = Saving
    BY Zenon, <1>0, <1>1 DEF RoleLoadsInOrder, Roles!Sent, Saving, Roles!Saving
  <1>3. ASSUME NEW step \in {"patched", "replaced", "posted", "deleted"}, Roles!Committed(s, step),
               roleSaves[s].step \in {"patch", "put", "post", "delete"},
               roleSaves[s].step \in SaveSteps <=> step \in SaveSteps,
               IsRole(role'), role'.id \in 0..ids', ids' \in Nat, ids <= ids', IdsCounted',
               \A c : /\ c.step = step
                      /\ c.text = roleSaves[s].text
                      /\ ~roleSaves[s].touched
                      => Wrote(c, role')
        PROVE  RolesInv'
    <2>1. /\ roleSaves' = [t \in Roles!Saves |-> roleSaves'[t]]
          /\ \A t \in Roles!Saves : IsChain(roleSaves'[t])
          /\ roleSaves'[s].step = After(s, step) /\ roleSaves'[s].text = roleSaves[s].text
          /\ roleSaves'[s].touched = roleSaves[s].touched /\ roleSaves'[s].lost = roleSaves[s].lost
          /\ \A t \in Roles!Saves : t # s =>
               /\ roleSaves'[t].step = roleSaves[t].step
               /\ roleSaves[t].step # "none" => roleSaves'[t].lost = roleSaves[t].lost
               /\ roleSaves'[t].step # "none" => roleSaves'[t].touched
      BY <1>0, <1>3, ChainCommits
    <2>a. roleSaves[s].lost \in BOOLEAN
      BY <1>0, <1>3 DEF ChainsTyped, IsChain, Roles!NoSave
    <2>b. \A c : c.step = "failed" => Wrote(c, role')
      BY DEF Wrote
    <2>2. RoleTyped' /\ ChainsTyped'
      BY <1>0, <1>1, <1>3, <2>1 DEF RoleTyped, ChainsTyped, IsRole, IsChain, IsDialog
    <2>3. ListTyped'
      <3>1. ids \in Nat /\ \A i \in 0..ids : i \in 0..ids'
        BY <1>0, <1>3 DEF RoleTyped
      <3>2. behind' \in BOOLEAN
        BY <1>0, <1>1, <2>a DEF ListTyped
      <3> QED
        BY <1>0, <1>1, <3>1, <3>2 DEF ListTyped, IsRole
    <2>4. DialogWaits'
      BY <1>0, <1>1, <1>2, <1>3, <2>1 DEF DialogWaits, After, SaveSteps
    <2>5. WroteWhatItSays'
      BY <1>3, <2>1, <2>a, <2>b DEF WroteWhatItSays, After
    <2>6. UnheardIsBehind'
      <3>1. CASE roleSaves[s].lost
        BY <1>1, <3>1 DEF UnheardIsBehind
      <3>2. CASE ~roleSaves[s].lost
        <4>1. roleSaves'[s].step = step /\ ~roleSaves'[s].lost
          BY <2>1, <3>2 DEF After
        <4>2. \A t \in Roles!Saves : Unheard(t)' => Unheard(t)
          BY <1>1, <1>2, <1>3, <2>1, <4>1 DEF Unheard, SaveSteps
        <4> QED
          BY <1>0, <1>1, <4>2 DEF UnheardIsBehind
      <3> QED
        BY <3>1, <3>2
    <2>7. LastLoadIsFresh'
      <3>1. CASE roleSaves[s].lost
        BY <1>1, <3>1 DEF LastLoadIsFresh
      <3>2. CASE ~roleSaves[s].lost
        <4>1. Pending'
          BY <1>3, <2>1, <3>2 DEF Pending, Roles!Pending, Roles!UnderWay, Roles!Before, Roles!After, After
        <4> QED
          BY <4>1 DEF LastLoadIsFresh
      <3> QED
        BY <3>1, <3>2
    <2> QED
      BY <1>2, <1>3, <2>2, <2>3, <2>4, <2>5, <2>6, <2>7 DEF RolesInv
  <1>4. ASSUME NEW step \in {"patched", "replaced", "posted", "deleted"}, Roles!Committed(s, step),
               roleSaves[s].step # "none", ids' = ids
        PROVE  IdsCounted'
    <2>1. \A t \in Roles!Saves : roleSaves[t].step \notin {"none", "post"}
                                 => roleSaves'[t].step \notin {"none", "post"}
      BY <1>0, <1>4, ChainCommits DEF After
    <2> QED
      BY <2>1, <1>0, <1>1, <1>4, IdsStayCounted DEF RoleTyped
  <1>5. role.id # 0 => /\ role.id \in Nat \ {0}
                       /\ role = [id |-> role.id, name |-> role.name, description |-> role.description,
                                  permissions |-> role.permissions, system |-> role.system]
    BY <1>0 DEF RoleTyped, IsRole, Roles!NoRole
  <1>6. CASE Roles!Patch(s)
    <2>1. /\ roleSaves[s].step = "patch" /\ role.id # 0 /\ Roles!Committed(s, "patched") /\ ids' = ids
          /\ role' = [role EXCEPT !.name = roleSaves[s].text.name,
                        !.description = IF roleSaves[s].text.description = NoText THEN @
                                        ELSE roleSaves[s].text.description]
      BY <1>6 DEF Roles!Patch, Roles!Modifiable, Roles!There
    <2>2. /\ role'.id = role.id /\ role'.name = roleSaves[s].text.name
          /\ roleSaves[s].text.description \in {role'.description, NoText}
          /\ IsRole(role')
      BY <1>5, <2>1 DEF IsRole
    <2>3. \A c : c.step = "patched" /\ c.text = roleSaves[s].text => Wrote(c, role')
      BY <2>1, <2>2 DEF Wrote
    <2>4. IdsCounted'
      BY <2>1, <1>4
    <2> QED
      BY <1>0, <1>3, <2>1, <2>2, <2>3, <2>4 DEF RoleTyped, SaveSteps
  <1>7. CASE Roles!Put(s)
    <2>1. /\ roleSaves[s].step = "put" /\ role.id # 0 /\ Roles!Committed(s, "replaced") /\ ids' = ids
          /\ role' = [role EXCEPT !.permissions = roleSaves[s].text.permissions]
      BY <1>7 DEF Roles!Put, Roles!Modifiable, Roles!There
    <2>2. /\ role'.id = role.id /\ role'.name = role.name /\ role'.description = role.description
          /\ role'.permissions = roleSaves[s].text.permissions
          /\ IsRole(role')
      BY <1>5, <2>1 DEF IsRole
    <2>3. \A c : c.step = "replaced" /\ c.text = roleSaves[s].text /\ ~roleSaves[s].touched => Wrote(c, role')
      <3>1. ~roleSaves[s].touched => /\ role.name = roleSaves[s].text.name
                                     /\ roleSaves[s].text.description \in {role.description, NoText}
        BY <1>0, <2>1 DEF WroteWhatItSays, Wrote
      <3> QED
        BY <2>1, <2>2, <3>1 DEF Wrote
    <2>4. IdsCounted'
      BY <2>1, <1>4
    <2> QED
      BY <1>0, <1>3, <2>1, <2>2, <2>3, <2>4 DEF RoleTyped, SaveSteps
  <1>8. CASE Roles!Remove(s)
    <2>1. /\ roleSaves[s].step = "delete" /\ Roles!Committed(s, "deleted") /\ ids' = ids
          /\ role' = Roles!NoRole
      BY <1>8 DEF Roles!Remove
    <2>2. role'.id = 0 /\ IsRole(role')
      BY <2>1 DEF IsRole, Roles!NoRole
    <2>3. \A c : c.step = "deleted" /\ c.text = roleSaves[s].text => Wrote(c, role')
      BY <2>2 DEF Wrote
    <2>4. IdsCounted'
      BY <2>1, <1>4
    <2> QED
      BY <1>0, <1>3, <2>1, <2>2, <2>3, <2>4 DEF RoleTyped, SaveSteps
  <1>9. CASE Roles!Post(s)
    <2>1. /\ roleSaves[s].step = "post" /\ Roles!Committed(s, "posted") /\ ids' = ids + 1
          /\ role' = Roles!RoleOf(ids + 1, roleSaves[s].text, FALSE)
      BY <1>9 DEF Roles!Post
    <2>2. ids \in Nat
      BY <1>0 DEF RoleTyped
    <2>3. /\ role'.id = ids + 1 /\ role'.name = roleSaves[s].text.name
          /\ role'.description = roleSaves[s].text.description
          /\ role'.permissions = roleSaves[s].text.permissions
          /\ IsRole(role')
      BY <2>1, <2>2 DEF IsRole, Roles!RoleOf
    <2>4. \A c : c.step = "posted" /\ c.text = roleSaves[s].text => Wrote(c, role')
      BY <2>2, <2>3 DEF Wrote
    <2>5. IdsCounted'
      <3>1. roleSaves'[s].step \in {"posted", "failed"}
            /\ \A t \in Roles!Saves : t # s => roleSaves'[t].step = roleSaves[t].step
        BY <1>0, <2>1, ChainCommits DEF After
      <3>2. Begun' = Begun \cup {s} /\ s \notin Begun /\ Begun \subseteq 1..MaxRoleSaves
        BY <2>1, <3>1 DEF Begun, Roles!Saves
      <3>3. IsFiniteSet(Begun)
        <4>1. IsFiniteSet(1..MaxRoleSaves)
          BY FS_Interval, RouterAssumption
        <4> QED
          BY <3>2, <4>1, FS_Subset
      <3>4. Cardinality(Begun') = Cardinality(Begun) + 1 /\ Cardinality(Begun) \in Nat
        BY <3>2, <3>3, FS_AddElement, FS_CardinalityType
      <3>5. others \in Nat
        BY <1>0, RouterAssumption DEF RoleTyped
      <3> QED
        BY <1>0, <1>1, <2>1, <2>2, <3>4, <3>5 DEF IdsCounted
    <2>6. role'.id \in 0..ids' /\ ids' \in Nat /\ ids <= ids'
      <3>1. ids' = ids + 1
        BY <2>1
      <3>2. role'.id = ids + 1
        BY <2>3
      <3> QED
        BY <2>2, <3>1, <3>2
    <2> QED
      BY <1>3, <2>1, <2>3, <2>4, <2>5, <2>6 DEF SaveSteps
  <1> QED
    BY <1>6, <1>7, <1>8, <1>9

\* Somebody else's change touches every chain, and is on record.
LEMMA RolesOthersKeepInv == RolesInv /\ Roles!SomeoneElse => RolesInv'
  <1> SUFFICES ASSUME RolesInv, Roles!SomeoneElse
               PROVE  RolesInv'
    OBVIOUS
  <1>0. RoleTyped /\ ListTyped /\ ChainsTyped /\ RoleLoadsInOrder /\ IdsCounted /\ DialogWaits
        /\ WroteWhatItSays
    BY DEF RolesInv
  <1>1. /\ others' = others + 1 /\ others < MaxRoleOthers /\ roleDialog' = roleDialog /\ behind' = TRUE
        /\ roleRows' = roleRows /\ rolesLoading' = rolesLoading /\ roleLoads' = roleLoads
        /\ rolesShown' = rolesShown
    BY DEF Roles!SomeoneElse, Roles!list
  <1>2. RoleLoadsInOrder' /\ Saving' = Saving
    BY Zenon, <1>0, <1>1 DEF RoleLoadsInOrder, Roles!Sent, Saving, Roles!Saving
  <1>3. ids \in Nat /\ others \in Nat /\ others' \in 0..MaxRoleOthers
    BY <1>0, <1>1, RouterAssumption DEF RoleTyped
  <1>4. IsRole(role') /\ role'.id \in 0..ids' /\ ids' \in {ids, ids + 1}
    <2>1. CASE role.id # 0
      <3>1. /\ role.id \in Nat \ {0}
            /\ role = [id |-> role.id, name |-> role.name, description |-> role.description,
                       permissions |-> role.permissions, system |-> role.system]
        BY <1>0, <2>1 DEF RoleTyped, IsRole, Roles!NoRole
      <3>2. PICK t \in RoleTexts : role' \in {Roles!NoRole, [role EXCEPT !.name = t.name],
                                              [role EXCEPT !.permissions = t.permissions]}
        BY <2>1 DEF Roles!SomeoneElse, Roles!There
      <3>3. ids' = ids
        BY <2>1 DEF Roles!SomeoneElse, Roles!There
      <3>4. CASE role' = Roles!NoRole
        BY <1>3, <3>3, <3>4 DEF IsRole, Roles!NoRole
      <3>5. CASE role' = [role EXCEPT !.name = t.name]
        BY <1>0, <3>1, <3>3, <3>5 DEF IsRole, RoleTyped
      <3>6. CASE role' = [role EXCEPT !.permissions = t.permissions]
        BY <1>0, <3>1, <3>3, <3>6 DEF IsRole, RoleTyped
      <3> QED
        BY <3>2, <3>4, <3>5, <3>6, <3>3
    <2>2. CASE role.id = 0
      <3>1. PICK t \in RoleTexts : role' = Roles!RoleOf(ids + 1, t, FALSE)
        BY <2>2 DEF Roles!SomeoneElse, Roles!There
      <3>2. ids' = ids + 1
        BY <2>2 DEF Roles!SomeoneElse, Roles!There
      <3> QED
        BY <1>3, <3>1, <3>2 DEF IsRole, Roles!RoleOf
    <2> QED
      BY <2>1, <2>2
  <1>5. /\ roleSaves' = [t \in Roles!Saves |-> roleSaves'[t]]
        /\ \A t \in Roles!Saves :
             /\ IsChain(roleSaves'[t])
             /\ roleSaves'[t].step = roleSaves[t].step
             /\ roleSaves[t].step # "none" => roleSaves'[t].lost = roleSaves[t].lost
             /\ roleSaves'[t].step # "none" => roleSaves'[t].touched
    BY <1>0, ChainsTouched
  <1>6. RoleTyped' /\ ChainsTyped'
    <2>1. ids' \in Nat
      BY <1>3, <1>4
    <2>2. RoleTyped'
      BY <1>3, <1>4, <2>1 DEF RoleTyped, IsRole
    <2> QED
      BY <1>0, <1>1, <1>5, <2>2 DEF ChainsTyped, IsChain, IsDialog
  <1>7. ListTyped'
    <2>1. \A i \in 0..ids : i \in 0..ids'
      BY <1>3, <1>4
    <2> QED
      BY <1>0, <1>1, <2>1 DEF ListTyped, IsRole
  <1>8. IdsCounted'
    <2>1. Begun' = Begun
      BY <1>5 DEF Begun
    <2>2. Cardinality(Begun) \in Nat
      <3>1. Begun \subseteq 1..MaxRoleSaves /\ IsFiniteSet(1..MaxRoleSaves)
        BY FS_Interval, RouterAssumption DEF Begun, Roles!Saves
      <3>2. IsFiniteSet(Begun)
        BY <3>1, FS_Subset
      <3> QED
        BY <3>2, FS_CardinalityType
    <2> QED
      BY <1>0, <1>1, <1>3, <1>4, <2>1, <2>2 DEF IdsCounted
  <1>9. DialogWaits'
    BY <1>0, <1>1, <1>2, <1>5 DEF DialogWaits, SaveSteps
  <1>10. WroteWhatItSays'
    BY <1>5 DEF WroteWhatItSays
  <1>11. UnheardIsBehind' /\ LastLoadIsFresh'
    BY <1>1 DEF UnheardIsBehind, LastLoadIsFresh
  <1> QED
    BY <1>2, <1>6, <1>7, <1>8, <1>9, <1>10, <1>11 DEF RolesInv

\* An answer moves its chain on, and a reported change loads the list.
LEMMA RolesAnswersKeepInv ==
  ASSUME RolesInv, NEW s \in Roles!Saves,
         Roles!Patched(s) \/ Roles!Saved(s) \/ Roles!Deleted(s) \/ Roles!Fail(s)
  PROVE  RolesInv'
  <1>0. RoleTyped /\ ListTyped /\ ChainsTyped /\ RoleLoadsInOrder /\ IdsCounted /\ DialogWaits
        /\ WroteWhatItSays /\ UnheardIsBehind /\ LastLoadIsFresh
    BY DEF RolesInv
  <1>1. role' = role /\ ids' = ids /\ others' = others
    BY DEF Roles!Patched, Roles!Saved, Roles!Deleted, Roles!Fail, Roles!server
  <1>2. RoleTyped'
    BY <1>0, <1>1 DEF RoleTyped, IsRole
  <1>3. ASSUME roleSaves[s].step # "none", NEW step \in {"put", "saved", "failed"},
               step = "saved" => ~roleSaves[s].lost,
               roleSaves' = [roleSaves EXCEPT ![s].step = step],
               ~roleSaves[s].touched => \A c : c.step = step /\ c.text = roleSaves[s].text => Wrote(c, role),
               IsDialog(roleDialog'), ListTyped', RoleLoadsInOrder', LastLoadIsFresh', UnheardIsBehind',
               DialogWaits'
        PROVE  RolesInv'
    <2>1. /\ roleSaves' = [t \in Roles!Saves |-> roleSaves'[t]]
          /\ \A t \in Roles!Saves : IsChain(roleSaves'[t])
          /\ roleSaves'[s].step = step /\ roleSaves'[s].text = roleSaves[s].text
          /\ roleSaves'[s].touched = roleSaves[s].touched
          /\ \A t \in Roles!Saves : t # s => roleSaves'[t] = roleSaves[t]
      BY <1>0, <1>3, ChainMoves
    <2>2. ChainsTyped'
      BY <1>3, <2>1 DEF ChainsTyped, IsChain, IsDialog
    <2>3. WroteWhatItSays'
      BY <1>0, <1>1, <1>3, <2>1 DEF WroteWhatItSays
    <2>4. IdsCounted'
      <3>1. \A t \in Roles!Saves : roleSaves[t].step \notin {"none", "post"}
                                   => roleSaves'[t].step \notin {"none", "post"}
        BY <1>3, <2>1
      <3>2. others \in Nat /\ ids \in Nat
        BY <1>0, RouterAssumption DEF RoleTyped
      <3> QED
        BY <3>1, <3>2, <1>0, <1>1, IdsStayCounted
    <2> QED
      BY <1>2, <1>3, <2>2, <2>3, <2>4 DEF RolesInv
  <1>4. ASSUME roleRows' = roleRows, rolesLoading' = rolesLoading, roleLoads' = roleLoads,
               rolesShown' = rolesShown, behind' \in BOOLEAN
        PROVE  ListTyped' /\ RoleLoadsInOrder' /\ Roles!Sent' = Roles!Sent
    BY Zenon, <1>0, <1>1, <1>4 DEF ListTyped, RoleLoadsInOrder, Roles!Sent
  <1>a. roleSaves[s].step \in {"patched", "replaced", "posted", "deleted"} => ~roleSaves[s].lost
    BY <1>0 DEF ChainsTyped, IsChain, Roles!NoSave
  <1>5. CASE Roles!Patched(s)
    <2>1. /\ roleSaves[s].step = "patched" /\ roleSaves' = [roleSaves EXCEPT ![s].step = "put"]
          /\ roleRows' = roleRows /\ rolesLoading' = rolesLoading /\ roleLoads' = roleLoads
          /\ rolesShown' = rolesShown /\ behind' = behind /\ roleDialog' = roleDialog
      BY <1>5 DEF Roles!Patched, Roles!list
    <2>2. /\ roleSaves'[s].step = "put" /\ ~roleSaves'[s].lost
          /\ \A t \in Roles!Saves : t # s => roleSaves'[t] = roleSaves[t]
      BY <1>0, <1>a, <2>1, ChainMoves
    <2>3. ListTyped' /\ RoleLoadsInOrder'
      BY <1>0, <1>4, <2>1 DEF ListTyped
    <2>4. Saving' = Saving
      BY <2>1 DEF Saving, Roles!Saving
    <2>5. DialogWaits' /\ UnheardIsBehind'
      BY <1>0, <2>1, <2>2, <2>4 DEF DialogWaits, UnheardIsBehind, Unheard, SaveSteps
    <2>6. LastLoadIsFresh'
      BY <2>2 DEF LastLoadIsFresh, Pending, Roles!Pending, Roles!UnderWay, Roles!Before
    <2>7. ~roleSaves[s].touched => \A c : c.step = "put" /\ c.text = roleSaves[s].text => Wrote(c, role)
      BY <1>0, <2>1 DEF WroteWhatItSays, Wrote
    <2>8. IsDialog(roleDialog')
      BY <1>0, <2>1 DEF ChainsTyped
    <2> QED
      BY <1>3, <2>1, <2>3, <2>5, <2>6, <2>7, <2>8
  <1>6. CASE Roles!Fail(s)
    <2>1. /\ roleSaves[s].step # "none"
          /\ \/ roleSaves' = [roleSaves EXCEPT ![s].step = "failed"]
             \/ /\ roleSaves[s].step \in {"patch", "put", "post", "delete"}
                /\ roleSaves' = [roleSaves EXCEPT ![s].lost = TRUE]
          /\ roleRows' = roleRows /\ rolesLoading' = rolesLoading /\ roleLoads' = roleLoads
          /\ rolesShown' = rolesShown /\ behind' = TRUE
          /\ roleDialog' = IF Saving /\ roleDialog.save = s THEN [roleDialog EXCEPT !.save = 0] ELSE roleDialog
      BY <1>6 DEF Roles!Fail, Roles!list, Roles!Pending, Roles!UnderWay, Roles!Before, Roles!After, Saving
    <2>2. \A t \in Roles!Saves : t # s => roleSaves'[t] = roleSaves[t]
      BY <1>0, <2>1, ChainMoves, ChainIsLost
    <2>3. ListTyped' /\ RoleLoadsInOrder'
      BY <1>4, <2>1
    <2>4. UnheardIsBehind' /\ LastLoadIsFresh'
      BY <2>1 DEF UnheardIsBehind, LastLoadIsFresh
    <2>5. IsDialog(roleDialog') /\ DialogWaits'
      <3>1. CASE Saving /\ roleDialog.save = s
        <4>1. /\ roleDialog.mode \in {"edit", "create"}
              /\ roleDialog = [mode |-> roleDialog.mode, id |-> roleDialog.id, form |-> roleDialog.form,
                               save |-> roleDialog.save]
          BY <1>0, <3>1 DEF ChainsTyped, IsDialog, Roles!NoDialog, Saving, Roles!Saving
        <4>2. roleDialog' = [roleDialog EXCEPT !.save = 0]
          BY <2>1, <3>1
        <4>3. roleDialog'.save = 0 /\ IsDialog(roleDialog')
          BY <4>1, <4>2, RouterAssumption DEF IsDialog
        <4> QED
          BY <4>3 DEF DialogWaits, Saving, Roles!Saving
      <3>2. CASE ~(Saving /\ roleDialog.save = s)
        <4>1. roleDialog' = roleDialog
          BY <2>1, <3>2
        <4> QED
          BY <1>0, <2>2, <3>2, <4>1 DEF ChainsTyped, DialogWaits, Saving, Roles!Saving
      <3> QED
        BY <3>1, <3>2
    <2>6. CASE roleSaves' = [roleSaves EXCEPT ![s].step = "failed"]
      <3>1. \A c : c.step = "failed" => Wrote(c, role)
        BY DEF Wrote
      <3> QED
        BY <1>3, <2>1, <2>3, <2>4, <2>5, <2>6, <3>1
    <2>7. CASE /\ roleSaves[s].step \in {"patch", "put", "post", "delete"}
               /\ roleSaves' = [roleSaves EXCEPT ![s].lost = TRUE]
      <3>1. /\ roleSaves' = [t \in Roles!Saves |-> roleSaves'[t]]
            /\ \A t \in Roles!Saves : IsChain(roleSaves'[t])
            /\ roleSaves'[s] = [roleSaves[s] EXCEPT !.lost = TRUE]
            /\ roleSaves'[s].step = roleSaves[s].step
        BY <1>0, <2>7, ChainIsLost
      <3>2. ChainsTyped'
        BY <2>5, <3>1 DEF ChainsTyped, IsChain, IsDialog
      <3>3. WroteWhatItSays'
        <4>1. roleSaves'[s].text = roleSaves[s].text /\ roleSaves'[s].touched = roleSaves[s].touched
          BY <1>0, <2>7, <3>1 DEF ChainsTyped, IsChain, Roles!NoSave
        <4> QED
          BY <1>0, <1>1, <2>2, <2>7, <3>1, <4>1 DEF WroteWhatItSays, Wrote
      <3>4. IdsCounted'
        <4>1. \A t \in Roles!Saves : roleSaves[t].step \notin {"none", "post"}
                                     => roleSaves'[t].step \notin {"none", "post"}
          BY <2>2, <3>1
        <4>2. others \in Nat /\ ids \in Nat
          BY <1>0, RouterAssumption DEF RoleTyped
        <4> QED
          BY <4>1, <4>2, <1>0, <1>1, IdsStayCounted
      <3> QED
        BY <1>2, <2>3, <2>4, <2>5, <3>2, <3>3, <3>4 DEF RolesInv
    <2> QED
      BY <2>1, <2>6, <2>7
  <1>7. CASE Roles!Saved(s)
    <2>1. roleSaves[s].step \in {"replaced", "posted"} /\ roleSaves' = [roleSaves EXCEPT ![s].step = "saved"]
      BY <1>7 DEF Roles!Saved
    <2>2. /\ roleSaves'[s].step = "saved"
          /\ \A t \in Roles!Saves : t # s => roleSaves'[t] = roleSaves[t]
      BY <1>0, <1>a, <2>1, ChainMoves
    <2>3. ~roleSaves[s].touched => \A c : c.step = "saved" /\ c.text = roleSaves[s].text => Wrote(c, role)
      BY <1>0, <2>1 DEF WroteWhatItSays, Wrote
    <2>4. CASE /\ Saving /\ roleDialog.save = s
               /\ roleDialog' = Roles!NoDialog
               /\ Roles!Reload(s)
      <3>1. Roles!Load /\ behind' = (behind /\ \E t \in Roles!Saves \ {s} : Roles!UnderWay(t))
        BY <2>4 DEF Roles!Reload
      <3>2. /\ roleLoads' = [l \in Roles!Loads |-> roleLoads'[l]]
            /\ Roles!Sent + 1 \in Roles!Loads /\ Roles!Sent' = Roles!Sent + 1
            /\ roleLoads'[Roles!Sent + 1].step = "sent"
            /\ \A l \in Roles!Loads : l # Roles!Sent + 1 => roleLoads'[l] = roleLoads[l]
            /\ RoleLoadsInOrder'
            /\ rolesLoading' = TRUE /\ roleRows' = roleRows /\ rolesShown' = rolesShown
        BY <1>0, <3>1, RolesLoadIsNext
      <3>3. ~Saving' /\ IsDialog(roleDialog')
        BY <2>4 DEF Saving, Roles!Saving, Roles!NoDialog, IsDialog
      <3>4. ListTyped'
        BY <1>0, <1>1, <3>1, <3>2 DEF ListTyped, IsRole
      <3>5. DialogWaits'
        BY <3>3 DEF DialogWaits
      <3>6. UnheardIsBehind'
        <4>1. ASSUME NEW t \in Roles!Saves, Unheard(t)'
              PROVE  behind'
          <5>1. t # s /\ Unheard(t)
            BY <2>2, <2>4, <4>1 DEF Unheard, SaveSteps
          <5>2. behind /\ Roles!UnderWay(t)
            BY <1>0, <5>1 DEF UnheardIsBehind, Unheard, SaveSteps, Roles!UnderWay, Roles!Before, Roles!After
          <5> QED
            BY <3>1, <5>1, <5>2
        <4> QED
          BY <4>1 DEF UnheardIsBehind
      <3>7. LastLoadIsFresh'
        <4>1. roleLoads'[Roles!Sent'].step = "sent"
          BY <3>2
        <4>2. rolesShown' # Roles!Sent'
          BY <1>0, <3>2 DEF RoleLoadsInOrder, ListTyped
        <4> QED
          BY <4>1, <4>2 DEF LastLoadIsFresh
      <3> QED
        BY <1>3, <1>a, <2>1, <2>3, <3>2, <3>3, <3>4, <3>5, <3>6, <3>7
    <2>5. CASE /\ ~(Saving /\ roleDialog.save = s)
               /\ UNCHANGED <<roleDialog, Roles!list, behind>>
      <3>1. /\ roleRows' = roleRows /\ rolesLoading' = rolesLoading /\ roleLoads' = roleLoads
            /\ rolesShown' = rolesShown /\ behind' = behind /\ roleDialog' = roleDialog
        BY <2>5 DEF Roles!list
      <3>2. ListTyped' /\ RoleLoadsInOrder'
        BY <1>0, <1>4, <3>1 DEF ListTyped
      <3>3. Saving' = Saving
        BY <3>1 DEF Saving, Roles!Saving
      <3>4. DialogWaits' /\ UnheardIsBehind' /\ IsDialog(roleDialog')
        BY <1>0, <2>2, <2>5, <3>1, <3>3 DEF DialogWaits, UnheardIsBehind, Unheard, ChainsTyped, SaveSteps
      <3>5. LastLoadIsFresh'
        BY <1>0, <2>1, <2>5, <3>1 DEF UnheardIsBehind, Unheard, SaveSteps, LastLoadIsFresh
      <3> QED
        BY <1>3, <1>a, <2>1, <2>3, <3>2, <3>4, <3>5
    <2> QED
      BY <1>7, <2>4, <2>5 DEF Roles!Saved, Saving
  <1>8. CASE Roles!Deleted(s)
    <2>1. /\ roleSaves[s].step = "deleted" /\ roleSaves' = [roleSaves EXCEPT ![s].step = "saved"]
          /\ roleDialog' = roleDialog /\ Roles!Load
          /\ behind' = (behind /\ \E t \in Roles!Saves \ {s} : Roles!UnderWay(t))
      BY <1>8 DEF Roles!Deleted, Roles!Reload
    <2>2. /\ roleSaves'[s].step = "saved"
          /\ \A t \in Roles!Saves : t # s => roleSaves'[t] = roleSaves[t]
      BY <1>0, <1>a, <2>1, ChainMoves
    <2>3. /\ roleLoads' = [l \in Roles!Loads |-> roleLoads'[l]]
          /\ Roles!Sent + 1 \in Roles!Loads /\ Roles!Sent' = Roles!Sent + 1
          /\ roleLoads'[Roles!Sent + 1].step = "sent"
          /\ \A l \in Roles!Loads : l # Roles!Sent + 1 => roleLoads'[l] = roleLoads[l]
          /\ RoleLoadsInOrder'
          /\ rolesLoading' = TRUE /\ roleRows' = roleRows /\ rolesShown' = rolesShown
      BY <1>0, <2>1, RolesLoadIsNext
    <2>4. ListTyped' /\ IsDialog(roleDialog')
      BY <1>0, <1>1, <2>1, <2>3 DEF ListTyped, IsRole, ChainsTyped
    <2>5. Saving' = Saving
      BY <2>1 DEF Saving, Roles!Saving
    <2>6. DialogWaits'
      BY <1>0, <2>1, <2>2, <2>5 DEF DialogWaits, SaveSteps
    <2>7. UnheardIsBehind'
      <3>1. ASSUME NEW t \in Roles!Saves, Unheard(t)'
            PROVE  behind'
        <4>1. t # s /\ Unheard(t)
          BY <2>1, <2>2, <2>5, <3>1 DEF Unheard, SaveSteps
        <4>2. behind /\ Roles!UnderWay(t)
          BY <1>0, <4>1 DEF UnheardIsBehind, Unheard, SaveSteps, Roles!UnderWay, Roles!Before, Roles!After
        <4> QED
          BY <2>1, <4>1, <4>2
      <3> QED
        BY <3>1 DEF UnheardIsBehind
    <2>8. LastLoadIsFresh'
      <3>1. roleLoads'[Roles!Sent'].step = "sent"
        BY <2>3
      <3>2. rolesShown' # Roles!Sent'
        BY <1>0, <2>3 DEF RoleLoadsInOrder, ListTyped
      <3> QED
        BY <3>1, <3>2 DEF LastLoadIsFresh
    <2>9. ~roleSaves[s].touched => \A c : c.step = "saved" /\ c.text = roleSaves[s].text => Wrote(c, role)
      BY <1>0, <2>1 DEF WroteWhatItSays, Wrote
    <2> QED
      BY <1>3, <1>a, <2>1, <2>3, <2>4, <2>6, <2>7, <2>8, <2>9
  <1> QED
    BY <1>5, <1>6, <1>7, <1>8

LEMMA RolesNextKeepsInv == RolesInv /\ [Roles!Next]_rolesVars => RolesInv'
  <1> SUFFICES ASSUME RolesInv, [Roles!Next]_rolesVars
               PROVE  RolesInv'
    OBVIOUS
  <1>1. CASE UNCHANGED rolesVars
    <2>1. /\ role' = role /\ ids' = ids /\ roleRows' = roleRows /\ rolesLoading' = rolesLoading
          /\ roleLoads' = roleLoads /\ roleDialog' = roleDialog /\ roleSaves' = roleSaves /\ others' = others
          /\ behind' = behind /\ rolesShown' = rolesShown
      BY <1>1 DEF rolesVars
    <2> QED
      BY Zenon, <2>1 DEF RolesInv, RoleTyped, ListTyped, ChainsTyped, RoleLoadsInOrder, IdsCounted, Begun,
        DialogWaits, WroteWhatItSays, UnheardIsBehind, Unheard, LastLoadIsFresh, Pending,
        Saving, Roles!Sent, Roles!Pending, Roles!UnderWay, Roles!Saving
  <1> QED
    BY <1>1, RolesListingKeepsInv, RolesUserKeepsInv, RolesCommitKeepsInv, RolesOthersKeepInv,
       RolesAnswersKeepInv DEF Roles!Next, Roles!Listing, Roles!Backend, Roles!Answers

\* What the invariant says of the toast, of the Save button and of the types.
LEMMA RolesInvShows == RolesInv => Roles!TypeOK /\ ToastMeansSaved /\ WaitsForARequest
  <1> SUFFICES ASSUME RolesInv
               PROVE  Roles!TypeOK /\ ToastMeansSaved /\ WaitsForARequest
    OBVIOUS
  <1>0. RoleTyped /\ ListTyped /\ ChainsTyped /\ IdsCounted /\ DialogWaits /\ WroteWhatItSays
    BY DEF RolesInv
  <1>1. ids \in 0..(1 + MaxRoleSaves + MaxRoleOthers)
    <2>1. Begun \subseteq 1..MaxRoleSaves
      BY DEF Begun, Roles!Saves
    <2>2. IsFiniteSet(1..MaxRoleSaves) /\ Cardinality(1..MaxRoleSaves) = MaxRoleSaves
      <3>1. Cardinality(1..MaxRoleSaves) = IF 1 > MaxRoleSaves THEN 0 ELSE MaxRoleSaves - 1 + 1
        BY FS_Interval, RouterAssumption
      <3>2. IsFiniteSet(1..MaxRoleSaves)
        BY FS_Interval, RouterAssumption
      <3> QED
        BY <3>1, <3>2, RouterAssumption
    <2>3. IsFiniteSet(Begun) /\ Cardinality(Begun) <= MaxRoleSaves
      BY <2>1, <2>2, FS_Subset
    <2>4. Cardinality(Begun) \in Nat
      BY <2>3, FS_CardinalityType
    <2> QED
      BY <1>0, <2>3, <2>4, RouterAssumption DEF RoleTyped, IdsCounted
  <1>2. \A s \in Roles!Saves : roleSaves[s].step \in {"none", "saved", "failed"} \cup Roles!Before \cup Roles!After
    <2>1. \A s \in Roles!Saves : IsChain(roleSaves[s])
      BY <1>0 DEF ChainsTyped
    <2>2. \A c : IsChain(c) => c.step \in {"none", "saved", "failed", "delete", "deleted"} \cup SaveSteps
      BY DEF IsChain, Roles!NoSave
    <2>3. SaveSteps \cup {"delete", "deleted"} = Roles!Before \cup Roles!After
      BY DEF SaveSteps, Roles!Before, Roles!After
    <2> QED
      BY <2>1, <2>2, <2>3
  <1>3. /\ roleDialog.mode \in {"none", "edit", "create"}
        /\ roleDialog.mode # "none" => roleDialog.save \in 0..MaxRoleSaves
    BY <1>0 DEF ChainsTyped, IsDialog, Roles!NoDialog
  <1>4. Roles!TypeOK
    BY <1>0, <1>1, <1>2, <1>3 DEF Roles!TypeOK, RoleTyped, ListTyped
  <1>5. ToastMeansSaved
    BY <1>0 DEF ToastMeansSaved, Roles!ToastMeansSaved, WroteWhatItSays, Wrote, Roles!There
  <1>6. WaitsForARequest
    BY <1>0 DEF WaitsForARequest, Roles!WaitsForARequest, DialogWaits, Saving, Roles!Pending,
                Roles!UnderWay, Roles!Before, Roles!After, SaveSteps
  <1> QED
    BY <1>4, <1>5, <1>6

\* The dialog opens on a row of the load shown, and that is the last one unless one is to come.
LEMMA EditStepStartsFromCommitted ==
  ASSUME RolesInv, [Roles!Next]_rolesVars, roleDialog.mode = "none", roleDialog'.mode = "edit"
  PROVE  \/ behind \/ rolesShown # Roles!Sent \/ \E s \in Roles!Saves : Roles!Pending(s)
         \/ roleRows = role
  BY DEF RolesInv, LastLoadIsFresh, Pending

--------------------------------------------------------------------------------
(* The list screens. *)

IsRows(table0) == DOMAIN table0 \subseteq Records /\ \A i \in DOMAIN table0 : table0[i] \in 0..MaxSaves

IsLoad(q) ==
  \/ q = NoLoad
  \/ q = [step |-> "done"]
  \/ /\ q.step \in {"sent", "counted"}
     /\ q.page \in 1..MaxRecords /\ q.size \in PageSizes /\ q.filtered \in BOOLEAN
     /\ q.step = "counted" => q.total \in 0..MaxRecords
  \/ /\ q.step = "read"
     /\ q.filtered \in BOOLEAN /\ q.total \in 0..MaxRecords /\ IsRows(q.rows)

Request == [step : {"sent", "committed"}, id : 0..MaxRecords, closes : BOOLEAN, reloads : BOOLEAN,
            heard : BOOLEAN, version : Nat]
IsSave(c) == c = NoSave \/ c = [step |-> "done"] \/ c \in Request

ServerTyped ==
  /\ present \subseteq Records /\ matching \subseteq Records
  /\ version \in [Records -> Nat] /\ narrowed \in BOOLEAN
PagingTyped ==
  /\ page \in 1..MaxRecords /\ pageSize \in PageSizes /\ filtered \in BOOLEAN /\ astray \in BOOLEAN
TableTyped ==
  /\ IsRows(rows) /\ totalItems \in 0..MaxRecords /\ counted \in BOOLEAN /\ shown \in 0..MaxLoads
LoadsTyped ==
  /\ loading \in BOOLEAN
  /\ loads = [l \in Loads |-> loads[l]] /\ \A l \in Loads : IsLoad(loads[l])
DialogTyped ==
  \/ dialog = NoDialog
  \/ /\ dialog.kind \in {"create", "edit", "confirm"}
     /\ dialog.id \in 0..MaxRecords /\ dialog.saving \in BOOLEAN
     /\ dialog = [kind |-> dialog.kind, id |-> dialog.id, saving |-> dialog.saving]
SavesTyped == saves = [s \in Saves |-> saves[s]] /\ \A s \in Saves : IsSave(saves[s])

\* The GETs take their slots in order.
LoadsInOrder ==
  /\ Sent \in 1..MaxLoads /\ shown <= Sent
  /\ \A l \in Loads : loads[l].step # "none" <=> l <= Sent

\* Every change of a record was a save's, and none is answered before it is committed.
Ended == {s \in Saves : saves[s].step \notin {"none", "sent"}}
VersionsAgree ==
  /\ \A i \in Records : version[i] <= Cardinality(Ended)
  /\ acked \in [Records -> Nat] /\ \A i \in Records : acked[i] <= version[i]
  /\ \A s \in Saves : saves[s].step = "committed" =>
       saves[s].id \in Records /\ saves[s].version <= version[saves[s].id]

\* The load sent last reads every change that was answered.
LastLoadHasAcked ==
  /\ loads[Sent].step = "read" => \A i \in DOMAIN loads[Sent].rows : loads[Sent].rows[i] >= acked[i]
  /\ shown = Sent => \A i \in DOMAIN rows : rows[i] >= acked[i]

\* The list as it is now has the rows that were ever counted, and the page that is asked for.
Size(S, M, f) == Cardinality(IF f THEN S \cap M ELSE S)
PageExists(p, k, n) == p = 1 \/ (p - 1) * k < n
CountsHold ==
  ~narrowed =>
    /\ totalItems <= Size(present, matching, counted)
    /\ \A l \in Loads : loads[l].step \in {"counted", "read"} =>
         loads[l].total <= Size(present, matching, loads[l].filtered)
    /\ ~astray => PageExists(page, pageSize, Size(present, matching, filtered))

\* The load sent last is for the page the screen is on, and finds rows there.
LastLoadIsForThePage ==
  ~astray =>
    /\ loads[Sent].step \in {"sent", "counted"} =>
         loads[Sent].page = page /\ loads[Sent].size = pageSize /\ loads[Sent].filtered = filtered
    /\ ~narrowed /\ loads[Sent].step = "read" /\ loads[Sent].total > 0 => DOMAIN loads[Sent].rows # {}
    /\ ~narrowed /\ shown = Sent /\ totalItems > 0 => DOMAIN rows # {}

ListInv ==
  /\ ServerTyped /\ PagingTyped /\ TableTyped /\ LoadsTyped /\ DialogTyped /\ SavesTyped
  /\ screen \in Screens
  /\ LoadsInOrder
  /\ VersionsAgree
  /\ LastLoadHasAcked
  /\ CountsHold
  /\ LastLoadIsForThePage

\* Among n + 1 numbers or more there is one with n above it.
LEMMA RankIsThere ==
  ASSUME NEW S, S \subseteq Records, NEW n \in Nat, n < Cardinality(S)
  PROVE  \E i \in S : Cardinality({j \in S : j > i}) = n
  <1> DEFINE Above(x) == {j \in S : j > x}
             T == {x \in 0..MaxRecords : Cardinality(Above(x)) <= n}
  <1>0. MaxRecords \in Nat /\ \A j \in S : j \in Nat /\ 1 <= j /\ j <= MaxRecords
    BY BoundsAssumption DEF Records
  <1>1. IsFiniteSet(S) /\ \A x : IsFiniteSet(Above(x)) /\ Cardinality(Above(x)) \in Nat
    <2>1. IsFiniteSet(1..MaxRecords)
      BY FS_Interval, BoundsAssumption
    <2>2. IsFiniteSet(S)
      BY <2>1, FS_Subset DEF Records
    <2>3. ASSUME NEW x PROVE IsFiniteSet(Above(x))
      BY <2>2, FS_Subset
    <2> HIDE DEF Above
    <2> QED
      BY <2>2, <2>3, FS_CardinalityType
  <1>2. MaxRecords \in T
    <2>1. Above(MaxRecords) = {}
      BY <1>0
    <2>2. Cardinality({}) = 0
      BY FS_EmptySet
    <2> QED
      BY <1>0, <2>1, <2>2
  <1>3. PICK i \in T : \A x \in T : i <= x
    <2>1. T \subseteq Nat
      OBVIOUS
    <2> HIDE DEF T
    <2> QED
      BY <1>2, <2>1, SmallestIsThere
  <1>4. i \in 0..MaxRecords /\ i \in Nat /\ Cardinality(Above(i)) <= n
    <2>1. i \in T
      OBVIOUS
    <2> QED
      BY <1>0, <2>1
  <1>5. i # 0
    <2>1. Above(0) = S
      <3>1. \A j \in S : j > 0
        BY <1>0
      <3> QED
        BY <3>1
    <2>2. Cardinality(Above(0)) > n /\ Cardinality(Above(0)) \in Nat
      BY <1>1, <2>1
    <2> HIDE DEF Above, T
    <2> QED
      BY <1>4, <2>2
  <1>6. i - 1 \in 0..MaxRecords /\ ~(i <= i - 1)
    BY <1>0, <1>4, <1>5
  <1>7. Cardinality(Above(i - 1)) > n
    <2>1. i - 1 \notin T
      BY <1>3, <1>6
    <2>2. ~(Cardinality(Above(i - 1)) <= n)
      BY <1>6, <2>1
    <2>3. Cardinality(Above(i - 1)) \in Nat
      BY <1>1
    <2> HIDE DEF Above, T
    <2> QED
      BY <2>2, <2>3
  <1>8. i \in S /\ Above(i - 1) = Above(i) \cup {i} /\ i \notin Above(i)
    <2>1. \A j \in S : j > i - 1 <=> j > i \/ j = i
      BY <1>0, <1>4, <1>5
    <2>2. i \notin S => Above(i - 1) = Above(i)
      BY <2>1
    <2>3. i \in S
      <3> HIDE DEF Above
      <3> QED
        BY <2>2, <1>1, <1>4, <1>7
    <2>4. ~(i > i)
      BY <1>4
    <2> QED
      BY <2>1, <2>3, <2>4
  <1>9. Cardinality(Above(i - 1)) = Cardinality(Above(i)) + 1
    <2> HIDE DEF Above
    <2> QED
      BY <1>1, <1>8, FS_AddElement
  <1>10. Cardinality(Above(i)) = n
    <2> HIDE DEF Above
    <2> QED
      BY <1>1, <1>4, <1>7, <1>9
  <1> QED
    BY <1>8, <1>10

\* A page that begins within the list has rows.
LEMMA PageHasRows ==
  ASSUME NEW S, S \subseteq Records, NEW p \in Nat \ {0}, NEW k \in Nat \ {0}, Cardinality(S) > 0,
         p = 1 \/ (p - 1) * k < Cardinality(S)
  PROVE  PageOf(S, p, k) # {}
  <1>1. (p - 1) * k \in Nat /\ (p - 1) * k < Cardinality(S)
    <2>1. CASE p = 1
      <3>1. (p - 1) * k = 0
        BY <2>1
      <3> QED
        BY <3>1
    <2>2. CASE p # 1
      BY <2>2
    <2> QED
      BY <2>1, <2>2
  <1>2. PICK i \in S : Cardinality({j \in S : j > i}) = (p - 1) * k
    BY <1>1, RankIsThere
  <1>3. (p - 1) * k < p * k
    <2>1. p * k = (p - 1) * k + k
      OBVIOUS
    <2> QED
      BY <1>1, <2>1
  <1>4. i \in PageOf(S, p, k)
    BY <1>1, <1>2, <1>3 DEF PageOf
  <1> QED
    BY <1>4

\* The page the paginator goes to begins within the list, if the one before did.
LEMMA PaginatedPageExists ==
  ASSUME NEW p \in Nat, NEW k \in Nat \ {0}, NEW n \in Nat, page \in Nat \ {0}, pageSize \in Nat \ {0},
         totalItems \in Nat, totalItems <= n, Paginate(p, k), page = 1 \/ (page - 1) * pageSize < n
  PROVE  p \in Nat \ {0} /\ (p = 1 \/ (p - 1) * k < n)
  <1>1. CASE k = pageSize /\ p = page + 1 /\ page * pageSize < totalItems
    <2>1. (p - 1) * k = page * pageSize
      BY <1>1
    <2>2. page * pageSize \in Nat
      OBVIOUS
    <2> QED
      BY <1>1, <2>1, <2>2
  <1>2. CASE k = pageSize /\ page > 1 /\ p = page - 1
    <2>1. (page - 1) * pageSize = (p - 1) * k + k
      BY <1>2
    <2>2. (p - 1) * k \in Nat
      BY <1>2
    <2> QED
      BY <1>2, <2>1, <2>2
  <1>3. CASE k # pageSize /\ p = ((page - 1) * pageSize) \div k + 1
    <2> DEFINE a == (page - 1) * pageSize
    <2>1. a \in Nat /\ (page = 1 => a = 0)
      OBVIOUS
    <2> HIDE DEF a
    <2>2. a \div k \in Nat /\ (a \div k) * k <= a
      BY <2>1
    <2>3. p - 1 = a \div k
      BY <1>3, <2>2 DEF a
    <2>4. (p - 1) * k <= a
      BY <2>2, <2>3
    <2>5. page = 1 => p = 1
      <3>1. a = 0 => a \div k = 0
        OBVIOUS
      <3> QED
        BY <2>1, <2>3, <3>1
    <2>6. page # 1 => a < n
      BY DEF a
    <2>7. (p - 1) * k \in Nat
      BY <2>2, <2>3
    <2> QED
      BY <1>3, <2>1, <2>2, <2>3, <2>4, <2>5, <2>6, <2>7
  <1> QED
    BY <1>1, <1>2, <1>3 DEF Paginate

\* How many rows the list has.
LEMMA SizeIsANumber ==
  ASSUME NEW S, S \subseteq Records, NEW M, NEW f
  PROVE  Size(S, M, f) \in 0..MaxRecords
  <1> DEFINE T == IF f THEN S \cap M ELSE S
  <1>1. T \subseteq 1..MaxRecords
    BY DEF Records
  <1> HIDE DEF T
  <1>2. IsFiniteSet(1..MaxRecords) /\ Cardinality(1..MaxRecords) = MaxRecords
    <2>1. Cardinality(1..MaxRecords) = IF 1 > MaxRecords THEN 0 ELSE MaxRecords - 1 + 1
      BY FS_Interval, BoundsAssumption
    <2>2. IsFiniteSet(1..MaxRecords)
      BY FS_Interval, BoundsAssumption
    <2> QED
      BY <2>1, <2>2, BoundsAssumption
  <1>3. IsFiniteSet(T) /\ Cardinality(T) <= MaxRecords
    BY <1>1, <1>2, FS_Subset
  <1>4. Cardinality(T) \in Nat
    BY <1>3, FS_CardinalityType
  <1> QED
    BY <1>3, <1>4, BoundsAssumption DEF Size, T

\* It grows with the records.
LEMMA SizeGrows ==
  ASSUME NEW S, NEW R, S \subseteq R, R \subseteq Records, NEW M, NEW f
  PROVE  Size(S, M, f) <= Size(R, M, f)
  <1> DEFINE T == IF f THEN S \cap M ELSE S
             U == IF f THEN R \cap M ELSE R
  <1>1. T \subseteq U /\ U \subseteq 1..MaxRecords
    BY DEF Records
  <1> HIDE DEF T, U
  <1>2. IsFiniteSet(1..MaxRecords)
    BY FS_Interval, BoundsAssumption
  <1>3. IsFiniteSet(U)
    BY <1>1, <1>2, FS_Subset
  <1>4. Cardinality(T) <= Cardinality(U)
    BY <1>1, <1>3, FS_Subset
  <1> QED
    BY <1>4 DEF Size, T, U

\* The last load, before a step and after it.
LEMMA SentIs ==
  ASSUME NEW n \in 0..MaxLoads
  PROVE  /\ (\A l \in Loads : loads[l].step # "none" <=> l <= n) => Sent = n
         /\ (\A l \in Loads : loads'[l].step # "none" <=> l <= n) => Sent' = n
  <1>1. \A slots : (\A l \in 1..MaxLoads : slots[l].step # "none" <=> l <= n)
                   => Cardinality({l \in 1..MaxLoads : slots[l].step # "none"}) = n
    BY SlotsUsed, BoundsAssumption
  <1> QED
    BY <1>1 DEF Sent, Loads

\* load() takes the slot after the last one used.
LEMMA LoadIsNext ==
  ASSUME LoadsTyped, LoadsInOrder, TableTyped, shown' = shown,
         NEW p \in 1..MaxRecords, NEW k \in PageSizes, NEW f \in BOOLEAN, Load(p, k, f)
  PROVE  /\ LoadsTyped' /\ LoadsInOrder'
         /\ Sent + 1 \in Loads /\ Sent' = Sent + 1 /\ loads'[Sent + 1] = LoadOf(p, k, f)
         /\ \A l \in Loads : l # Sent + 1 => loads'[l] = loads[l]
  <1> DEFINE n == Sent
  <1>1. n < MaxLoads /\ loads' = [loads EXCEPT ![n + 1] = LoadOf(p, k, f)] /\ loading' = TRUE
    BY DEF Load
  <1>2. n \in 1..MaxLoads /\ shown <= n /\ shown \in 0..MaxLoads
        /\ \A l \in Loads : loads[l].step # "none" <=> l <= n
    BY DEF LoadsInOrder, TableTyped
  <1> HIDE DEF n
  <1>3. n + 1 \in Loads /\ n + 1 \in 0..MaxLoads /\ n + 1 \in 1..MaxLoads /\ shown <= n + 1
    BY <1>1, <1>2, BoundsAssumption DEF Loads
  <1>4. DOMAIN loads = Loads /\ \A l \in Loads : IsLoad(loads[l])
    BY DEF LoadsTyped
  <1>5. /\ loads' = [l \in Loads |-> loads'[l]]
        /\ loads'[n + 1] = LoadOf(p, k, f)
        /\ \A l \in Loads : l # n + 1 => loads'[l] = loads[l]
    BY <1>1, <1>3, <1>4
  <1>6. IsLoad(LoadOf(p, k, f)) /\ LoadOf(p, k, f).step = "sent"
    BY DEF IsLoad, LoadOf
  <1>7. \A l \in Loads : loads'[l].step # "none" <=> l <= n + 1
    BY <1>2, <1>3, <1>5, <1>6 DEF Loads
  <1>8. Sent' = n + 1
    BY <1>3, <1>7, SentIs
  <1>9. \A l \in Loads : IsLoad(loads'[l])
    BY <1>4, <1>5, <1>6
  <1>10. LoadsTyped'
    BY <1>1, <1>5, <1>9 DEF LoadsTyped, IsLoad, IsRows
  <1>11. LoadsInOrder'
    BY <1>3, <1>7, <1>8 DEF LoadsInOrder
  <1> QED
    BY <1>3, <1>5, <1>8, <1>10, <1>11 DEF n

\* After a load what is known of the load before does not matter.
LEMMA LoadForThePage ==
  ASSUME ListInv, Load(page', pageSize', filtered'), PagingTyped',
         UNCHANGED <<server, table>>,
         ~astray' /\ ~narrowed => PageExists(page', pageSize', Size(present, matching, filtered'))
  PROVE  LoadsTyped' /\ LoadsInOrder' /\ LastLoadHasAcked' /\ CountsHold' /\ LastLoadIsForThePage'
  <1>0. LoadsTyped /\ LoadsInOrder /\ TableTyped /\ CountsHold
    BY DEF ListInv
  <1>1. /\ present' = present /\ matching' = matching /\ version' = version /\ narrowed' = narrowed
        /\ rows' = rows /\ totalItems' = totalItems /\ shown' = shown /\ counted' = counted
    BY DEF server, table
  <1>2. page' \in 1..MaxRecords /\ pageSize' \in PageSizes /\ filtered' \in BOOLEAN
    BY DEF PagingTyped
  <1>3. /\ LoadsTyped' /\ LoadsInOrder'
        /\ Sent + 1 \in Loads /\ Sent' = Sent + 1 /\ loads'[Sent + 1] = LoadOf(page', pageSize', filtered')
        /\ \A l \in Loads : l # Sent + 1 => loads'[l] = loads[l]
    BY <1>0, <1>1, <1>2, LoadIsNext
  <1>4. /\ loads'[Sent'].step = "sent" /\ loads'[Sent'].page = page'
        /\ loads'[Sent'].size = pageSize' /\ loads'[Sent'].filtered = filtered'
    BY <1>3 DEF LoadOf
  <1>5. shown' # Sent'
    BY <1>0, <1>1, <1>3 DEF LoadsInOrder, TableTyped
  <1>6. LastLoadHasAcked' /\ LastLoadIsForThePage'
    BY <1>4, <1>5 DEF LastLoadHasAcked, LastLoadIsForThePage
  <1>7. \A l \in Loads : loads'[l].step \in {"counted", "read"} => loads'[l] = loads[l]
    BY <1>3, <1>4
  <1>8. CountsHold'
    BY <1>0, <1>1, <1>7 DEF CountsHold
  <1> QED
    BY <1>3, <1>6, <1>8

\* A load that is answered, by the backend or to the browser, stays in its slot.
LEMMA LoadMoves ==
  ASSUME LoadsTyped, LoadsInOrder, NEW l \in Loads, loads[l].step # "none",
         NEW q, IsLoad(q), q.step # "none", loads' = [loads EXCEPT ![l] = q],
         shown' \in {shown, l}, loading' \in BOOLEAN
  PROVE  /\ LoadsTyped' /\ LoadsInOrder' /\ Sent' = Sent /\ Sent \in Loads /\ l <= Sent
         /\ loads'[l] = q /\ \A m \in Loads : m # l => loads'[m] = loads[m]
  <1> DEFINE n == Sent
  <1>1. n \in 1..MaxLoads /\ shown <= n /\ \A m \in Loads : loads[m].step # "none" <=> m <= n
    BY DEF LoadsInOrder
  <1> HIDE DEF n
  <1>2. DOMAIN loads = Loads /\ \A m \in Loads : IsLoad(loads[m])
    BY DEF LoadsTyped
  <1>3. /\ loads' = [m \in Loads |-> loads'[m]]
        /\ loads'[l] = q
        /\ \A m \in Loads : m # l => loads'[m] = loads[m]
    BY <1>2
  <1>4. \A m \in Loads : loads'[m].step # "none" <=> m <= n
    BY <1>1, <1>3
  <1>5. l <= n /\ n \in 0..MaxLoads /\ n \in Loads
    BY <1>1, BoundsAssumption DEF Loads
  <1>6. Sent' = n
    BY <1>4, <1>5, SentIs
  <1>7. LoadsInOrder'
    BY <1>1, <1>4, <1>5, <1>6 DEF LoadsInOrder
  <1>8. \A m \in Loads : IsLoad(loads'[m])
    BY <1>2, <1>3
  <1>9. LoadsTyped'
    BY <1>3, <1>8 DEF LoadsTyped, IsLoad, IsRows
  <1> QED
    BY <1>3, <1>5, <1>6, <1>7, <1>9 DEF n

\* The two statements of a load.
LEMMA BackendLoadKeepsInv ==
  ASSUME ListInv, NEW l \in Loads, CountRows(l) \/ ReadPage(l)
  PROVE  ListInv'
  <1>0. /\ ServerTyped /\ PagingTyped /\ TableTyped /\ LoadsTyped /\ DialogTyped /\ SavesTyped
        /\ screen \in Screens /\ LoadsInOrder /\ VersionsAgree /\ LastLoadHasAcked
        /\ CountsHold /\ LastLoadIsForThePage
    BY DEF ListInv
  <1>1. /\ present' = present /\ matching' = matching /\ version' = version /\ narrowed' = narrowed
        /\ rows' = rows /\ totalItems' = totalItems /\ shown' = shown /\ counted' = counted
        /\ screen' = screen /\ page' = page /\ pageSize' = pageSize /\ filtered' = filtered
        /\ astray' = astray /\ loading' = loading
        /\ dialog' = dialog /\ saves' = saves /\ acked' = acked
    BY DEF CountRows, ReadPage, server, table, paging
  <1>2. ServerTyped' /\ PagingTyped' /\ TableTyped' /\ DialogTyped' /\ SavesTyped' /\ screen' \in Screens
        /\ VersionsAgree'
    BY Zenon, <1>0, <1>1 DEF ServerTyped, PagingTyped, TableTyped, DialogTyped, SavesTyped, VersionsAgree, Ended
  <1>3. IsLoad(loads[l]) /\ present \subseteq Records /\ loading' \in BOOLEAN
    BY <1>0, <1>1 DEF LoadsTyped, ServerTyped
  <1>4. CASE CountRows(l)
    <2> DEFINE q == [step |-> "counted", page |-> loads[l].page, size |-> loads[l].size,
                     filtered |-> loads[l].filtered, total |-> Cardinality(Matching(loads[l].filtered))]
    <2>1. /\ loads[l].step = "sent" /\ DOMAIN loads = Loads
          /\ loads' = [loads EXCEPT ![l] = [step |-> "counted", page |-> @.page, size |-> @.size,
                 filtered |-> @.filtered, total |-> Cardinality(Matching(@.filtered))]]
      BY <1>0, <1>4 DEF CountRows, LoadsTyped
    <2>2. loads' = [loads EXCEPT ![l] = q]
      BY <2>1
    <2>3. loads[l].page \in 1..MaxRecords /\ loads[l].size \in PageSizes /\ loads[l].filtered \in BOOLEAN
      BY <1>3, <2>1 DEF IsLoad, NoLoad
    <2>4. q.total = Size(present, matching, loads[l].filtered)
      BY DEF Matching, Size
    <2>5. q.total \in 0..MaxRecords
      BY <1>3, <2>4, SizeIsANumber
    <2>6. /\ q.step = "counted" /\ q.page = loads[l].page /\ q.size = loads[l].size
          /\ q.filtered = loads[l].filtered
      OBVIOUS
    <2> HIDE DEF q
    <2>7. IsLoad(q)
      BY <2>3, <2>5, <2>6 DEF IsLoad
    <2>8. /\ LoadsTyped' /\ LoadsInOrder' /\ Sent' = Sent /\ Sent \in Loads /\ l <= Sent
          /\ loads'[l] = q /\ \A m \in Loads : m # l => loads'[m] = loads[m]
      BY <1>0, <1>1, <1>3, <2>1, <2>2, <2>6, <2>7, LoadMoves
    <2>9. LastLoadHasAcked'
      BY <1>0, <1>1, <2>6, <2>8 DEF LastLoadHasAcked
    <2>10. CountsHold'
      <3>1. q.total <= Size(present, matching, q.filtered)
        <4>1. Size(present, matching, loads[l].filtered) \in Nat
          BY <1>3, SizeIsANumber
        <4> QED
          BY <4>1, <2>4, <2>6
      <3> QED
        BY <1>0, <1>1, <2>8, <3>1 DEF CountsHold
    <2>11. LastLoadIsForThePage'
      BY <1>0, <1>1, <2>1, <2>6, <2>8 DEF LastLoadIsForThePage
    <2> QED
      BY <1>2, <2>8, <2>9, <2>10, <2>11 DEF ListInv
  <1>5. CASE ReadPage(l)
    <2> DEFINE S == Matching(loads[l].filtered)
               read == [i \in PageOf(S, loads[l].page, loads[l].size) |-> version[i]]
               q == [step |-> "read", filtered |-> loads[l].filtered, total |-> loads[l].total, rows |-> read]
    <2>1. loads[l].step = "counted" /\ loads' = [loads EXCEPT ![l] = q]
      BY <1>5 DEF ReadPage
    <2>2. /\ loads[l].page \in 1..MaxRecords /\ loads[l].size \in PageSizes /\ loads[l].filtered \in BOOLEAN
          /\ loads[l].total \in 0..MaxRecords
      BY <1>3, <2>1 DEF IsLoad, NoLoad
    <2>3. S \subseteq Records /\ Cardinality(S) = Size(present, matching, loads[l].filtered)
      BY <1>3 DEF Matching, Size
    <2>4. PageOf(S, loads[l].page, loads[l].size) \subseteq Records
      BY <2>3 DEF PageOf
    <2>5. \A i \in Records : version[i] \in 0..MaxSaves /\ version[i] >= acked[i]
      <3>1. Ended \subseteq 1..MaxSaves
        BY DEF Ended, Saves
      <3>2. IsFiniteSet(1..MaxSaves) /\ Cardinality(1..MaxSaves) = MaxSaves
        <4>1. Cardinality(1..MaxSaves) = IF 1 > MaxSaves THEN 0 ELSE MaxSaves - 1 + 1
          BY FS_Interval, BoundsAssumption
        <4>2. IsFiniteSet(1..MaxSaves)
          BY FS_Interval, BoundsAssumption
        <4> QED
          BY <4>1, <4>2, BoundsAssumption
      <3>3. Cardinality(Ended) <= MaxSaves /\ IsFiniteSet(Ended)
        BY <3>1, <3>2, FS_Subset
      <3>4. Cardinality(Ended) \in Nat
        BY <3>3, FS_CardinalityType
      <3> QED
        BY <1>0, <3>3, <3>4, BoundsAssumption DEF VersionsAgree, ServerTyped
    <2>6. IsRows(read) /\ \A i \in DOMAIN read : read[i] >= acked[i]
      <3>1. DOMAIN read = PageOf(S, loads[l].page, loads[l].size)
        OBVIOUS
      <3>2. \A i \in DOMAIN read : read[i] = version[i]
        OBVIOUS
      <3> HIDE DEF read
      <3> QED
        BY <2>4, <2>5, <3>1, <3>2 DEF IsRows
    <2>7. /\ q.step = "read" /\ q.filtered = loads[l].filtered /\ q.total = loads[l].total /\ q.rows = read
          /\ DOMAIN read = PageOf(S, loads[l].page, loads[l].size)
      OBVIOUS
    <2> HIDE DEF q, read, S
    <2>8. IsLoad(q)
      BY <2>2, <2>6, <2>7 DEF IsLoad
    <2>9. /\ LoadsTyped' /\ LoadsInOrder' /\ Sent' = Sent /\ Sent \in Loads /\ l <= Sent
          /\ loads'[l] = q /\ \A m \in Loads : m # l => loads'[m] = loads[m]
      BY <1>0, <1>1, <1>3, <2>1, <2>7, <2>8, LoadMoves
    <2>10. LastLoadHasAcked'
      BY <1>0, <1>1, <2>6, <2>7, <2>9 DEF LastLoadHasAcked
    <2>11. CountsHold'
      BY <1>0, <1>1, <2>1, <2>7, <2>9 DEF CountsHold
    <2>12. LastLoadIsForThePage'
      <3>1. ASSUME ~astray, ~narrowed, l = Sent, q.total > 0
            PROVE  DOMAIN read # {}
        <4>1. /\ loads[l].page = page /\ loads[l].size = pageSize /\ loads[l].filtered = filtered
          BY <1>0, <2>1, <3>1 DEF LastLoadIsForThePage
        <4>2. PageExists(loads[l].page, loads[l].size, Cardinality(S))
          BY <1>0, <2>3, <3>1, <4>1 DEF CountsHold
        <4>3. Cardinality(S) > 0
          <5>1. loads[l].total <= Cardinality(S)
            BY <1>0, <2>1, <2>3, <3>1 DEF CountsHold
          <5>2. Cardinality(S) \in Nat
            BY <1>3, <2>3, SizeIsANumber
          <5> QED
            BY <2>2, <2>7, <3>1, <5>1, <5>2
        <4>4. loads[l].page \in Nat \ {0} /\ loads[l].size \in Nat \ {0}
          <5>1. loads[l].page \in Nat \ {0}
            BY <2>2, BoundsAssumption
          <5>2. loads[l].size \in Nat \ {0}
            BY <2>2, SizesAssumption
          <5> QED
            BY <5>1, <5>2
        <4> QED
          BY <2>3, <2>7, <4>2, <4>3, <4>4, PageHasRows DEF PageExists
      <3> QED
        BY <1>0, <1>1, <2>7, <2>9, <3>1 DEF LastLoadIsForThePage
    <2> QED
      BY <1>2, <2>9, <2>10, <2>11, <2>12 DEF ListInv
  <1> QED
    BY <1>4, <1>5

\* Ends of saves are counted, and commits are remembered.
LEMMA VersionsStay ==
  ASSUME VersionsAgree, ServerTyped, version' = version, acked' = acked,
         \A t \in Saves : /\ saves[t].step \notin {"none", "sent"} => saves'[t].step \notin {"none", "sent"}
                          /\ saves'[t].step = "committed" =>
                               /\ saves[t].step = "committed"
                               /\ saves'[t].id = saves[t].id /\ saves'[t].version = saves[t].version
  PROVE  VersionsAgree'
  <1>1. Ended \subseteq Ended' /\ Ended' \subseteq 1..MaxSaves
    BY DEF Ended, Saves
  <1>2. IsFiniteSet(Ended') /\ IsFiniteSet(Ended)
    <2>1. IsFiniteSet(1..MaxSaves)
      BY FS_Interval, BoundsAssumption
    <2>2. IsFiniteSet(Ended')
      BY <1>1, <2>1, FS_Subset
    <2> QED
      BY <1>1, <2>2, FS_Subset
  <1>3. Cardinality(Ended) <= Cardinality(Ended') /\ Cardinality(Ended) \in Nat /\ Cardinality(Ended') \in Nat
    BY <1>1, <1>2, FS_Subset, FS_CardinalityType
  <1>4. \A i \in Records : version[i] \in Nat /\ version[i] <= Cardinality(Ended)
    BY DEF VersionsAgree, ServerTyped
  <1>5. \A i \in Records : version[i] <= Cardinality(Ended')
    BY <1>3, <1>4
  <1> QED
    BY <1>5 DEF VersionsAgree

\* Dialogs and requests alone do not disturb the table or its loads.
LEMMA DialogsKeepTheTable ==
  ASSUME ListInv, UNCHANGED <<server, screen, paging, loading, table, loads, acked>>,
         DialogTyped', SavesTyped',
         \A t \in Saves : /\ saves[t].step \notin {"none", "sent"} => saves'[t].step \notin {"none", "sent"}
                          /\ saves'[t].step = "committed" =>
                               /\ saves[t].step = "committed"
                               /\ saves'[t].id = saves[t].id /\ saves'[t].version = saves[t].version
  PROVE  ListInv'
  <1>0. /\ ServerTyped /\ PagingTyped /\ TableTyped /\ LoadsTyped
        /\ screen \in Screens /\ LoadsInOrder /\ VersionsAgree /\ LastLoadHasAcked
        /\ CountsHold /\ LastLoadIsForThePage
    BY DEF ListInv
  <1>1. /\ present' = present /\ matching' = matching /\ version' = version /\ narrowed' = narrowed
        /\ rows' = rows /\ totalItems' = totalItems /\ shown' = shown /\ counted' = counted
        /\ screen' = screen /\ page' = page /\ pageSize' = pageSize /\ filtered' = filtered
        /\ astray' = astray /\ loading' = loading /\ loads' = loads /\ acked' = acked
    BY DEF server, table, paging
  <1>2. ServerTyped' /\ PagingTyped' /\ TableTyped' /\ LoadsTyped' /\ screen' \in Screens /\ LoadsInOrder'
        /\ LastLoadHasAcked' /\ CountsHold' /\ LastLoadIsForThePage'
    <2>1. ServerTyped' /\ PagingTyped' /\ TableTyped' /\ LoadsTyped' /\ screen' \in Screens
      BY Zenon, <1>0, <1>1 DEF ServerTyped, PagingTyped, TableTyped, LoadsTyped
    <2>2. LoadsInOrder' /\ LastLoadHasAcked'
      BY Zenon, <1>0, <1>1 DEF LoadsInOrder, Sent, LastLoadHasAcked
    <2>3. CountsHold' /\ LastLoadIsForThePage'
      BY Zenon, <1>0, <1>1 DEF CountsHold, LastLoadIsForThePage, Sent
    <2> QED
      BY <2>1, <2>2, <2>3
  <1>3. VersionsAgree'
    BY <1>0, <1>1, VersionsStay
  <1> QED
    BY <1>2, <1>3 DEF ListInv

\* A request takes a slot of its own.
LEMMA SendTakesASlot ==
  ASSUME SavesTyped, NEW i \in 0..MaxRecords, NEW closes \in BOOLEAN, NEW reloads \in BOOLEAN,
         SendSave(i, closes, reloads)
  PROVE  /\ SavesTyped'
         /\ \A t \in Saves : /\ saves[t].step # "none" => saves'[t] = saves[t]
                             /\ saves'[t].step = "committed" => saves'[t] = saves[t]
  <1> DEFINE c == [step |-> "sent", id |-> i, closes |-> closes, reloads |-> reloads, heard |-> TRUE,
                   version |-> 0]
  <1>1. PICK s \in Saves : saves[s].step = "none" /\ saves' = [saves EXCEPT ![s] = c]
    BY DEF SendSave
  <1>2. IsSave(c) /\ c.step = "sent"
    <2>1. c \in Request /\ c.step = "sent"
      BY DEF Request
    <2> HIDE DEF c
    <2> QED
      BY <2>1 DEF IsSave
  <1> HIDE DEF c
  <1>3. DOMAIN saves = Saves /\ \A t \in Saves : IsSave(saves[t])
    BY DEF SavesTyped
  <1>4. /\ saves' = [t \in Saves |-> saves'[t]] /\ saves'[s] = c
        /\ \A t \in Saves : t # s => saves'[t] = saves[t]
    BY <1>1, <1>3
  <1>5. \A t \in Saves : IsSave(saves'[t])
    BY <1>2, <1>3, <1>4
  <1>6. SavesTyped'
    BY <1>4, <1>5 DEF SavesTyped, IsSave
  <1> QED
    BY <1>1, <1>2, <1>4, <1>6

\* What a request that is under way is.
LEMMA SaveUnderWay ==
  ASSUME SavesTyped, NEW s \in Saves, saves[s].step \in {"sent", "committed"}
  PROVE  saves[s] \in Request
  <1>1. IsSave(saves[s])
    BY DEF SavesTyped
  <1> QED
    BY <1>1 DEF IsSave, NoSave

LEMMA OpeningKeepsInv ==
  ASSUME ListInv, OpenCreate \/ \E kind \in {"edit", "confirm"}, i \in Records : OpenOnRow(kind, i)
  PROVE  ListInv'
  <1>1. UNCHANGED <<server, screen, paging, loading, table, loads, acked>> /\ saves' = saves
    BY DEF OpenCreate, OpenOnRow
  <1>2. PICK kind \in {"create", "edit", "confirm"}, i \in 0..MaxRecords :
          dialog' = [kind |-> kind, id |-> i, saving |-> FALSE]
    <2>1. \A i \in Records : i \in 0..MaxRecords
      BY BoundsAssumption DEF Records
    <2>2. 0 \in 0..MaxRecords
      BY BoundsAssumption
    <2>3. ASSUME NEW kind \in {"edit", "confirm"}, NEW i \in Records, OpenOnRow(kind, i)
          PROVE  dialog' = [kind |-> kind, id |-> i, saving |-> FALSE]
      BY <2>3 DEF OpenOnRow
    <2> QED
      BY <2>1, <2>2, <2>3 DEF OpenCreate
  <1>3. DialogTyped'
    BY <1>2 DEF DialogTyped
  <1>4. SavesTyped'
    BY Zenon, <1>1 DEF ListInv, SavesTyped
  <1> QED
    BY <1>1, <1>3, <1>4, DialogsKeepTheTable

LEMMA DismissKeepsInv == ListInv /\ Dismiss => ListInv'
  <1> SUFFICES ASSUME ListInv, Dismiss
               PROVE  ListInv'
    OBVIOUS
  <1>0. SavesTyped
    BY DEF ListInv
  <1>1. /\ UNCHANGED <<server, screen, paging, loading, table, loads, acked>> /\ dialog' = NoDialog
        /\ saves' = [s \in Saves |-> IF saves[s].step \in {"sent", "committed"}
                                     THEN [saves[s] EXCEPT !.closes = FALSE] ELSE saves[s]]
    BY DEF Dismiss
  <1>2. ASSUME NEW s \in Saves, saves[s].step \in {"sent", "committed"}
        PROVE  /\ IsSave(saves'[s]) /\ saves'[s].step = saves[s].step /\ saves'[s].id = saves[s].id
               /\ saves'[s].version = saves[s].version
    <2>1. saves'[s] = [saves[s] EXCEPT !.closes = FALSE]
      BY <1>1, <1>2
    <2>2. saves[s] \in Request
      BY <1>0, <1>2, SaveUnderWay
    <2>3. saves'[s] \in Request /\ saves'[s].step = saves[s].step /\ saves'[s].id = saves[s].id
          /\ saves'[s].version = saves[s].version
      BY <2>1, <2>2 DEF Request
    <2> QED
      BY <2>3 DEF IsSave
  <1>3. \A s \in Saves : saves[s].step \notin {"sent", "committed"} => saves'[s] = saves[s]
    BY <1>1
  <1>4. SavesTyped'
    <2>1. \A s \in Saves : IsSave(saves'[s])
      BY <1>0, <1>2, <1>3 DEF SavesTyped
    <2>2. saves' = [s \in Saves |-> saves'[s]]
      BY <1>1
    <2> QED
      BY <2>1, <2>2 DEF SavesTyped, IsSave
  <1>5. DialogTyped'
    BY <1>1 DEF DialogTyped
  <1> QED
    BY <1>1, <1>2, <1>3, <1>4, <1>5, DialogsKeepTheTable

LEMMA SendingKeepsInv ==
  ASSUME ListInv, SubmitDialog \/ Confirm \/ \E r \in Records : ChangeRow(r)
  PROVE  ListInv'
  <1>0. SavesTyped /\ DialogTyped
    BY DEF ListInv
  <1>1. UNCHANGED <<server, screen, paging, loading, table, loads, acked>>
    BY DEF SubmitDialog, Confirm, ChangeRow
  <1>2. PICK i \in 0..MaxRecords, closes \in BOOLEAN, reloads \in BOOLEAN : SendSave(i, closes, reloads)
    <2>1. \A r \in Records : r \in 0..MaxRecords
      BY BoundsAssumption DEF Records
    <2>2. dialog.kind \in {"create", "edit", "confirm"} => dialog.id \in 0..MaxRecords
      BY <1>0 DEF DialogTyped, NoDialog
    <2>3. CASE SubmitDialog
      BY <2>2, <2>3 DEF SubmitDialog
    <2>4. CASE Confirm
      BY <2>2, <2>4 DEF Confirm
    <2>5. CASE \E r \in Records : ChangeRow(r)
      BY <2>1, <2>5 DEF ChangeRow
    <2> QED
      BY <2>3, <2>4, <2>5
  <1>3. /\ SavesTyped'
        /\ \A t \in Saves : /\ saves[t].step # "none" => saves'[t] = saves[t]
                            /\ saves'[t].step = "committed" => saves'[t] = saves[t]
    BY <1>0, <1>2, SendTakesASlot
  <1>4. DialogTyped'
    <2>1. CASE SubmitDialog
      <3>1. /\ dialog.kind \in {"create", "edit"}
            /\ dialog' = [dialog EXCEPT !.saving = TRUE]
        BY <2>1 DEF SubmitDialog
      <3>2. /\ dialog.id \in 0..MaxRecords
            /\ dialog = [kind |-> dialog.kind, id |-> dialog.id, saving |-> dialog.saving]
        BY <1>0, <3>1 DEF DialogTyped, NoDialog
      <3>3. dialog' = [kind |-> dialog.kind, id |-> dialog.id, saving |-> TRUE]
        BY <3>1, <3>2
      <3> QED
        BY <3>1, <3>2, <3>3 DEF DialogTyped
    <2>2. CASE Confirm
      BY <2>2 DEF Confirm, DialogTyped
    <2>3. CASE \E r \in Records : ChangeRow(r)
      <3>1. dialog' = dialog
        BY <2>3 DEF ChangeRow
      <3> QED
        BY Zenon, <1>0, <3>1 DEF DialogTyped
    <2> QED
      BY <2>1, <2>2, <2>3
  <1> QED
    BY <1>1, <1>3, <1>4, DialogsKeepTheTable

LEMMA SaveErrorKeepsInv ==
  ASSUME ListInv, NEW s \in Saves, ReceiveSaveError(s)
  PROVE  ListInv'
  <1>0. SavesTyped /\ DialogTyped
    BY DEF ListInv
  <1>1. /\ saves[s].step \in {"sent", "committed"}
        /\ dialog' = IF saves[s].closes THEN [dialog EXCEPT !.saving = FALSE] ELSE dialog
        /\ \/ saves' = [saves EXCEPT ![s] = [step |-> "done"]]
           \/ /\ saves[s].step = "sent"
              /\ saves' = [saves EXCEPT ![s].heard = FALSE, ![s].closes = FALSE]
        /\ UNCHANGED <<server, screen, paging, loading, table, loads, acked>>
    BY DEF ReceiveSaveError
  <1>2. DOMAIN saves = Saves /\ \A t \in Saves : IsSave(saves[t])
    BY <1>0 DEF SavesTyped
  <1>3. saves' = [t \in Saves |-> saves'[t]] /\ \A t \in Saves : t # s => saves'[t] = saves[t]
    BY <1>1, <1>2
  <1>4. /\ IsSave(saves'[s]) /\ saves'[s].step # "committed"
        /\ saves[s].step = "committed" => saves'[s].step \notin {"none", "sent"}
    <2>1. CASE saves' = [saves EXCEPT ![s] = [step |-> "done"]]
      <3>1. saves'[s] = [step |-> "done"]
        BY <1>2, <2>1
      <3> QED
        BY <3>1 DEF IsSave
    <2>2. CASE saves[s].step = "sent" /\ saves' = [saves EXCEPT ![s].heard = FALSE, ![s].closes = FALSE]
      <3>1. saves[s] \in Request
        BY <1>0, <1>1, SaveUnderWay
      <3>2. saves'[s] = [saves[s] EXCEPT !.heard = FALSE, !.closes = FALSE]
        BY <1>2, <2>2
      <3>3. saves'[s] \in Request /\ saves'[s].step = "sent"
        <4>1. ASSUME NEW c \in Request
              PROVE  [c EXCEPT !.heard = FALSE, !.closes = FALSE] \in Request
          <5>1. [c EXCEPT !.heard = FALSE] \in Request
            BY DEF Request
          <5>2. \A d \in Request : [d EXCEPT !.closes = FALSE] \in Request
            BY DEF Request
          <5> QED
            BY <5>1, <5>2
        <4>2. saves'[s].step = saves[s].step
          BY <3>1, <3>2 DEF Request
        <4> QED
          BY <2>2, <3>1, <3>2, <4>1, <4>2
      <3> QED
        BY <2>2, <3>3 DEF IsSave
    <2> QED
      BY <1>1, <2>1, <2>2
  <1>5. SavesTyped'
    <2>1. \A t \in Saves : IsSave(saves'[t])
      BY <1>2, <1>3, <1>4
    <2> QED
      BY <1>3, <2>1 DEF SavesTyped, IsSave
  <1>6. DialogTyped'
    <2>1. CASE dialog = NoDialog
      <3>1. dialog'.kind = "none" /\ dialog' = NoDialog
        BY <1>1, <2>1 DEF NoDialog
      <3> QED
        BY <3>1 DEF DialogTyped
    <2>2. CASE dialog # NoDialog
      BY <1>0, <1>1, <2>2 DEF DialogTyped
    <2> QED
      BY <2>1, <2>2
  <1> QED
    BY <1>1, <1>3, <1>4, <1>5, <1>6, DialogsKeepTheTable

\* The table takes the rows of an answer, or keeps its own.
LEMMA AnswerToLoadKeepsInv ==
  ASSUME ListInv, NEW l \in Loads, ReceivePage(l) \/ ReceiveLoadError(l)
  PROVE  ListInv'
  <1>0. /\ ServerTyped /\ PagingTyped /\ TableTyped /\ LoadsTyped /\ DialogTyped /\ SavesTyped
        /\ screen \in Screens /\ LoadsInOrder /\ VersionsAgree /\ LastLoadHasAcked
        /\ CountsHold /\ LastLoadIsForThePage
    BY DEF ListInv
  <1>1. /\ present' = present /\ matching' = matching /\ version' = version /\ narrowed' = narrowed
        /\ screen' = screen /\ page' = page /\ pageSize' = pageSize /\ filtered' = filtered
        /\ astray' = astray /\ loading' = FALSE
        /\ dialog' = dialog /\ saves' = saves /\ acked' = acked
        /\ loads' = [loads EXCEPT ![l] = [step |-> "done"]] /\ loads[l].step # "none"
    BY DEF ReceivePage, ReceiveLoadError, InFlight, server, paging
  <1>2. ServerTyped' /\ PagingTyped' /\ DialogTyped' /\ SavesTyped' /\ screen' \in Screens /\ VersionsAgree'
    BY Zenon, <1>0, <1>1 DEF ServerTyped, PagingTyped, DialogTyped, SavesTyped, VersionsAgree, Ended
  <1>3. \/ /\ rows' = rows /\ totalItems' = totalItems /\ shown' = shown /\ counted' = counted
        \/ /\ loads[l].step = "read" /\ rows' = loads[l].rows /\ totalItems' = loads[l].total
           /\ shown' = l /\ counted' = loads[l].filtered
    BY DEF ReceivePage, ReceiveLoadError, table
  <1>4. loads[l].step = "read" => /\ loads[l].filtered \in BOOLEAN /\ loads[l].total \in 0..MaxRecords
                                  /\ IsRows(loads[l].rows)
    <2>1. IsLoad(loads[l])
      BY <1>0 DEF LoadsTyped
    <2> QED
      BY <2>1 DEF IsLoad, NoLoad
  <1>5. /\ LoadsTyped' /\ LoadsInOrder' /\ Sent' = Sent /\ Sent \in Loads /\ l <= Sent
        /\ loads'[l] = [step |-> "done"] /\ \A m \in Loads : m # l => loads'[m] = loads[m]
    <2> DEFINE q == [step |-> "done"]
    <2>1. IsLoad(q) /\ q.step # "none"
      BY DEF IsLoad
    <2>2. shown' \in {shown, l} /\ loading' \in BOOLEAN
      BY <1>1, <1>3
    <2>3. loads' = [loads EXCEPT ![l] = q] /\ loads[l].step # "none"
      BY <1>1
    <2> HIDE DEF q
    <2>4. /\ LoadsTyped' /\ LoadsInOrder' /\ Sent' = Sent /\ Sent \in Loads /\ l <= Sent
          /\ loads'[l] = q /\ \A m \in Loads : m # l => loads'[m] = loads[m]
      BY <1>0, <2>1, <2>2, <2>3, LoadMoves
    <2> QED
      BY <2>4 DEF q
  <1>6. TableTyped'
    <2>1. l \in 0..MaxLoads
      BY BoundsAssumption DEF Loads
    <2>2. IsRows(rows') /\ totalItems' \in 0..MaxRecords /\ counted' \in BOOLEAN /\ shown' \in 0..MaxLoads
      BY <1>0, <1>3, <1>4, <2>1 DEF TableTyped
    <2> QED
      BY <2>2 DEF TableTyped, IsRows
  <1>7. loads'[l].step = "done"
    BY <1>5
  <1>8. LastLoadHasAcked'
    BY <1>0, <1>1, <1>3, <1>5, <1>7 DEF LastLoadHasAcked
  <1>9. CountsHold'
    BY <1>0, <1>1, <1>3, <1>5, <1>7 DEF CountsHold
  <1>10. LastLoadIsForThePage'
    BY <1>0, <1>1, <1>3, <1>5, <1>7 DEF LastLoadIsForThePage
  <1> QED
    BY <1>2, <1>5, <1>6, <1>8, <1>9, <1>10 DEF ListInv

\* What was counted is still there after a new record, or after a change that keeps the filtered list.
LEMMA CountsGrow ==
  ASSUME CountsHold, ServerTyped, PagingTyped, TableTyped, LoadsTyped,
         present \subseteq present', present' \subseteq Records,
         ~narrowed' => ~narrowed /\ matching' = matching,
         UNCHANGED <<paging, table, loads>>
  PROVE  CountsHold'
  <1>1. /\ page' = page /\ pageSize' = pageSize /\ filtered' = filtered /\ astray' = astray
        /\ totalItems' = totalItems /\ counted' = counted /\ loads' = loads
    BY DEF paging, table
  <1>2. SUFFICES ASSUME ~narrowed, matching' = matching
                 PROVE  /\ totalItems <= Size(present', matching, counted)
                        /\ \A l \in Loads : loads[l].step \in {"counted", "read"} =>
                             loads[l].total <= Size(present', matching, loads[l].filtered)
                        /\ ~astray => PageExists(page, pageSize, Size(present', matching, filtered))
    BY <1>1 DEF CountsHold
  <1>3. present \subseteq Records
    BY DEF ServerTyped
  <1>4. \A f : /\ Size(present, matching, f) <= Size(present', matching, f)
               /\ Size(present, matching, f) \in 0..MaxRecords /\ Size(present', matching, f) \in 0..MaxRecords
    BY <1>3, SizeGrows, SizeIsANumber
  <1>5. totalItems <= Size(present', matching, counted)
    <2>1. totalItems \in Nat /\ totalItems <= Size(present, matching, counted)
      BY <1>2 DEF CountsHold, TableTyped
    <2> QED
      BY <1>4, <2>1
  <1>6. ASSUME NEW l \in Loads, loads[l].step \in {"counted", "read"}
        PROVE  loads[l].total <= Size(present', matching, loads[l].filtered)
    <2>1. IsLoad(loads[l])
      BY DEF LoadsTyped
    <2>2. loads[l].total \in 0..MaxRecords
      BY <1>6, <2>1 DEF IsLoad, NoLoad
    <2>3. loads[l].total <= Size(present, matching, loads[l].filtered)
      BY <1>2, <1>6 DEF CountsHold
    <2> QED
      BY <1>4, <2>2, <2>3
  <1>7. ~astray => PageExists(page, pageSize, Size(present', matching, filtered))
    <2>1. ~astray => PageExists(page, pageSize, Size(present, matching, filtered))
      BY <1>2 DEF CountsHold
    <2>2. page \in Nat \ {0} /\ pageSize \in Nat
      <3>1. page \in Nat \ {0}
        BY BoundsAssumption DEF PagingTyped
      <3>2. pageSize \in Nat
        BY SizesAssumption DEF PagingTyped
      <3> QED
        BY <3>1, <3>2
    <2>3. (page - 1) * pageSize \in Nat
      BY <2>2
    <2> DEFINE a == (page - 1) * pageSize
    <2>4. \A m, n \in 0..MaxRecords : m <= n /\ a < m => a < n
      BY <2>3
    <2> QED
      BY <1>4, <2>1, <2>4 DEF PageExists
  <1> QED
    BY <1>5, <1>6, <1>7

LEMMA OtherCreatesKeepsInv ==
  ASSUME ListInv, NEW i \in Records, OtherCreates(i)
  PROVE  ListInv'
  <1>0. /\ ServerTyped /\ PagingTyped /\ TableTyped /\ LoadsTyped /\ DialogTyped /\ SavesTyped
        /\ screen \in Screens /\ LoadsInOrder /\ VersionsAgree /\ LastLoadHasAcked
        /\ CountsHold /\ LastLoadIsForThePage
    BY DEF ListInv
  <1>1. /\ matching' = matching /\ version' = version /\ narrowed' = narrowed
        /\ rows' = rows /\ totalItems' = totalItems /\ shown' = shown /\ counted' = counted
        /\ screen' = screen /\ page' = page /\ pageSize' = pageSize /\ filtered' = filtered
        /\ astray' = astray /\ loading' = loading /\ loads' = loads
        /\ dialog' = dialog /\ saves' = saves /\ acked' = acked
        /\ present' = present \cup {i} /\ UNCHANGED <<paging, table, loads>>
    BY DEF OtherCreates, table, paging
  <1>2. PagingTyped' /\ TableTyped' /\ LoadsTyped' /\ DialogTyped' /\ SavesTyped' /\ screen' \in Screens
        /\ VersionsAgree' /\ LoadsInOrder' /\ LastLoadHasAcked' /\ LastLoadIsForThePage'
    <2>1. PagingTyped' /\ TableTyped' /\ LoadsTyped' /\ screen' \in Screens
      BY Zenon, <1>0, <1>1 DEF PagingTyped, TableTyped, LoadsTyped
    <2>2. DialogTyped' /\ SavesTyped' /\ VersionsAgree'
      BY Zenon, <1>0, <1>1 DEF DialogTyped, SavesTyped, VersionsAgree, Ended
    <2>3. LoadsInOrder' /\ LastLoadHasAcked' /\ LastLoadIsForThePage'
      BY Zenon, <1>0, <1>1 DEF LoadsInOrder, Sent, LastLoadHasAcked, LastLoadIsForThePage
    <2> QED
      BY <2>1, <2>2, <2>3
  <1>3. ServerTyped'
    BY <1>0, <1>1 DEF ServerTyped
  <1>4. CountsHold'
    BY <1>0, <1>1, <1>3, CountsGrow DEF ServerTyped
  <1> QED
    BY <1>2, <1>3, <1>4 DEF ListInv

\* A new page, search or filter is loaded.
LEMMA PagingKeepsInv ==
  ASSUME ListInv, \/ \E f \in BOOLEAN : OnSearch(f)
                  \/ ApplyFilters
                  \/ \E p \in 0..MaxRecords, k \in PageSizes : OnPageChange(p, k)
  PROVE  ListInv'
  <1>0. /\ ServerTyped /\ PagingTyped /\ TableTyped /\ DialogTyped /\ SavesTyped
        /\ screen \in Screens /\ VersionsAgree /\ CountsHold
    BY DEF ListInv
  <1>1. /\ UNCHANGED <<server, table>>
        /\ screen' = screen /\ dialog' = dialog /\ saves' = saves /\ acked' = acked
        /\ present' = present /\ matching' = matching /\ version' = version /\ narrowed' = narrowed
        /\ rows' = rows /\ totalItems' = totalItems /\ shown' = shown /\ counted' = counted
        /\ Load(page', pageSize', filtered')
    BY DEF OnSearch, ApplyFilters, OnPageChange, server, table
  <1>2. ServerTyped' /\ TableTyped' /\ DialogTyped' /\ SavesTyped' /\ screen' \in Screens /\ VersionsAgree'
    BY Zenon, <1>0, <1>1 DEF ServerTyped, TableTyped, DialogTyped, SavesTyped, VersionsAgree, Ended
  <1>3. 1 \in 1..MaxRecords
    BY BoundsAssumption
  <1>4. /\ PagingTyped'
        /\ ~astray' /\ ~narrowed => PageExists(page', pageSize', Size(present, matching, filtered'))
    <2>1. CASE (\E f \in BOOLEAN : OnSearch(f)) \/ ApplyFilters
      <3>1. page' = 1 /\ pageSize' = pageSize /\ filtered' \in BOOLEAN /\ astray' \in BOOLEAN
        BY <1>0, <2>1 DEF OnSearch, ApplyFilters, PagingTyped
      <3> QED
        BY <1>0, <1>3, <3>1 DEF PagingTyped, PageExists
    <2>2. CASE \E p \in 0..MaxRecords, k \in PageSizes : OnPageChange(p, k)
      <3>1. PICK p \in 0..MaxRecords, k \in PageSizes : OnPageChange(p, k)
        BY <2>2
      <3>2. /\ Paginate(p, k) /\ page' = p /\ pageSize' = k /\ astray' = (astray \/ counted # filtered)
            /\ filtered' = filtered
        BY <3>1 DEF OnPageChange
      <3>3. page \in Nat \ {0} /\ pageSize \in Nat \ {0} /\ k \in Nat \ {0}
        <4>1. page \in Nat \ {0}
          BY <1>0, BoundsAssumption DEF PagingTyped
        <4>2. pageSize \in Nat \ {0} /\ k \in Nat \ {0}
          BY <1>0, SizesAssumption DEF PagingTyped
        <4> QED
          BY <4>1, <4>2
      <3>4. totalItems \in Nat /\ p \in Nat
        BY <1>0, BoundsAssumption DEF TableTyped
      <3>5. p \in Nat \ {0}
        <4>1. \E n \in Nat : totalItems <= n /\ (page = 1 \/ (page - 1) * pageSize < n)
          <5>1. (page - 1) * pageSize \in Nat
            BY <3>3
          <5> DEFINE n == totalItems + (page - 1) * pageSize + 1
          <5>2. n \in Nat /\ totalItems <= n /\ (page - 1) * pageSize < n
            BY <3>4, <5>1
          <5> HIDE DEF n
          <5> QED
            BY <5>2
        <4> QED
          BY <3>2, <3>3, <3>4, <4>1, PaginatedPageExists
      <3>6. PagingTyped'
        <4>1. p \in 1..MaxRecords
          BY <3>5
        <4>2. astray' \in BOOLEAN
          BY <3>2
        <4> QED
          BY <1>0, <3>2, <4>1, <4>2 DEF PagingTyped
      <3>7. ASSUME ~astray', ~narrowed
            PROVE  PageExists(p, k, Size(present, matching, filtered))
        <4> DEFINE n == Size(present, matching, filtered)
        <4>1. n \in Nat
          <5>1. n \in 0..MaxRecords
            BY <1>0, SizeIsANumber DEF ServerTyped
          <5> QED
            BY <5>1
        <4>2. ~astray /\ counted = filtered
          BY <3>2, <3>7
        <4>3. totalItems <= n
          BY <1>0, <3>7, <4>2 DEF CountsHold
        <4>4. page = 1 \/ (page - 1) * pageSize < n
          BY <1>0, <3>7, <4>2 DEF CountsHold, PageExists
        <4> HIDE DEF n
        <4>5. p = 1 \/ (p - 1) * k < n
          BY <3>2, <3>3, <3>4, <4>1, <4>3, <4>4, PaginatedPageExists
        <4> QED
          BY <4>5 DEF PageExists, n
      <3> QED
        BY <3>2, <3>6, <3>7
    <2> QED
      BY <2>1, <2>2
  <1>5. LoadsTyped' /\ LoadsInOrder' /\ LastLoadHasAcked' /\ CountsHold' /\ LastLoadIsForThePage'
    BY <1>1, <1>4, LoadForThePage
  <1> QED
    BY <1>2, <1>4, <1>5 DEF ListInv

\* A filter that is only typed sends the pages astray.
LEMMA TypeFilterKeepsInv == ListInv /\ TypeFilter => ListInv'
  <1> SUFFICES ASSUME ListInv, TypeFilter
               PROVE  ListInv'
    OBVIOUS
  <1>0. /\ ServerTyped /\ PagingTyped /\ TableTyped /\ LoadsTyped /\ DialogTyped /\ SavesTyped
        /\ screen \in Screens /\ LoadsInOrder /\ VersionsAgree /\ LastLoadHasAcked /\ CountsHold
    BY DEF ListInv
  <1>1. /\ present' = present /\ matching' = matching /\ version' = version /\ narrowed' = narrowed
        /\ rows' = rows /\ totalItems' = totalItems /\ shown' = shown /\ counted' = counted
        /\ screen' = screen /\ page' = page /\ pageSize' = pageSize /\ loading' = loading /\ loads' = loads
        /\ dialog' = dialog /\ saves' = saves /\ acked' = acked
        /\ filtered' = ~filtered /\ astray' = TRUE
    BY DEF TypeFilter, server, table
  <1>2. ServerTyped' /\ TableTyped' /\ LoadsTyped' /\ DialogTyped' /\ SavesTyped' /\ screen' \in Screens
        /\ VersionsAgree' /\ LoadsInOrder' /\ LastLoadHasAcked'
    BY Zenon, <1>0, <1>1 DEF ServerTyped, TableTyped, LoadsTyped, DialogTyped, SavesTyped, VersionsAgree, Ended,
      LoadsInOrder, Sent, LastLoadHasAcked
  <1>3. PagingTyped'
    BY <1>0, <1>1 DEF PagingTyped
  <1>4. CountsHold' /\ LastLoadIsForThePage'
    BY <1>0, <1>1 DEF CountsHold, LastLoadIsForThePage
  <1> QED
    BY <1>2, <1>3, <1>4 DEF ListInv

LEMMA SavesAreFinite == IsFiniteSet(1..MaxSaves)
  BY FS_Interval, BoundsAssumption

LEMMA CommittedRequest ==
  ASSUME NEW i \in 0..MaxRecords, NEW a \in BOOLEAN, NEW b \in BOOLEAN, NEW h \in BOOLEAN, NEW v \in Nat, NEW c,
         c = [step |-> "committed", id |-> i, closes |-> a, reloads |-> b, heard |-> h, version |-> v]
  PROVE  c \in Request /\ c.step = "committed" /\ c.id = i /\ c.version = v
  <1>1. c \in Request
    BY DEF Request
  <1>2. c.step = "committed" /\ c.id = i /\ c.version = v
    OBVIOUS
  <1> QED
    BY <1>1, <1>2

\* What a commit makes of its request.
SaveEnds(s, i) ==
  saves' = [saves EXCEPT ![s] = IF @.heard
              THEN [@ EXCEPT !.step = "committed", !.id = i, !.version = version'[i]]
              ELSE [step |-> "done"]]

\* A committed change is one more of its record, and one more save that ended.
LEMMA CommitKeepsVersions ==
  ASSUME ServerTyped, SavesTyped, VersionsAgree, acked' = acked, NEW s \in Saves, saves[s].step = "sent",
         NEW i \in Records, version' \in {version, [version EXCEPT ![i] = @ + 1]},
         SaveEnds(s, i)
  PROVE  SavesTyped' /\ VersionsAgree' /\ version' \in [Records -> Nat]
  <1>1. /\ version' \in [Records -> Nat]
        /\ \A j \in Records : version[j] <= version'[j] /\ version'[j] <= version[j] + 1
                              /\ version[j] \in Nat /\ version'[j] \in Nat
    BY DEF ServerTyped
  <1>2. DOMAIN saves = Saves /\ (\A t \in Saves : IsSave(saves[t])) /\ saves[s] \in Request
    BY SaveUnderWay DEF SavesTyped
  <1>3. saves' = [t \in Saves |-> saves'[t]] /\ \A t \in Saves : t # s => saves'[t] = saves[t]
    BY <1>2 DEF SaveEnds
  <1>4. /\ IsSave(saves'[s]) /\ saves'[s].step \in {"committed", "done"}
        /\ saves'[s].step = "committed" => saves'[s].id = i /\ saves'[s].version = version'[i]
    <2>1. CASE saves[s].heard
      <3> DEFINE v == version'[i]
      <3>1. saves'[s] = [saves[s] EXCEPT !.step = "committed", !.id = i, !.version = v]
        BY <1>2, <2>1 DEF SaveEnds
      <3>2. i \in 0..MaxRecords /\ v \in Nat
        BY <1>1, BoundsAssumption DEF Records
      <3> HIDE DEF v
      <3>3. saves'[s] = [step |-> "committed", id |-> i, closes |-> saves[s].closes,
                         reloads |-> saves[s].reloads, heard |-> saves[s].heard, version |-> v]
        BY <1>2, <3>1 DEF Request
      <3>4. saves[s].closes \in BOOLEAN /\ saves[s].reloads \in BOOLEAN /\ saves[s].heard \in BOOLEAN
        BY <1>2 DEF Request
      <3>5. saves'[s] \in Request /\ saves'[s].step = "committed" /\ saves'[s].id = i /\ saves'[s].version = v
        BY <3>2, <3>3, <3>4, CommittedRequest
      <3> QED
        BY <3>5 DEF IsSave, v
    <2>2. CASE ~saves[s].heard
      <3>1. saves'[s] = [step |-> "done"]
        BY <1>2, <2>2 DEF SaveEnds
      <3> QED
        BY <3>1 DEF IsSave
    <2> QED
      BY <2>1, <2>2
  <1>5. SavesTyped'
    <2>1. \A t \in Saves : IsSave(saves'[t])
      BY <1>2, <1>3, <1>4
    <2> QED
      BY <1>3, <2>1 DEF SavesTyped, IsSave
  <1>6. Cardinality(Ended') = Cardinality(Ended) + 1 /\ Cardinality(Ended) \in Nat
    <2>1. Ended' = Ended \cup {s} /\ s \notin Ended /\ Ended \subseteq 1..MaxSaves
      BY <1>3, <1>4 DEF Ended, Saves
    <2>2. IsFiniteSet(Ended)
      BY <2>1, SavesAreFinite, FS_Subset
    <2> QED
      BY <2>1, <2>2, FS_AddElement, FS_CardinalityType
  <1>7. \A j \in Records : version'[j] <= Cardinality(Ended')
    <2>1. \A j \in Records : version[j] <= Cardinality(Ended)
      BY DEF VersionsAgree
    <2> QED
      BY <1>1, <1>6, <2>1
  <1>8. acked' \in [Records -> Nat] /\ \A j \in Records : acked'[j] <= version'[j]
    <2>1. acked \in [Records -> Nat] /\ \A j \in Records : acked[j] <= version[j]
      BY DEF VersionsAgree
    <2> QED
      BY <1>1, <2>1
  <1>9. ASSUME NEW t \in Saves, saves'[t].step = "committed"
        PROVE  saves'[t].id \in Records /\ saves'[t].version <= version'[saves'[t].id]
    <2>1. CASE t = s
      BY <1>1, <1>4, <1>9, <2>1
    <2>2. CASE t # s
      <3>1. /\ saves'[t] = saves[t] /\ saves[t].id \in Records
            /\ saves[t].version <= version[saves[t].id]
        BY <1>3, <1>9, <2>2 DEF VersionsAgree
      <3>2. saves[t].version \in Nat
        <4>1. saves[t] \in Request
          BY <1>9, <3>1, SaveUnderWay
        <4> QED
          BY <4>1 DEF Request
      <3> QED
        BY <1>1, <3>1, <3>2
    <2> QED
      BY <2>1, <2>2
  <1>10. VersionsAgree'
    BY <1>7, <1>8, <1>9 DEF VersionsAgree
  <1> QED
    BY <1>1, <1>5, <1>10

LEMMA CommitSaveKeepsInv ==
  ASSUME ListInv, NEW s \in Saves, CommitSave(s)
  PROVE  ListInv'
  <1>0. /\ ServerTyped /\ PagingTyped /\ TableTyped /\ LoadsTyped /\ DialogTyped /\ SavesTyped
        /\ screen \in Screens /\ LoadsInOrder /\ VersionsAgree /\ LastLoadHasAcked
        /\ CountsHold /\ LastLoadIsForThePage
    BY DEF ListInv
  <1>1. /\ rows' = rows /\ totalItems' = totalItems /\ shown' = shown /\ counted' = counted
        /\ screen' = screen /\ page' = page /\ pageSize' = pageSize /\ filtered' = filtered
        /\ astray' = astray /\ loading' = loading /\ loads' = loads
        /\ dialog' = dialog /\ acked' = acked /\ saves[s].step = "sent"
        /\ UNCHANGED <<paging, table, loads>>
    BY DEF CommitSave, table, paging
  <1>2. PICK i \in Records :
          /\ \/ /\ present' = present \cup {i} /\ matching' = matching /\ version' = version
                /\ narrowed' = narrowed
             \/ /\ version' = [version EXCEPT ![i] = @ + 1] /\ matching' \in {matching, matching \ {i}}
                /\ narrowed' = (narrowed \/ matching' # matching) /\ present' = present
          /\ SaveEnds(s, i)
    BY DEF CommitSave, SaveEnds
  <1>3. SavesTyped' /\ VersionsAgree' /\ version' \in [Records -> Nat]
    BY <1>0, <1>1, <1>2, CommitKeepsVersions
  <1>4. PagingTyped' /\ TableTyped' /\ LoadsTyped' /\ DialogTyped' /\ screen' \in Screens
        /\ LoadsInOrder' /\ LastLoadHasAcked'
    <2>1. PagingTyped' /\ TableTyped' /\ LoadsTyped' /\ screen' \in Screens
      BY Zenon, <1>0, <1>1 DEF PagingTyped, TableTyped, LoadsTyped
    <2>2. DialogTyped' /\ LoadsInOrder' /\ LastLoadHasAcked'
      BY Zenon, <1>0, <1>1 DEF DialogTyped, LoadsInOrder, Sent, LastLoadHasAcked
    <2> QED
      BY <2>1, <2>2
  <1>5. /\ present \subseteq present' /\ present' \subseteq Records /\ matching' \subseteq Records
        /\ narrowed' \in BOOLEAN
        /\ ~narrowed' => ~narrowed /\ matching' = matching
    <2>1. /\ present' \in {present, present \cup {i}} /\ matching' \in {matching, matching \ {i}}
          /\ \/ narrowed' = narrowed /\ matching' = matching
             \/ narrowed' = (narrowed \/ matching' # matching)
      BY <1>2
    <2>2. present \subseteq Records /\ matching \subseteq Records /\ narrowed \in BOOLEAN
      BY <1>0 DEF ServerTyped
    <2>3. present \subseteq present' /\ present' \subseteq Records /\ matching' \subseteq Records
      BY <2>1, <2>2
    <2>4. narrowed' \in BOOLEAN
      BY <2>1, <2>2
    <2>5. ~narrowed' => ~narrowed /\ matching' = matching
      BY <2>1, <2>2
    <2> QED
      BY <2>3, <2>4, <2>5
  <1>6. ServerTyped'
    BY <1>3, <1>5 DEF ServerTyped
  <1>7. CountsHold'
    BY <1>0, <1>1, <1>5, CountsGrow
  <1>8. Sent' = Sent
    BY <1>1 DEF Sent
  <1>9. LastLoadIsForThePage'
    BY <1>0, <1>1, <1>5, <1>8 DEF LastLoadIsForThePage
  <1> QED
    BY <1>3, <1>4, <1>6, <1>7, <1>9 DEF ListInv

\* The answer to a save that is heard loads the list again.
LEMMA SavedKeepsInv ==
  ASSUME ListInv, NEW s \in Saves, ReceiveSaved(s)
  PROVE  ListInv'
  <1>0. /\ ServerTyped /\ PagingTyped /\ TableTyped /\ LoadsTyped /\ DialogTyped /\ SavesTyped
        /\ screen \in Screens /\ LoadsInOrder /\ VersionsAgree /\ LastLoadHasAcked
        /\ CountsHold /\ LastLoadIsForThePage
    BY DEF ListInv
  <1>1. /\ present' = present /\ matching' = matching /\ version' = version /\ narrowed' = narrowed
        /\ rows' = rows /\ totalItems' = totalItems /\ shown' = shown /\ counted' = counted
        /\ screen' = screen /\ page' = page /\ pageSize' = pageSize /\ filtered' = filtered
        /\ astray' = astray
        /\ UNCHANGED <<server, screen, paging, table>> /\ saves[s].step = "committed"
        /\ saves' = [saves EXCEPT ![s] = [step |-> "done"]]
        /\ dialog' = IF saves[s].closes THEN NoDialog ELSE dialog
    BY DEF ReceiveSaved, server, table, paging
  <1>2. DialogTyped'
    BY <1>0, <1>1 DEF DialogTyped
  <1>3. DOMAIN saves = Saves /\ \A t \in Saves : IsSave(saves[t])
    BY <1>0 DEF SavesTyped
  <1>4. /\ saves' = [t \in Saves |-> saves'[t]] /\ saves'[s] = [step |-> "done"]
        /\ \A t \in Saves : t # s => saves'[t] = saves[t]
    BY <1>1, <1>3
  <1>5. SavesTyped'
    <2>1. IsSave([step |-> "done"])
      BY DEF IsSave
    <2>2. \A t \in Saves : IsSave(saves'[t])
      BY <1>3, <1>4, <2>1
    <2> QED
      BY <1>4, <2>2 DEF SavesTyped, IsSave
  <1>6. \A t \in Saves : /\ saves[t].step \notin {"none", "sent"} => saves'[t].step \notin {"none", "sent"}
                         /\ saves'[t].step = "committed" =>
                              /\ saves[t].step = "committed"
                              /\ saves'[t].id = saves[t].id /\ saves'[t].version = saves[t].version
    BY <1>1, <1>4
  <1>7. ServerTyped' /\ PagingTyped' /\ TableTyped' /\ screen' \in Screens
    BY Zenon, <1>0, <1>1 DEF ServerTyped, PagingTyped, TableTyped
  <1>8. CASE /\ acked' = [acked EXCEPT ![saves[s].id] = IF @ < saves[s].version THEN saves[s].version ELSE @]
             /\ Load(page, pageSize, filtered)
    <2>1. LoadsTyped' /\ LoadsInOrder' /\ LastLoadHasAcked' /\ CountsHold' /\ LastLoadIsForThePage'
      <3>1. ~astray' /\ ~narrowed => PageExists(page', pageSize', Size(present, matching, filtered'))
        BY <1>0, <1>1 DEF CountsHold
      <3>2. Load(page', pageSize', filtered')
        BY <1>1, <1>8
      <3> QED
        BY <1>1, <1>7, <3>1, <3>2, LoadForThePage
    <2>2. acked' \in [Records -> Nat] /\ \A i \in Records : acked'[i] <= version[i]
      <3> DEFINE r == saves[s].id
                 v == saves[s].version
      <3>1. r \in Records /\ v <= version[r]
        BY <1>0, <1>1 DEF VersionsAgree
      <3>2. v \in Nat
        <4>1. saves[s] \in Request
          BY <1>0, <1>1, SaveUnderWay
        <4> QED
          BY <4>1 DEF Request
      <3>3. acked \in [Records -> Nat] /\ \A i \in Records : acked[i] <= version[i]
        BY <1>0 DEF VersionsAgree
      <3>4. acked' = [acked EXCEPT ![r] = IF @ < v THEN v ELSE @]
        BY <1>8
      <3> HIDE DEF r, v
      <3> QED
        BY <3>1, <3>2, <3>3, <3>4
    <2>3. VersionsAgree'
      <3>1. \A i \in Records : version[i] <= Cardinality(Ended')
        <4>1. Ended \subseteq Ended' /\ Ended' \subseteq 1..MaxSaves
          BY <1>6 DEF Ended, Saves
        <4>3. IsFiniteSet(Ended')
          BY <4>1, SavesAreFinite, FS_Subset
        <4>4. Cardinality(Ended) <= Cardinality(Ended') /\ IsFiniteSet(Ended)
          BY <4>1, <4>3, FS_Subset
        <4>5. Cardinality(Ended) \in Nat /\ Cardinality(Ended') \in Nat
          BY <4>3, <4>4, FS_CardinalityType
        <4>6. \A i \in Records : version[i] \in Nat /\ version[i] <= Cardinality(Ended)
          BY <1>0 DEF VersionsAgree, ServerTyped
        <4> QED
          BY <4>4, <4>5, <4>6
      <3> QED
        BY <1>0, <1>1, <1>6, <2>2, <3>1 DEF VersionsAgree
    <2> QED
      BY <1>2, <1>5, <1>7, <2>1, <2>3 DEF ListInv
  <1>9. CASE UNCHANGED <<acked, loads, loading>>
    <2>1. VersionsAgree'
      BY <1>0, <1>1, <1>6, <1>9, VersionsStay
    <2>2. LoadsTyped' /\ LoadsInOrder' /\ LastLoadHasAcked'
      BY Zenon, <1>0, <1>1, <1>9 DEF LoadsTyped, LoadsInOrder, Sent, LastLoadHasAcked
    <2>3. CountsHold' /\ LastLoadIsForThePage'
      BY Zenon, <1>0, <1>1, <1>9 DEF CountsHold, Sent, LastLoadIsForThePage
    <2> QED
      BY <1>2, <1>5, <1>7, <2>1, <2>2, <2>3 DEF ListInv
  <1> QED
    BY <1>8, <1>9 DEF ReceiveSaved

LEMMA ListInitInv == Init => ListInv
  <1> SUFFICES ASSUME Init
               PROVE  ListInv
    OBVIOUS
  <1>1. PICK n \in 0..MaxRecords : present = 1..n
    BY DEF Init
  <1>2. /\ matching \subseteq Records /\ version = [i \in Records |-> 0] /\ screen \in Screens
        /\ page = 1 /\ pageSize = FirstSize /\ filtered = FALSE
        /\ rows = <<>> /\ totalItems = 0 /\ loading = TRUE
        /\ loads = [l \in Loads |-> IF l = 1 THEN LoadOf(1, FirstSize, FALSE) ELSE NoLoad]
        /\ dialog = NoDialog /\ saves = [s \in Saves |-> NoSave]
        /\ shown = 0 /\ counted = FALSE /\ astray = FALSE /\ narrowed = FALSE
        /\ acked = [i \in Records |-> 0]
    BY DEF Init
  <1>3. present \subseteq Records
    BY <1>1, BoundsAssumption DEF Records
  <1>4. /\ 1 \in 1..MaxRecords /\ 0 \in 0..MaxRecords /\ 1 \in Loads /\ 1 \in 1..MaxLoads
        /\ 1 \in 0..MaxLoads /\ 0 \in 0..MaxLoads
    BY BoundsAssumption DEF Loads
  <1>5. version \in [Records -> Nat] /\ acked \in [Records -> Nat]
        /\ \A i \in Records : version[i] = 0 /\ acked[i] = 0
    BY <1>2
  <1>6. ServerTyped
    <2>1. matching \subseteq Records /\ narrowed \in BOOLEAN
      BY <1>2
    <2> QED
      BY <1>3, <1>5, <2>1 DEF ServerTyped
  <1>7. PagingTyped
    <2>1. page = 1 /\ pageSize = FirstSize /\ filtered = FALSE /\ astray = FALSE
      BY <1>2
    <2> QED
      BY <1>4, <2>1, SizesAssumption DEF PagingTyped
  <1>8. TableTyped
    <2>1. IsRows(<<>>)
      BY DEF IsRows
    <2>2. rows = <<>> /\ totalItems = 0 /\ shown = 0 /\ counted = FALSE
      BY <1>2
    <2> QED
      BY <1>4, <2>1, <2>2 DEF TableTyped
  <1>9. DialogTyped
    BY <1>2 DEF DialogTyped
  <1>10. loads = [l \in Loads |-> loads[l]]
         /\ \A l \in Loads : loads[l] = IF l = 1 THEN LoadOf(1, FirstSize, FALSE) ELSE NoLoad
    BY <1>2
  <1>11. LoadsTyped
    <2>1. IsLoad(LoadOf(1, FirstSize, FALSE)) /\ IsLoad(NoLoad)
      BY <1>4, SizesAssumption DEF IsLoad, LoadOf
    <2>2. loading \in BOOLEAN
      BY <1>2
    <2> QED
      BY <1>10, <2>1, <2>2 DEF LoadsTyped
  <1>12. \A l \in Loads : loads[l].step = IF l = 1 THEN "sent" ELSE "none"
    BY <1>10 DEF LoadOf, NoLoad
  <1>13. Sent = 1 /\ \A l \in Loads : loads[l].step # "none" <=> l <= 1
    <2>1. \A l \in Loads : loads[l].step # "none" <=> l <= 1
      BY <1>12 DEF Loads
    <2> QED
      BY <1>4, <2>1, SentIs
  <1>14. shown # Sent /\ shown <= Sent
    <2>1. shown = 0
      BY <1>2
    <2> QED
      BY <1>13, <2>1
  <1>15. LoadsInOrder
    BY <1>4, <1>13, <1>14 DEF LoadsInOrder
  <1>16. \A s \in Saves : saves[s] = NoSave /\ saves[s].step = "none"
    BY <1>2 DEF NoSave
  <1>17. SavesTyped
    <2>1. saves = [s \in Saves |-> saves[s]]
      BY <1>2
    <2> QED
      BY <1>16, <2>1 DEF SavesTyped, IsSave
  <1>18. VersionsAgree
    <2>1. Ended = {}
      BY <1>16 DEF Ended
    <2>2. Cardinality(Ended) = 0
      BY <2>1, FS_EmptySet
    <2> QED
      BY <1>5, <1>16, <2>2 DEF VersionsAgree
  <1>19. loads[Sent].step = "sent" /\ loads[Sent] = LoadOf(1, FirstSize, FALSE)
    BY <1>4, <1>10, <1>12, <1>13
  <1>20. LastLoadHasAcked
    BY <1>14, <1>19 DEF LastLoadHasAcked
  <1>21. CountsHold
    <2>1. Size(present, matching, counted) \in 0..MaxRecords
      BY <1>3, SizeIsANumber
    <2>2. 0 <= Size(present, matching, counted)
      BY <2>1, BoundsAssumption
    <2>3. totalItems = 0 /\ page = 1
      BY <1>2
    <2> QED
      BY <1>12, <2>2, <2>3 DEF CountsHold, PageExists
  <1>22. LastLoadIsForThePage
    <2>1. page = 1 /\ pageSize = FirstSize /\ filtered = FALSE
      BY <1>2
    <2>2. loads[Sent].page = 1 /\ loads[Sent].size = FirstSize /\ loads[Sent].filtered = FALSE
      BY <1>19 DEF LoadOf
    <2> QED
      BY <1>14, <1>19, <2>1, <2>2 DEF LastLoadIsForThePage
  <1> QED
    BY <1>2, <1>6, <1>7, <1>8, <1>9, <1>11, <1>15, <1>17, <1>18, <1>20, <1>21, <1>22 DEF ListInv

LEMMA ListNextKeepsInv == ListInv /\ [Next]_vars => ListInv'
  <1> SUFFICES ASSUME ListInv, [Next]_vars
               PROVE  ListInv'
    OBVIOUS
  <1>1. CASE UNCHANGED vars
    <2>0. /\ ServerTyped /\ PagingTyped /\ TableTyped /\ LoadsTyped /\ DialogTyped /\ SavesTyped
          /\ screen \in Screens /\ LoadsInOrder /\ VersionsAgree /\ LastLoadHasAcked
          /\ CountsHold /\ LastLoadIsForThePage
      BY DEF ListInv
    <2>1. /\ present' = present /\ matching' = matching /\ version' = version /\ narrowed' = narrowed
          /\ rows' = rows /\ totalItems' = totalItems /\ shown' = shown /\ counted' = counted
          /\ screen' = screen /\ page' = page /\ pageSize' = pageSize /\ filtered' = filtered
          /\ astray' = astray /\ loading' = loading /\ loads' = loads
          /\ dialog' = dialog /\ saves' = saves /\ acked' = acked
      BY <1>1 DEF vars, server, table, paging
    <2>2. ServerTyped' /\ PagingTyped' /\ TableTyped' /\ LoadsTyped' /\ screen' \in Screens
      BY Zenon, <2>0, <2>1 DEF ServerTyped, PagingTyped, TableTyped, LoadsTyped
    <2>3. DialogTyped' /\ SavesTyped' /\ LoadsInOrder' /\ VersionsAgree'
      BY Zenon, <2>0, <2>1 DEF DialogTyped, SavesTyped, LoadsInOrder, Sent, VersionsAgree, Ended
    <2>4. LastLoadHasAcked' /\ CountsHold' /\ LastLoadIsForThePage'
      BY Zenon, <2>0, <2>1 DEF LastLoadHasAcked, CountsHold, LastLoadIsForThePage, Sent
    <2> QED
      BY <2>2, <2>3, <2>4 DEF ListInv
  <1>2. ASSUME NEW l \in Loads, CountRows(l) \/ ReadPage(l) \/ ReceivePage(l) \/ ReceiveLoadError(l)
        PROVE  ListInv'
    BY <1>2, BackendLoadKeepsInv, AnswerToLoadKeepsInv
  <1>3. ASSUME NEW i \in Records,
               OtherCreates(i) \/ ChangeRow(i) \/ \E kind \in {"edit", "confirm"} : OpenOnRow(kind, i)
        PROVE  ListInv'
    BY <1>3, OtherCreatesKeepsInv, SendingKeepsInv, OpeningKeepsInv
  <1>4. ASSUME NEW s \in Saves, CommitSave(s) \/ ReceiveSaved(s) \/ ReceiveSaveError(s)
        PROVE  ListInv'
    BY <1>4, CommitSaveKeepsInv, SavedKeepsInv, SaveErrorKeepsInv
  <1>5. CASE (\E f \in BOOLEAN : OnSearch(f)) \/ ApplyFilters
             \/ \E p \in 0..MaxRecords, k \in PageSizes : OnPageChange(p, k)
    BY <1>5, PagingKeepsInv
  <1>6. CASE TypeFilter
    BY <1>6, TypeFilterKeepsInv
  <1>7. CASE OpenCreate \/ Dismiss \/ SubmitDialog \/ Confirm
    BY <1>7, OpeningKeepsInv, DismissKeepsInv, SendingKeepsInv
  <1> QED
    BY <1>1, <1>2, <1>3, <1>4, <1>5, <1>6, <1>7 DEF Next

\* What the invariant says of the rows shown and of the types.
LEMMA ListInvShows == ListInv => TypeOK /\ OwnChangesShow /\ NeverPastTheEnd
  <1> SUFFICES ASSUME ListInv
               PROVE  TypeOK /\ OwnChangesShow /\ NeverPastTheEnd
    OBVIOUS
  <1>0. /\ ServerTyped /\ PagingTyped /\ TableTyped /\ LoadsTyped /\ DialogTyped /\ SavesTyped
        /\ screen \in Screens /\ LoadsInOrder /\ VersionsAgree /\ LastLoadHasAcked
        /\ CountsHold /\ LastLoadIsForThePage
    BY DEF ListInv
  <1>1. OwnChangesShow
    BY <1>0 DEF OwnChangesShow, Settled, LastLoadHasAcked
  <1>2. NeverPastTheEnd
    BY <1>0 DEF NeverPastTheEnd, Settled, LastLoadIsForThePage
  <1>3. \A i \in Records : version[i] \in 0..MaxSaves /\ acked[i] \in 0..MaxSaves
    <2>1. Ended \subseteq 1..MaxSaves
      BY DEF Ended, Saves
    <2>2. Cardinality(1..MaxSaves) = MaxSaves
      <3>1. Cardinality(1..MaxSaves) = IF 1 > MaxSaves THEN 0 ELSE MaxSaves - 1 + 1
        BY FS_Interval, BoundsAssumption
      <3> QED
        BY <3>1, BoundsAssumption
    <2>3. Cardinality(Ended) <= MaxSaves /\ IsFiniteSet(Ended)
      BY <2>1, <2>2, SavesAreFinite, FS_Subset
    <2>4. Cardinality(Ended) \in Nat
      BY <2>3, FS_CardinalityType
    <2>5. \A i \in Records : /\ version[i] \in Nat /\ version[i] <= Cardinality(Ended)
                             /\ acked[i] \in Nat /\ acked[i] <= version[i]
      BY <1>0 DEF VersionsAgree, ServerTyped
    <2> QED
      BY <2>3, <2>4, <2>5, BoundsAssumption
  <1>4. version \in [Records -> 0..MaxSaves] /\ acked \in [Records -> 0..MaxSaves]
    BY <1>0, <1>3 DEF ServerTyped, VersionsAgree
  <1>5. \A l \in Loads : loads[l].step \in {"none", "sent", "counted", "read", "done"}
    <2>1. \A q : IsLoad(q) => q.step \in {"none", "sent", "counted", "read", "done"}
      BY DEF IsLoad, NoLoad
    <2> QED
      BY <1>0, <2>1 DEF LoadsTyped
  <1>6. \A s \in Saves : saves[s].step \in {"none", "sent", "committed", "done"}
    <2>1. \A c : IsSave(c) => c.step \in {"none", "sent", "committed", "done"}
      BY DEF IsSave, NoSave, Request
    <2> QED
      BY <1>0, <2>1 DEF SavesTyped
  <1>7. dialog.kind \in {"none", "create", "edit", "confirm"}
    BY <1>0 DEF DialogTyped, NoDialog
  <1>8. TypeOK
    BY <1>0, <1>4, <1>5, <1>6, <1>7 DEF TypeOK, ServerTyped, PagingTyped, TableTyped, LoadsTyped, IsRows
  <1> QED
    BY <1>1, <1>2, <1>8

--------------------------------------------------------------------------------
(* The screens behind the router. *)

LEMMA SettingsAlways == ScreensSpec => []SettingsInv
  <1>1. ScreensInit => SettingsInv
    BY SettingsInitInv DEF ScreensInit
  <1>2. SettingsInv /\ [ScreensNext]_screensVars => SettingsInv'
    BY SettingsNextKeepsInv DEF ScreensNext, screensVars
  <1> QED
    BY <1>1, <1>2, PTL DEF ScreensSpec

LEMMA RolesAlways == ScreensSpec => []RolesInv
  <1>1. ScreensInit => RolesInv
    BY RolesInitInv DEF ScreensInit
  <1>2. RolesInv /\ [ScreensNext]_screensVars => RolesInv'
    BY RolesNextKeepsInv DEF ScreensNext, screensVars
  <1> QED
    BY <1>1, <1>2, PTL DEF ScreensSpec

\* settings.component.ts: whatever is loaded, typed and saved, in whatever order it is answered, what is
\* stored under a key was loaded from it, or the key was retyped in between.
THEOREM SettingsAreSavedWhereLoaded == ScreensSpec => []StoredWhereItWasLoaded
  <1>1. SettingsInv => StoredWhereItWasLoaded
    BY DEF SettingsInv, StoredWhereItWasLoaded
  <1> QED
    BY <1>1, SettingsAlways, PTL

\* role-form-dialog.component.ts: a toast is true of the whole form, though it took two requests.
THEOREM RoleToastsAreTrue == ScreensSpec => []ToastMeansSaved
  BY RolesAlways, RolesInvShows, PTL

\* role-form-dialog.component.ts: a disabled Save button always waits for an answer to come.
THEOREM RoleDialogWaitsForARequest == ScreensSpec => []WaitsForARequest
  BY RolesAlways, RolesInvShows, PTL

\* roles-list.component.ts: the edit dialog opens on the role as it is committed, except where the list
\* may be old and its history says so.
THEOREM EditDialogsStartFromCommitted == ScreensSpec => EditStartsFromCommitted
  <1>1. ASSUME RolesInv, [ScreensNext]_screensVars
        PROVE  [roleDialog.mode = "none" /\ roleDialog'.mode = "edit"
                => \/ behind \/ rolesShown # Roles!Sent \/ \E s \in Roles!Saves : Roles!Pending(s)
                   \/ roleRows = role]_(Roles!vars)
    <2>1. [Roles!Next]_rolesVars
      BY <1>1 DEF ScreensNext, screensVars
    <2> QED
      BY <1>1, <2>1, EditStepStartsFromCommitted
  <1> QED
    BY <1>1, RolesAlways, PTL DEF ScreensSpec, EditStartsFromCommitted, Roles!EditStartsFromCommitted

LEMMA ListAlways == ScreensSpec => []ListInv
  <1>1. ScreensInit => ListInv
    BY ListInitInv DEF ScreensInit
  <1>2. ListInv /\ [ScreensNext]_screensVars => ListInv'
    BY ListNextKeepsInv DEF ScreensNext, screensVars
  <1> QED
    BY <1>1, <1>2, PTL DEF ScreensSpec

\* The list components' load() after a dialog that reports its save: the rows of the last load have it.
THEOREM ListsShowOwnChanges == ScreensSpec => []OwnChangesShow
  BY ListAlways, ListInvShows, PTL

\* onSearch(), applyFilters() and onPageChange(): a page is chosen within the list, and stays there.
THEOREM ListsNeverEndBeforeThePage == ScreensSpec => []NeverPastTheEnd
  BY ListAlways, ListInvShows, PTL

\* The state of every screen has its type.
THEOREM ScreensTypeCorrect == ScreensSpec => []ScreensTypeOK
  <1>1. ListInv /\ RolesInv /\ SettingsInv => ScreensTypeOK
    BY ListInvShows, RolesInvShows DEF SettingsInv, ScreensTypeOK
  <1> QED
    BY <1>1, ListAlways, RolesAlways, SettingsAlways, PTL
================================================================================
