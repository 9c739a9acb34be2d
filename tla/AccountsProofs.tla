--------------------------- MODULE AccountsProofs ---------------------------
(***************************************************************************)
(* What holds of the people of any organisations, for any requests at once *)
(* and any bounds: the types, that no account an administrator made is     *)
(* left behind, that owners stay owners, that whoever has a row has an     *)
(* account, and that the two records of a role agree.                      *)
(*                                                                         *)
(* Typed says what a request may rely on: a person it works on was made,   *)
(* and a row belongs to an organisation that was opened.  For NoOrphans,   *)
(* TornDown and Watched say which steps may still leave an account alone.  *)
(* For OwnersStay, OwnersKnown, Warned and Signed say that an owner has    *)
(* signed in, so that no request about one gets as far as a write.  For    *)
(* RowsHaveAccounts and MembershipFollowsRow, Noticed says that requests   *)
(* that cross are in the history, so that otherwise what a request has     *)
(* read of a person still holds when it writes: Alive, Rowless, InPlace    *)
(* and OneWritten.                                                         *)
(***************************************************************************)
EXTENDS Accounts, WellFoundedInduction, TLAPS

UsesId == Steps \ {"idle", "lookup", "provision", "deleteRole"}

\* A request that works on a person works on one there is; only an update may
\* leave the address or the role out.
Fits(s, j) ==
    /\ s \in UsesId => j.id \in Used
    /\ s # "update" => j.email \in Emails /\ j.role \in Roles

Fitting == \A c \in Clients : Fits(at[c], job[c])

\* Rows are those of accounts made and of organisations opened.
Rows ==
    \A i \in Ids :
        /\ row[i] # None => i \in Used /\ org[row[i].tenant] # "unused"
        /\ row[i] = None => member[i] = Nowhere

Typed == TypeOK /\ Fitting /\ Rows

LEMMA Constants ==
  /\ First \in Tenants /\ Founder \in Emails /\ 1 \in Ids /\ NoId \notin Ids
  /\ "unused" \notin Emails /\ None \notin User /\ None \notin Membership
  /\ MaxIds \in Nat /\ MaxRequests \in Nat /\ MaxFaults \in Nat
  BY AccountsAssumption, NoneIsNoRow DEF Ids, NoId

LEMMA RolesTyped ==
  /\ \A t \in Tenants : RoleRows(t) \subseteq AnyRole /\ <<t, "ADMIN">> \in AnyRole
  /\ \A ref \in AnyRole : KeyOf(ref) \in Roles /\ ref # NoRole
<1>1. \A t \in Tenants : RoleRows(t) \subseteq AnyRole /\ <<t, "ADMIN">> \in AnyRole
  BY DEF RoleRows, AnyRole, Roles
<1>2. ASSUME NEW ref \in AnyRole
      PROVE  KeyOf(ref) \in Roles /\ ref # NoRole
  <2>1. PICK t \in Tenants, k \in Roles \union {"custom"} : ref = <<t, k>>
    BY DEF AnyRole
  <2> QED
    BY <2>1 DEF KeyOf, Roles, NoRole
<1> QED
  BY <1>1, <1>2

LEMMA NoJobTyped == NoJob \in Job /\ NoJob.email \in Emails /\ NoJob.role \in Roles
  BY Constants DEF NoJob, Job, Roles, NoId

\* The smallest unused id, as Provision and SignUp take it.
LEMMA FreshIsUnused ==
  ASSUME Unused # {}
  PROVE  Fresh \in Unused
<1> DEFINE before == OpToRel(<, Nat)
<1>1. Unused \subseteq Nat
  BY Constants DEF Unused, Ids
<1>2. IsWellFoundedOn(before, Nat)
  BY NatLessThanWellFounded
<1>3. \A k, i \in Nat : <<k, i>> \notin before => i <= k
  BY DEF OpToRel
<1> HIDE DEF before
<1>4. \E i \in Unused : \A k \in Unused : ~(<<k, i>> \in before)
  BY <1>1, <1>2, WFMin
<1>5. \E i \in Unused : \A k \in Unused : i <= k
  BY <1>1, <1>3, <1>4
<1> QED
  BY <1>5 DEF Fresh

----------------------------------------------------------------------------
(* Type correctness. *)

LEMMA TypedInitially == Init => Typed
<1> SUFFICES ASSUME Init
             PROVE  TypeOK /\ Fitting /\ Rows
  BY DEF Typed
<1> USE Constants
<1>1. Used = {1}
  BY DEF Init, Used
<1>2. <<First, "ADMIN">> \in AnyRole
  BY RolesTyped
<1>3. row \in [Ids -> User \union {None}]
  <2>1. [tenant |-> First, email |-> Founder, role |-> "ADMIN", ref |-> <<First, "ADMIN">>] \in User
    BY <1>2 DEF User, Roles
  <2> QED
    BY <2>1 DEF Init
<1>4. member \in [Ids -> [Tenants -> Membership \union {None}]]
  <2>1. Owner(First) \in Membership
    BY <1>2 DEF Owner, Membership, Roles
  <2>2. Nowhere \in [Tenants -> Membership \union {None}]
    BY DEF Nowhere
  <2>3. [Nowhere EXCEPT ![First] = Owner(First)] \in [Tenants -> Membership \union {None}]
    BY <2>1, <2>2
  <2> QED
    BY <2>2, <2>3 DEF Init
<1>5. TypeOK
  BY <1>1, <1>3, <1>4, NoJobTyped DEF Init, TypeOK, Steps
<1>6. Fitting
  BY NoJobTyped DEF Init, Fitting, Fits, UsesId
<1>7. Rows
  <2>1. [tenant |-> First, email |-> Founder, role |-> "ADMIN", ref |-> <<First, "ADMIN">>] \in User
    BY <1>2 DEF User, Roles
  <2>2. ASSUME NEW i \in Ids
        PROVE  /\ row[i] # None => i \in Used /\ org[row[i].tenant] # "unused"
               /\ row[i] = None => member[i] = Nowhere
    <3>1. CASE i = 1
      BY <1>1, <2>1, <3>1 DEF Init
    <3>2. CASE i # 1
      BY <3>2 DEF Init
    <3> QED
      BY <3>1, <3>2
  <2> QED
    BY <2>2 DEF Rows
<1> QED
  BY <1>5, <1>6, <1>7

\* What a step of a request does to the requests.
LEMMA StepTyped ==
  ASSUME TypeOK, Fitting, NEW c \in Clients, NEW s \in Steps, NEW j \in Job,
         Step(c, s, j), Used \subseteq Used',
         s \in UsesId => j.id \in Used',
         s \notin {"idle", "update"} => j.email \in Emails /\ j.role \in Roles
  PROVE  /\ at' \in [Clients -> Steps] /\ job' \in [Clients -> Job]
         /\ doubled' \subseteq Ids /\ Fitting'
<1>1. at' \in [Clients -> Steps] /\ job' \in [Clients -> Job]
  BY NoJobTyped DEF TypeOK, Step
<1>2. doubled' \subseteq Ids
  BY DEF TypeOK, Step, Job
<1>3. ASSUME NEW d \in Clients
      PROVE  /\ at'[d] \in UsesId => job'[d].id \in Used'
             /\ at'[d] # "update" => job'[d].email \in Emails /\ job'[d].role \in Roles
  <2>1. CASE d = c
    <3>1. at'[d] = s /\ job'[d] = IF s = "idle" THEN NoJob ELSE j
      BY <2>1 DEF Step, TypeOK
    <3> QED
      BY <3>1, NoJobTyped DEF UsesId
  <2>2. CASE d # c
    <3>1. at'[d] = at[d] /\ job'[d] = job[d]
      BY <2>2 DEF Step, TypeOK
    <3> QED
      BY <3>1 DEF Fitting, Fits
  <2> QED
    BY <2>1, <2>2
<1> QED
  BY <1>1, <1>2, <1>3 DEF Fitting, Fits, UsesId

\* A step that leaves the rows and the accounts alone.
LEMMA StepKeepsTyped ==
  ASSUME Typed, NEW c \in Clients, NEW s \in Steps, NEW j \in Job, Step(c, s, j),
         UNCHANGED <<db, account, signedIn, invited, restyled>>,
         live' \subseteq live, stranded' = stranded,
         requests' \in 0..MaxRequests, faults' \in 0..MaxFaults,
         broken' \subseteq Ids,
         s \in UsesId => j.id \in Used,
         s \notin {"idle", "update"} => j.email \in Emails /\ j.role \in Roles
  PROVE  Typed'
<1> USE DEF Typed
<1>1. Used' = Used
  BY DEF Used
<1>2. /\ at' \in [Clients -> Steps] /\ job' \in [Clients -> Job]
      /\ doubled' \subseteq Ids /\ Fitting'
  BY <1>1, StepTyped
<1>3. TypeOK'
  BY <1>1, <1>2 DEF TypeOK, db, User, AnyRole, Membership
<1>4. Rows'
  BY <1>1 DEF Rows, db, Nowhere
<1> QED
  BY <1>2, <1>3, <1>4

LEMMA JobTyped ==
  ASSUME Typed, NEW c \in Clients
  PROVE  /\ at[c] \in Steps /\ job[c] \in Job
         /\ at[c] \in UsesId => job[c].id \in Used
         /\ at[c] # "update" => job[c].email \in Emails /\ job[c].role \in Roles
  BY DEF Typed, TypeOK, Fitting, Fits

LEMMA UsedIds == Used \subseteq Ids
  BY DEF Used

LEMMA FaultTyped ==
  ASSUME Typed, Fault
  PROVE  faults' \in 0..MaxFaults
  BY Constants DEF Typed, TypeOK, Fault

\* A request arrives.
LEMMA ArrivesKeepsTyped ==
  ASSUME Typed, NEW c \in Clients, NEW s \in Steps, NEW j \in Job, Arrives(c, s, j),
         s \in UsesId => j.id \in Used,
         s # "update" => j.email \in Emails /\ j.role \in Roles
  PROVE  Typed'
<1>1. requests' \in 0..MaxRequests /\ Step(c, s, j)
  BY Constants DEF Arrives, Typed, TypeOK
<1>2. /\ UNCHANGED <<db, account, signedIn, invited, restyled, live, stranded, faults, broken>>
      /\ faults' \in 0..MaxFaults /\ broken' \subseteq Ids /\ live' \subseteq live
  BY DEF Arrives, supabase, Typed, TypeOK
<1> QED
  BY <1>1, <1>2, StepKeepsTyped

\* A step that only reads, and one that fails.
LEMMA ReadsKeepsTyped ==
  ASSUME Typed, NEW c \in Clients, NEW s \in Steps, NEW j \in Job, Step(c, s, j), Reads(c),
         s \in UsesId => j.id \in Used,
         s \notin {"idle", "update"} => j.email \in Emails /\ j.role \in Roles
  PROVE  Typed'
<1>1. /\ UNCHANGED <<db, account, signedIn, invited, restyled, live, stranded>>
      /\ requests' \in 0..MaxRequests /\ faults' \in 0..MaxFaults /\ broken' \subseteq Ids
      /\ live' \subseteq live
  BY DEF Reads, supabase, Typed, TypeOK
<1> QED
  BY <1>1, StepKeepsTyped

LEMMA FailsKeepsTyped ==
  ASSUME Typed, NEW c \in Clients, NEW s \in Steps, NEW j \in Job, Step(c, s, j),
         NEW hit \in SUBSET Ids, Fails(c, hit),
         s \in UsesId => j.id \in Used,
         s \notin {"idle", "update"} => j.email \in Emails /\ j.role \in Roles
  PROVE  Typed'
<1>1. /\ UNCHANGED <<db, account, signedIn, invited, restyled, live, stranded>>
      /\ requests' \in 0..MaxRequests /\ faults' \in 0..MaxFaults /\ broken' \subseteq Ids
      /\ live' \subseteq live
  BY FaultTyped DEF Fails, supabase, Typed, TypeOK
<1> QED
  BY <1>1, StepKeepsTyped

\* A step that writes rows.
LEMMA WritesKeepsTyped ==
  ASSUME Typed, NEW c \in Clients, NEW s \in Steps, Goto(c, s), Writes(c),
         s # "idle" => at[c] \in UsesId \ {"update"},
         row' \in [Ids -> User \union {None}],
         member' \in [Ids -> [Tenants -> Membership \union {None}]],
         org' \in [Tenants -> {"unused", "open", "deleted"}],
         custom' \subseteq Tenants, stranded' \subseteq Ids, restyled' \subseteq Ids,
         \A t \in Tenants : org'[t] = "unused" => org[t] = "unused",
         \A i \in Ids : /\ row'[i] # None => \/ row[i] # None /\ row'[i].tenant = row[i].tenant
                                             \/ i \in Used /\ org'[row'[i].tenant] # "unused"
                        /\ row'[i] = None => member'[i] = Nowhere
  PROVE  Typed'
<1>1. UNCHANGED <<account, live, signedIn, requests, faults, broken, invited>>
  BY DEF Writes, supabase
<1>2. Used' = Used
  BY <1>1 DEF Used
<1>3. Step(c, s, job[c]) /\ job[c] \in Job
  BY JobTyped DEF Goto
<1>4. s # "idle" =>
        job[c].id \in Used' /\ job[c].email \in Emails /\ job[c].role \in Roles
  BY <1>2, JobTyped
<1>5. /\ at' \in [Clients -> Steps] /\ job' \in [Clients -> Job]
      /\ doubled' \subseteq Ids /\ Fitting'
  BY <1>2, <1>3, <1>4, StepTyped DEF Typed, UsesId
<1>6. TypeOK'
  BY <1>1, <1>2, <1>5 DEF Typed, TypeOK
<1>7. ASSUME NEW i \in Ids
      PROVE  /\ row'[i] # None => i \in Used' /\ org'[row'[i].tenant] # "unused"
             /\ row'[i] = None => member'[i] = Nowhere'
  <2>1. row[i] # None => row[i].tenant \in Tenants /\ i \in Used /\ org[row[i].tenant] # "unused"
    BY DEF Typed, TypeOK, Rows, User
  <2> QED
    BY <1>2, <2>1 DEF Nowhere
<1> QED
  BY <1>5, <1>6, <1>7 DEF Typed, Rows

\* Every step of every request keeps the types.
LEMMA RequestKeepsTyped ==
  ASSUME Typed, NEW c \in Clients, Request(c)
  PROVE  Typed'
<1> USE NoJobTyped, RolesTyped, Constants
<1>1. UsesId \subseteq Steps /\ {"provision", "lookup", "deleteRole"} \subseteq Steps
  BY DEF UsesId, Steps
<1>2. ASSUME NEW t \in Tenants, NEW e \in Emails, NEW ref \in RoleRows(t),
             Create(c, t, e, ref) \/ Invite(c, t, e, ref)
      PROVE  Typed'
  <2>1. Ask(t, e, ref) \in Job /\ Ask(t, e, ref).email \in Emails /\ Ask(t, e, ref).role \in Roles
    BY DEF Ask, Job
  <2>2. PICK s \in {"provision", "lookup"} : Arrives(c, s, Ask(t, e, ref))
    BY <1>2 DEF Create, Invite
  <2> QED
    BY <1>1, <2>1, <2>2, ArrivesKeepsTyped DEF UsesId
<1>3. \A i \in Ids : row[i] # None => row[i] \in User /\ i \in Used
  BY DEF Typed, TypeOK, Rows
<1>4. ASSUME NEW i \in Ids, Reinvite(c, i)
      PROVE  Typed'
  <2> DEFINE j == [NoJob EXCEPT !.tenant = row[i].tenant, !.id = i,
                     !.email = row[i].email, !.role = row[i].role, !.ref = row[i].ref]
  <2>1. row[i] \in User /\ i \in Used
    BY <1>3, <1>4 DEF Reinvite
  <2>2. j \in Job /\ j.email \in Emails /\ j.role \in Roles /\ j.id = i
    BY <2>1 DEF Job, User
  <2>3. Arrives(c, "status", j)
    BY <1>4 DEF Reinvite
  <2> HIDE DEF j
  <2> QED
    BY <1>1, <2>1, <2>2, <2>3, ArrivesKeepsTyped DEF Steps
<1>5. ASSUME NEW i \in Ids, Remove(c, i)
      PROVE  Typed'
  <2> DEFINE j == [NoJob EXCEPT !.tenant = row[i].tenant, !.id = i]
  <2>1. row[i] \in User /\ i \in Used
    BY <1>3, <1>5 DEF Remove
  <2>2. j \in Job /\ j.email \in Emails /\ j.role \in Roles /\ j.id = i
    BY <2>1 DEF Job, User
  <2>3. Arrives(c, "leave", j)
    BY <1>5 DEF Remove
  <2> HIDE DEF j
  <2> QED
    BY <1>1, <2>1, <2>2, <2>3, ArrivesKeepsTyped DEF Steps
<1>6. ASSUME NEW i \in Ids, NEW ref \in AnyRole, ChangeRole(c, i, ref)
      PROVE  Typed'
  <2> DEFINE j == [NoJob EXCEPT !.tenant = row[i].tenant, !.id = i,
                                !.role = KeyOf(ref), !.ref = ref]
  <2>1. row[i] \in User /\ i \in Used
    BY <1>3, <1>6 DEF ChangeRole
  <2>2. j \in Job /\ j.email \in Emails /\ j.role \in Roles /\ j.id = i
    BY <2>1 DEF Job, User
  <2>3. Arrives(c, "row", j)
    BY <1>6 DEF ChangeRole
  <2> HIDE DEF j
  <2> QED
    BY <1>1, <2>1, <2>2, <2>3, ArrivesKeepsTyped DEF Steps
<1>7. ASSUME NEW i \in Ids, NEW role \in Roles \union {Kept}, NEW e \in Emails \union {Kept},
             Update(c, i, role, e)
      PROVE  Typed'
  <2> DEFINE j == [NoJob EXCEPT !.tenant = row[i].tenant, !.id = i, !.role = role, !.email = e]
  <2>1. row[i] \in User /\ i \in Used
    BY <1>3, <1>7 DEF Update
  <2>2. j \in Job /\ j.id = i
    BY <2>1 DEF Job, User
  <2>3. Arrives(c, "update", j)
    BY <1>7 DEF Update
  <2> HIDE DEF j
  <2> QED
    BY <1>1, <2>1, <2>2, <2>3, ArrivesKeepsTyped DEF Steps
<1>8. ASSUME NEW i \in Ids, NEW t \in Tenants, Join(c, i, t) \/ CreateOrganization(c, i, t)
      PROVE  Typed'
  <2>1. i \in Used /\ account[i] \in Emails
    BY <1>8 DEF Join, CreateOrganization, Typed, TypeOK, Used
  <2>2. Joining(i, t) \in Job /\ Joining(i, t).email \in Emails /\ Joining(i, t).role \in Roles
        /\ Joining(i, t).id = i
    BY <2>1 DEF Joining, Job, Used
  <2>3. PICK s \in {"join", "organize"} : Arrives(c, s, Joining(i, t))
    BY <1>8 DEF Join, CreateOrganization
  <2> QED
    BY <2>1, <2>2, <2>3, ArrivesKeepsTyped DEF Steps
<1>9. ASSUME NEW t \in Tenants, RemoveRole(c, t)
      PROVE  Typed'
  <2>1. [NoJob EXCEPT !.tenant = t] \in Job
        /\ [NoJob EXCEPT !.tenant = t].email \in Emails
        /\ [NoJob EXCEPT !.tenant = t].role \in Roles
    BY DEF Job
  <2>2. Arrives(c, "deleteRole", [NoJob EXCEPT !.tenant = t])
    BY <1>9 DEF RemoveRole
  <2> QED
    BY <1>1, <2>1, <2>2, ArrivesKeepsTyped DEF UsesId
<1> QED
  BY <1>2, <1>4, <1>5, <1>6, <1>7, <1>8, <1>9 DEF Request

\* The steps that only read or fail.
LEMMA ReadingKeepsTyped ==
  ASSUME Typed, NEW c \in Clients,
         \/ Lookup(c) \/ LookupFails(c) \/ Attach(c) \/ ProvisionRefused(c)
         \/ MirrorRefused(c) \/ MirrorFails(c) \/ UndoFails(c)
         \/ Status(c) \/ StatusFails(c) \/ Count(c) \/ TeardownFails(c) \/ DropFails(c)
         \/ Again(c) \/ Remaining(c) \/ RemoveThrows(c) \/ DeleteAccountFails(c)
         \/ WriteMemberRefused(c) \/ WriteMemberFails(c) \/ JoinRefused(c) \/ FirstWriteFails(c)
  PROVE  Typed'
<1> USE UsedIds
<1> DEFINE j == job[c]
<1>1. /\ at[c] \in Steps /\ j \in Job
      /\ at[c] \in UsesId => j.id \in Used /\ j.id \in Ids
      /\ at[c] # "update" => j.email \in Emails /\ j.role \in Roles
  BY JobTyped
\* Where a step that keeps its job may go.
<1>2. ASSUME NEW s \in Steps,
             \/ s = "idle"
             \/ s = "provision" /\ at[c] = "lookup"
             \/ at[c] \in UsesId \ {"update"},
             Goto(c, s), Reads(c) \/ \E hit \in SUBSET Ids : Fails(c, hit)
      PROVE  Typed'
  <2>1. s \in UsesId => j.id \in Used
    BY <1>1, <1>2 DEF UsesId
  <2>2. s \notin {"idle", "update"} => j.email \in Emails /\ j.role \in Roles
    BY <1>1, <1>2
  <2>3. Step(c, s, j)
    BY <1>2 DEF Goto
  <2> HIDE DEF j
  <2> QED
    BY <1>1, <1>2, <2>1, <2>2, <2>3, ReadsKeepsTyped, FailsKeepsTyped
<1>3. {} \in SUBSET Ids /\ (at[c] \in UsesId => {j.id} \in SUBSET Ids)
  BY <1>1
<1>4. CASE Lookup(c)
  <2>1. CASE Goto(c, "provision")
    BY <1>2, <1>4, <2>1 DEF Lookup, Steps
  <2>2. CASE \E i \in AccountsOf(j.email) : Step(c, "attach", [j EXCEPT !.id = i])
    <3>1. PICK i \in AccountsOf(j.email) : Step(c, "attach", [j EXCEPT !.id = i])
      BY <2>2
    <3>2. i \in Used
      BY <3>1 DEF AccountsOf, Typed, TypeOK
    <3>3. [j EXCEPT !.id = i] \in Job /\ [j EXCEPT !.id = i].id = i
          /\ [j EXCEPT !.id = i].email \in Emails /\ [j EXCEPT !.id = i].role \in Roles
      BY <1>1, <1>4, <3>2 DEF Job, Lookup
    <3>4. Reads(c) /\ "attach" \in Steps
      BY <1>4 DEF Lookup, Steps
    <3> QED
      BY <3>1, <3>2, <3>3, <3>4, ReadsKeepsTyped
  <2> QED
    BY <1>4, <2>1, <2>2 DEF Lookup
<1>5. CASE LookupFails(c)
  BY <1>2, <1>3, <1>5 DEF LookupFails, Steps
<1>6. CASE Attach(c) \/ ProvisionRefused(c) \/ Count(c) \/ JoinRefused(c)
  <2>1. PICK s \in {"idle", "mirror", "teardown"} : Goto(c, s) /\ (s # "idle" => at[c] \in {"attach", "count"})
    BY <1>6 DEF Attach, ProvisionRefused, Count, JoinRefused, Ends
  <2>2. Reads(c) /\ s \in Steps
    BY <1>6, <2>1 DEF Attach, ProvisionRefused, Count, JoinRefused, Steps
  <2> QED
    BY <1>2, <2>1, <2>2 DEF UsesId, Steps
<1>7. CASE MirrorRefused(c) \/ MirrorFails(c)
  <2>1. PICK s \in {"idle", "undo"} : Goto(c, s)
    BY <1>7 DEF MirrorRefused, MirrorFails, Undoes
  <2>2. at[c] = "mirror" /\ (Reads(c) \/ Fails(c, {})) /\ s \in Steps
    BY <1>7 DEF MirrorRefused, MirrorFails, Steps
  <2> QED
    BY <1>2, <1>3, <2>1, <2>2 DEF UsesId, Steps
<1>8. CASE UndoFails(c) \/ DropFails(c) \/ RemoveThrows(c) \/ DeleteAccountFails(c) \/ WriteMemberFails(c)
  <2>1. ThrowsAmid(c) /\ at[c] \in {"undo", "drop", "remaining", "deleteRow", "deleteAccount", "member"}
    BY <1>8 DEF UndoFails, DropFails, RemoveThrows, DeleteAccountFails, WriteMemberFails
  <2> QED
    BY <1>2, <1>3, <2>1 DEF ThrowsAmid, Ends, UsesId, Steps
<1>9. CASE FirstWriteFails(c)
  BY <1>2, <1>3, <1>9 DEF FirstWriteFails, Throws, Ends, Steps
<1>10. CASE TeardownFails(c)
  BY <1>2, <1>3, <1>10 DEF TeardownFails, UsesId, Steps
<1>11. CASE Status(c) \/ StatusFails(c)
  <2>1. at[c] = "status" /\ "count" \in Steps /\ at[c] \in UsesId
    BY <1>11 DEF Status, StatusFails, Steps, UsesId
  <2>2. CASE Ends(c) /\ Reads(c)
    BY <1>2, <2>2 DEF Ends, Steps
  <2>3. CASE ~(Ends(c) /\ Reads(c))
    <3>1. PICK b \in BOOLEAN : Step(c, "count", [j EXCEPT !.flag = b])
      BY <1>11, <2>3 DEF Status, StatusFails
    <3>2. Reads(c) \/ Fails(c, {})
      BY <1>11 DEF Status, StatusFails
    <3>3. [j EXCEPT !.flag = b] \in Job /\ [j EXCEPT !.flag = b].id = j.id
          /\ [j EXCEPT !.flag = b].email = j.email /\ [j EXCEPT !.flag = b].role = j.role
      BY <1>1, <3>1 DEF Job
    <3> QED
      BY <1>1, <1>3, <2>1, <3>1, <3>2, <3>3, ReadsKeepsTyped, FailsKeepsTyped
  <2> QED
    BY <2>2, <2>3
<1>12. CASE Again(c)
  <2>1. CASE Ends(c)
    BY <1>2, <1>12, <2>1 DEF Again, Ends, Steps
  <2>2. CASE ~Ends(c)
    <3>1. PICK ref \in Resolved(j) : Step(c, "lookup", [NoJob EXCEPT
                    !.tenant = j.tenant, !.email = j.email, !.ref = ref,
                    !.role = IF ref = NoRole THEN j.role ELSE KeyOf(ref)])
      BY <1>12, <2>2 DEF Again
    <3> DEFINE k == [NoJob EXCEPT
                    !.tenant = j.tenant, !.email = j.email, !.ref = ref,
                    !.role = IF ref = NoRole THEN j.role ELSE KeyOf(ref)]
    <3>2. at[c] = "again" /\ Reads(c) /\ "lookup" \in Steps /\ "lookup" \notin UsesId
      BY <1>12 DEF Again, Steps, UsesId
    <3>3. j.tenant \in Tenants /\ j.email \in Emails /\ j.role \in Roles
      BY <1>1, <3>2 DEF Job
    <3>4. ref \in AnyRole \union {NoRole}
      BY <3>1, <3>3, RolesTyped DEF Resolved
    <3>5. k \in Job /\ k.email \in Emails /\ k.role \in Roles
      BY <3>3, <3>4, NoJobTyped, RolesTyped DEF Job
    <3>6. Step(c, "lookup", k)
      BY <3>1
    <3> HIDE DEF k, j
    <3> QED
      BY <3>2, <3>5, <3>6, ReadsKeepsTyped
  <2> QED
    BY <2>1, <2>2
<1>13. CASE Remaining(c)
  <2>1. PICK b \in BOOLEAN : Step(c, "deleteRow", [j EXCEPT !.flag = b])
    BY <1>13 DEF Remaining
  <2>2. Reads(c) /\ "deleteRow" \in Steps /\ at[c] = "remaining" /\ at[c] \in UsesId
    BY <1>13 DEF Remaining, Steps, UsesId
  <2>3. [j EXCEPT !.flag = b] \in Job /\ [j EXCEPT !.flag = b].id = j.id
        /\ [j EXCEPT !.flag = b].email = j.email /\ [j EXCEPT !.flag = b].role = j.role
    BY <1>1, <2>1 DEF Job
  <2> QED
    BY <1>1, <2>1, <2>2, <2>3, ReadsKeepsTyped
<1>14. CASE WriteMemberRefused(c)
  <2>1. /\ UNCHANGED <<db, account, signedIn, invited, restyled, live, stranded, requests, faults>>
        /\ broken' \subseteq Ids /\ live' \subseteq live
        /\ requests' \in 0..MaxRequests /\ faults' \in 0..MaxFaults
    BY <1>1, <1>14 DEF WriteMemberRefused, supabase, Typed, TypeOK, UsesId, Steps
  <2>2. Step(c, "idle", j) /\ "idle" \in Steps /\ "idle" \notin UsesId
    BY <1>14 DEF WriteMemberRefused, Ends, Goto, Steps, UsesId
  <2> HIDE DEF j
  <2> QED
    BY <1>1, <2>1, <2>2, StepKeepsTyped
<1> QED
  BY <1>4, <1>5, <1>6, <1>7, <1>8, <1>9, <1>10, <1>11, <1>12, <1>13, <1>14

\* The steps that delete an account, and those that make one.
LEMMA DeletingKeepsTyped ==
  ASSUME Typed, NEW c \in Clients, Undo(c) \/ Teardown(c) \/ DeleteAccount(c)
  PROVE  Typed'
<1>1. PICK s \in {"idle", "drop"} : Step(c, s, job[c])
  BY DEF Undo, Teardown, DeleteAccount, Ends, Goto
<1>2. /\ UNCHANGED <<db, account, signedIn, invited, restyled>> /\ stranded' = stranded
      /\ live' \subseteq live
      /\ requests' \in 0..MaxRequests /\ faults' \in 0..MaxFaults /\ broken' \subseteq Ids
  BY DEF Undo, Teardown, DeleteAccount, DeleteAccountOf, Typed, TypeOK
<1>3. s \in Steps /\ at[c] \in UsesId \ {"update"}
  BY DEF Undo, Teardown, DeleteAccount, UsesId, Steps
<1> QED
  BY <1>1, <1>2, <1>3, JobTyped, StepKeepsTyped DEF UsesId

\* What a new account changes.
LEMMA NewAccountTyped ==
  ASSUME Typed, NEW e \in Emails, Unused # {}, account' = [account EXCEPT ![Fresh] = e]
  PROVE  /\ account' \in [Ids -> Emails \union {"unused"}]
         /\ Used' = Used \union {Fresh} /\ Fresh \in Ids /\ Fresh \notin Used
  BY FreshIsUnused, Constants DEF Unused, Used, Typed, TypeOK

LEMMA ProvisionKeepsTyped ==
  ASSUME Typed, NEW c \in Clients, Provision(c)
  PROVE  Typed'
<1> DEFINE j == [job[c] EXCEPT !.id = Fresh, !.own = TRUE]
<1>1. /\ job[c] \in Job /\ job[c].email \in Emails /\ job[c].role \in Roles
  BY JobTyped DEF Provision
<1>2. /\ account' \in [Ids -> Emails \union {"unused"}]
      /\ Used' = Used \union {Fresh} /\ Fresh \in Ids
  BY <1>1, NewAccountTyped DEF Provision
<1>3. j \in Job /\ j.id = Fresh /\ j.email \in Emails /\ j.role \in Roles
  BY <1>1, <1>2 DEF Job
<1>4. Step(c, "mirror", j) /\ "mirror" \in Steps
  BY DEF Provision, Steps
<1> HIDE DEF j
<1>5. /\ at' \in [Clients -> Steps] /\ job' \in [Clients -> Job]
      /\ doubled' \subseteq Ids /\ Fitting'
  BY <1>2, <1>3, <1>4, StepTyped DEF Typed
<1>6. /\ live' = live \union {Fresh} /\ invited' = invited \union {Fresh}
      /\ UNCHANGED <<row, member, org, custom, signedIn, requests, faults, broken, stranded, restyled>>
  BY DEF Provision, db
<1>7. TypeOK'
  BY <1>2, <1>5, <1>6 DEF Typed, TypeOK
<1>8. Rows'
  BY <1>2, <1>6 DEF Typed, Rows, Nowhere
<1> QED
  BY <1>5, <1>7, <1>8 DEF Typed

\* A record that loses a role loses nothing else.
LEMMA WithoutTyped ==
  ASSUME NEW lost
  PROVE  /\ \A x \in User : /\ Without(x, lost) \in User /\ Without(x, lost) # None
                            /\ Without(x, lost).tenant = x.tenant
         /\ \A x \in Membership : /\ Without(x, lost) \in Membership /\ Without(x, lost) # None
                                  /\ Without(x, lost).role = x.role
                                  /\ Without(x, lost).owner = x.owner
         /\ Without(None, lost) = None
<1>1. ASSUME NEW x \in User
      PROVE  /\ Without(x, lost) \in User
             /\ Without(x, lost).tenant = x.tenant
  <2>1. Without(x, lost) = [x EXCEPT !.ref = IF x.ref \in lost THEN NoRole ELSE x.ref]
    BY Constants DEF Without
  <2> QED
    BY <2>1 DEF User
<1>2. ASSUME NEW x \in Membership
      PROVE  /\ Without(x, lost) \in Membership
             /\ Without(x, lost).role = x.role
             /\ Without(x, lost).owner = x.owner
  <2>1. Without(x, lost) = [x EXCEPT !.ref = IF x.ref \in lost THEN NoRole ELSE x.ref]
    BY Constants DEF Without
  <2> QED
    BY <2>1 DEF Membership
<1>3. Without(None, lost) = None
  BY DEF Without
<1> QED
  BY <1>1, <1>2, <1>3, Constants

\* People and the deletion of an organisation.
LEMMA WorldKeepsTyped ==
  ASSUME Typed,
         \/ \E t \in Tenants : HardDelete(t)
         \/ \E e \in Emails : SignUp(e)
         \/ \E i \in Ids : SignIn(i)
  PROVE  Typed'
<1>1. requests < MaxRequests => requests + 1 \in 0..MaxRequests
  BY Constants DEF Typed, TypeOK
<1>2. ASSUME NEW t \in Tenants, HardDelete(t)
      PROVE  Typed'
  <2> DEFINE lost == {t} \X (Roles \union {"custom"})
  <2> HIDE DEF lost
  <2>2. /\ org' = [org EXCEPT ![t] = "deleted"]
        /\ custom' = custom \ {t}
        /\ row' = [i \in Ids |-> IF i \in UsersOf(t) THEN None ELSE Without(row[i], lost)]
        /\ member' = [i \in Ids |-> IF i \in UsersOf(t) THEN Nowhere
                         ELSE [u \in Tenants |-> IF u = t THEN None ELSE Without(member[i][u], lost)]]
        /\ stranded' = stranded \union UsersOf(t)
        /\ requests' \in 0..MaxRequests
        /\ UNCHANGED <<account, live, signedIn, at, job, faults, doubled, broken, invited, restyled>>
    BY <1>1, <1>2 DEF HardDelete, lost, supabase
  <2>3. UsersOf(t) \subseteq Ids /\ Used' = Used
    BY <2>2 DEF UsersOf, Used
  <2>4. \A i \in Ids : /\ Without(row[i], lost) \in User \union {None}
                       /\ row[i] # None => /\ Without(row[i], lost) # None
                                           /\ Without(row[i], lost).tenant = row[i].tenant
                       /\ row[i] = None => Without(row[i], lost) = None
    BY WithoutTyped, Constants DEF Typed, TypeOK
  <2>5. \A i \in Ids, u \in Tenants : Without(member[i][u], lost) \in Membership \union {None}
    <3>1. \A i \in Ids, u \in Tenants : member[i][u] \in Membership \union {None}
      BY DEF Typed, TypeOK
    <3> QED
      BY <3>1, WithoutTyped
  <2>6. row' \in [Ids -> User \union {None}]
    BY <2>2, <2>4
  <2>7. member' \in [Ids -> [Tenants -> Membership \union {None}]]
    BY <2>2, <2>5 DEF Nowhere
  <2>8. TypeOK'
    BY <2>2, <2>3, <2>6, <2>7 DEF Typed, TypeOK
  <2>9. ASSUME NEW i \in Ids
        PROVE  /\ row'[i] # None => i \in Used' /\ org'[row'[i].tenant] # "unused"
               /\ row'[i] = None => member'[i] = Nowhere'
    <3>1. row'[i] # None => i \in Used' /\ org'[row'[i].tenant] # "unused"
      <4>1. row'[i] # None => row[i] # None /\ row'[i].tenant = row[i].tenant
        BY <2>2, <2>4
      <4>2. row[i] # None => i \in Used /\ org[row[i].tenant] # "unused" /\ row[i].tenant \in Tenants
        BY DEF Typed, TypeOK, Rows, User
      <4> QED
        BY <2>2, <2>3, <4>1, <4>2 DEF Typed, TypeOK
    <3>2. row'[i] = None => member'[i] = Nowhere
      <4>1. CASE i \in UsersOf(t)
        BY <2>2, <4>1
      <4>2. CASE i \notin UsersOf(t)
        <5>1. row'[i] = None => row[i] = None
          BY <2>2, <2>4, <4>2
        <5>2. row[i] = None => member[i] = Nowhere
          BY DEF Typed, Rows
        <5>3. member'[i] = [u \in Tenants |-> IF u = t THEN None ELSE Without(member[i][u], lost)]
          BY <2>2, <4>2
        <5> QED
          BY <5>1, <5>2, <5>3, WithoutTyped DEF Nowhere
      <4> QED
        BY <4>1, <4>2
    <3> QED
      BY <3>1, <3>2 DEF Nowhere
  <2>10. Fitting'
    BY <2>2, <2>3 DEF Typed, Fitting, Fits
  <2> QED
    BY <2>8, <2>9, <2>10 DEF Typed, Rows
<1>3. ASSUME NEW e \in Emails, SignUp(e)
      PROVE  Typed'
  <2>1. /\ account' \in [Ids -> Emails \union {"unused"}]
        /\ Used' = Used \union {Fresh} /\ Fresh \in Ids
    BY <1>3, NewAccountTyped DEF SignUp
  <2>2. /\ live' = live \union {Fresh} /\ signedIn' = signedIn \union {Fresh}
        /\ requests' \in 0..MaxRequests
        /\ UNCHANGED <<row, member, org, custom, at, job, faults, doubled, broken, invited,
                       stranded, restyled>>
    BY <1>1, <1>3 DEF SignUp, db, ghosts
  <2>3. TypeOK'
    BY <2>1, <2>2 DEF Typed, TypeOK
  <2>4. Rows' /\ Fitting'
    BY <2>1, <2>2 DEF Typed, Rows, Nowhere, Fitting, Fits
  <2> QED
    BY <2>3, <2>4 DEF Typed
<1>4. ASSUME NEW i \in Ids, SignIn(i)
      PROVE  Typed'
  <2>1. /\ signedIn' = signedIn \union {i} /\ i \in live
        /\ UNCHANGED <<row, member, org, custom, account, live, at, job, requests, faults,
                       doubled, broken, invited, stranded, restyled>>
    BY <1>4 DEF SignIn, db, ghosts
  <2>2. Used' = Used
    BY <2>1 DEF Used
  <2>3. TypeOK'
    BY <2>1, <2>2 DEF Typed, TypeOK
  <2>4. Rows' /\ Fitting'
    BY <2>1, <2>2 DEF Typed, Rows, Nowhere, Fitting, Fits
  <2> QED
    BY <2>3, <2>4 DEF Typed
<1> QED
  BY <1>2, <1>3, <1>4

\* The transaction that makes a user.
LEMMA InsertTyped ==
  ASSUME Typed, NEW j \in Job, Insertable(j), j.id \in Ids, j.email \in Emails, j.role \in Roles,
         NEW owner \in BOOLEAN, InsertUser(j, owner)
  PROVE  /\ row' \in [Ids -> User \union {None}]
         /\ member' \in [Ids -> [Tenants -> Membership \union {None}]]
         /\ row'[j.id] \in User /\ row'[j.id].tenant = j.tenant /\ org[j.tenant] = "open"
         /\ \A i \in Ids \ {j.id} : row'[i] = row[i] /\ member'[i] = member[i]
<1> DEFINE x == [tenant |-> j.tenant, email |-> j.email, role |-> j.role, ref |-> j.ref]
           m == [role |-> j.role, ref |-> j.ref, owner |-> owner]
<1>1. x \in User /\ m \in Membership /\ x.tenant = j.tenant /\ j.tenant \in Tenants
  BY DEF Job, User, Membership
<1>2. row' = [row EXCEPT ![j.id] = x] /\ member' = [member EXCEPT ![j.id][j.tenant] = m]
  BY DEF InsertUser
<1>3. org[j.tenant] = "open"
  BY DEF Insertable
<1> HIDE DEF x, m
<1>4. row \in [Ids -> User \union {None}]
      /\ member \in [Ids -> [Tenants -> Membership \union {None}]]
  BY DEF Typed, TypeOK
<1> QED
  BY <1>1, <1>2, <1>3, <1>4

\* A role as it is assigned.
LEMMA AssignedTyped ==
  ASSUME NEW j \in Job, j.role \in Roles
  PROVE  /\ \A x \in User : /\ Assigned(x, j) \in User /\ Assigned(x, j) # None
                            /\ Assigned(x, j).tenant = x.tenant
         /\ \A x \in Membership : /\ Assigned(x, j) \in Membership /\ Assigned(x, j) # None
                                  /\ Assigned(x, j).role = j.role
                                  /\ Assigned(x, j).owner = x.owner
         /\ Assigned(None, j) = None
<1>1. ASSUME NEW x \in User
      PROVE  Assigned(x, j) \in User /\ Assigned(x, j).tenant = x.tenant
  <2>1. Assigned(x, j) = [x EXCEPT !.role = j.role, !.ref = j.ref]
    BY Constants DEF Assigned
  <2> QED
    BY <2>1 DEF User, Job
<1>2. ASSUME NEW x \in Membership
      PROVE  Assigned(x, j) \in Membership /\ Assigned(x, j).role = j.role
             /\ Assigned(x, j).owner = x.owner
  <2>1. Assigned(x, j) = [x EXCEPT !.role = j.role, !.ref = j.ref]
    BY Constants DEF Assigned
  <2> QED
    BY <2>1 DEF Membership, Job
<1>3. Assigned(None, j) = None
  BY DEF Assigned
<1> QED
  BY <1>1, <1>2, <1>3, Constants

\* The steps that write rows.
LEMMA WritingKeepsTyped ==
  ASSUME Typed, NEW c \in Clients,
         \/ Mirror(c) \/ Drop(c) \/ Leave(c) \/ DeleteRow(c) \/ WriteRow(c) \/ WriteMember(c)
         \/ Store(c) \/ JoinCommit(c) \/ Organize(c) \/ DeleteRole(c)
  PROVE  Typed'
<1> DEFINE j == job[c]
<1>1. /\ at[c] \in Steps /\ j \in Job /\ j.tenant \in Tenants
      /\ at[c] \in UsesId => j.id \in Used /\ j.id \in Ids
      /\ at[c] # "update" => j.email \in Emails /\ j.role \in Roles
  BY JobTyped, UsedIds DEF Job
<1>2. /\ row \in [Ids -> User \union {None}]
      /\ member \in [Ids -> [Tenants -> Membership \union {None}]]
      /\ org \in [Tenants -> {"unused", "open", "deleted"}]
      /\ custom \subseteq Tenants /\ stranded \subseteq Ids /\ restyled \subseteq Ids
  BY DEF Typed, TypeOK
<1>3. \A i \in Ids : /\ row[i] # None => i \in Used /\ org[row[i].tenant] # "unused"
                     /\ row[i] = None => member[i] = Nowhere
  BY DEF Typed, Rows
<1>4. Nowhere \in [Tenants -> Membership \union {None}]
  BY DEF Nowhere
<1>5. \A s \in {"idle", "again", "remaining", "deleteAccount", "member"} : s \in Steps
  BY DEF Steps
<1>6. {"mirror", "drop", "leave", "deleteRow", "row", "member", "update", "join", "organize"}
         \subseteq UsesId
  BY DEF UsesId, Steps
<1>7. CASE Mirror(c) \/ JoinCommit(c)
  <2>1. /\ Insertable(j) /\ InsertUser(j, FALSE) /\ Goto(c, "idle") /\ Writes(c)
        /\ UNCHANGED <<org, custom, restyled>> /\ at[c] \in {"mirror", "join"}
    BY <1>7 DEF Mirror, JoinCommit, Ends
  <2>2. j.id \in Used /\ j.id \in Ids /\ j.email \in Emails /\ j.role \in Roles
    BY <1>1, <1>6, <2>1
  <2>3. stranded' \subseteq Ids
    BY <1>2, <1>7, <2>2 DEF Mirror, JoinCommit, Outlived
  <2> HIDE DEF j
  <2>4. /\ row' \in [Ids -> User \union {None}]
        /\ member' \in [Ids -> [Tenants -> Membership \union {None}]]
        /\ row'[j.id] \in User /\ row'[j.id].tenant = j.tenant /\ org[j.tenant] = "open"
        /\ \A i \in Ids \ {j.id} : row'[i] = row[i] /\ member'[i] = member[i]
    BY <1>1, <2>1, <2>2, InsertTyped
  <2>5. ASSUME NEW i \in Ids
        PROVE  /\ row'[i] # None => \/ row[i] # None /\ row'[i].tenant = row[i].tenant
                                    \/ i \in Used /\ org'[row'[i].tenant] # "unused"
               /\ row'[i] = None => member'[i] = Nowhere
    <3>1. CASE i = j.id
      BY <2>1, <2>2, <2>4, <3>1, Constants
    <3>2. CASE i # j.id
      BY <1>3, <2>4, <3>2
    <3> QED
      BY <3>1, <3>2
  <2> QED
    BY <1>2, <1>5, <2>1, <2>3, <2>4, <2>5, WritesKeepsTyped
<1>8. CASE Drop(c) \/ DeleteRow(c)
  <2>1. PICK s \in {"idle", "again", "deleteAccount"} : Goto(c, s)
    BY <1>8 DEF Drop, DeleteRow, Ends
  <2>2. /\ Writes(c) /\ at[c] \in {"drop", "deleteRow"}
        /\ UNCHANGED db \/ DropUsers({j.id})
        /\ stranded' \in {stranded, stranded \union {j.id}} /\ restyled' = restyled
    BY <1>8 DEF Drop, DeleteRow
  <2>3. j.id \in Ids
    BY <1>1, <1>6, <2>2
  <2> HIDE DEF j
  <2>4. org' = org /\ custom' = custom
    BY <2>2 DEF DropUsers, db
  <2>5. row' \in [Ids -> User \union {None}]
        /\ member' \in [Ids -> [Tenants -> Membership \union {None}]]
    BY <1>2, <1>4, <2>2 DEF DropUsers, db
  <2>6. ASSUME NEW i \in Ids
        PROVE  /\ row'[i] # None => row[i] # None /\ row'[i].tenant = row[i].tenant
               /\ row'[i] = None => member'[i] = Nowhere
    BY <1>3, <2>2 DEF DropUsers, db
  <2> QED
    BY <1>2, <1>5, <1>6, <2>1, <2>2, <2>3, <2>4, <2>5, <2>6, WritesKeepsTyped
<1>9. CASE Leave(c)
  <2>1. /\ Goto(c, "remaining") /\ Writes(c) /\ at[c] = "leave"
        /\ member' = [member EXCEPT ![j.id][j.tenant] = None]
        /\ UNCHANGED <<row, org, custom, stranded, restyled>>
    BY <1>9 DEF Leave
  <2>2. j.id \in Ids /\ j.tenant \in Tenants
    BY <1>1, <1>6, <2>1
  <2> HIDE DEF j
  <2>3. member' \in [Ids -> [Tenants -> Membership \union {None}]]
    BY <1>2, <2>1
  <2>4. \A i \in Ids : row[i] = None => member'[i] = Nowhere
    BY <1>2, <1>3, <2>1 DEF Nowhere
  <2> QED
    BY <1>2, <1>5, <1>6, <2>1, <2>2, <2>3, <2>4, WritesKeepsTyped
<1>10. CASE WriteRow(c)
  <2>1. /\ at[c] = "row" /\ Writes(c)
        /\ UNCHANGED <<member, org, custom, stranded, restyled>>
    BY <1>10 DEF WriteRow
  <2>2. PICK s \in {"idle", "member"} : Goto(c, s)
    BY <1>10 DEF WriteRow, Ends
  <2>3. row' = row \/ (row[j.id] # None /\ row' = [row EXCEPT ![j.id] = Assigned(@, j)])
    BY <1>10 DEF WriteRow
  <2>4. j.id \in Ids /\ j.role \in Roles /\ j \in Job
    BY <1>1, <1>6, <2>1
  <2> HIDE DEF j
  <2>5. row[j.id] # None => /\ Assigned(row[j.id], j) \in User
                            /\ Assigned(row[j.id], j).tenant = row[j.id].tenant
    BY <1>2, <2>4, AssignedTyped
  <2>6. row' \in [Ids -> User \union {None}]
    BY <1>2, <2>3, <2>5
  <2>7. ASSUME NEW i \in Ids
        PROVE  /\ row'[i] # None => row[i] # None /\ row'[i].tenant = row[i].tenant
               /\ row'[i] = None => row[i] = None
    BY <1>2, <2>3, <2>4, <2>5, Constants
  <2> QED
    BY <1>2, <1>3, <1>5, <1>6, <2>1, <2>2, <2>6, <2>7, WritesKeepsTyped
<1>11. CASE WriteMember(c)
  <2>1. /\ at[c] = "member" /\ Writes(c) /\ Goto(c, "idle")
        /\ member' = [member EXCEPT ![j.id][j.tenant] = Assigned(@, j)]
        /\ UNCHANGED <<row, org, custom, stranded, restyled>>
    BY <1>11 DEF WriteMember, Ends
  <2>2. j.id \in Ids /\ j.role \in Roles /\ j \in Job /\ j.tenant \in Tenants
    BY <1>1, <1>6, <2>1
  <2> HIDE DEF j
  <2>3. Assigned(member[j.id][j.tenant], j) \in Membership \union {None}
    BY <1>2, <2>2, AssignedTyped
  <2>4. member' \in [Ids -> [Tenants -> Membership \union {None}]]
    BY <1>2, <2>1, <2>3
  <2>5. \A i \in Ids : row[i] = None => member'[i] = Nowhere
    BY <1>2, <1>3, <2>1, AssignedTyped, <2>2 DEF Nowhere
  <2> QED
    BY <1>2, <1>5, <2>1, <2>4, <2>5, WritesKeepsTyped
<1>12. CASE Store(c)
  <2>1. /\ at[c] = "update" /\ Writes(c) /\ Goto(c, "idle")
        /\ UNCHANGED <<member, org, custom, stranded>>
        /\ restyled' \in {restyled, restyled \union {j.id}}
        /\ \/ row' = row
           \/ /\ row[j.id] # None
              /\ row' = [row EXCEPT ![j.id] = Edited(@, j)]
    BY <1>12 DEF Store, Ends
  <2>2. j.id \in Ids /\ j.role \in Roles \union {Kept} /\ j.email \in Emails \union {Kept}
    BY <1>1, <1>6, <2>1 DEF Job
  <2> DEFINE x == Edited(row[j.id], j)
  <2>3. row[j.id] # None => x \in User /\ x.tenant = row[j.id].tenant
    <3>1. \A new \in Roles \union {Kept}, old \in Roles : Given(new, old) \in Roles
      BY DEF Given
    <3>2. \A new \in Emails \union {Kept}, old \in Emails : Given(new, old) \in Emails
      BY DEF Given
    <3> HIDE DEF j
    <3> QED
      BY <1>2, <2>2, <3>1, <3>2 DEF User, Edited
  <2> HIDE DEF j
  <2>4. row' = row \/ (row[j.id] # None /\ row' = [row EXCEPT ![j.id] = x])
    BY <2>1
  <2> HIDE DEF x
  <2>5. row' \in [Ids -> User \union {None}]
    BY <1>2, <2>3, <2>4
  <2>6. ASSUME NEW i \in Ids
        PROVE  /\ row'[i] # None => row[i] # None /\ row'[i].tenant = row[i].tenant
               /\ row'[i] = None => row[i] = None
    BY <1>2, <2>2, <2>3, <2>4, Constants
  <2> QED
    BY <1>2, <1>3, <1>5, <2>1, <2>2, <2>5, <2>6, WritesKeepsTyped
<1>13. CASE Organize(c)
  <2> DEFINE ref == <<j.tenant, "ADMIN">>
             new == [tenant |-> j.tenant, email |-> j.email, role |-> "ADMIN", ref |-> ref]
             x == IF row[j.id] = None THEN new ELSE [row[j.id] EXCEPT !.ref = ref]
  <2>1. /\ at[c] = "organize" /\ Writes(c) /\ Goto(c, "idle")
        /\ UNCHANGED <<custom, restyled>> /\ stranded' = Outlived(j.id)
        /\ org' = [org EXCEPT ![j.tenant] = "open"]
        /\ member' = [member EXCEPT ![j.id][j.tenant] = Owner(j.tenant)]
    BY <1>13 DEF Organize, Ends
  <2>2. j.id \in Used /\ j.id \in Ids /\ j \in Job /\ j.tenant \in Tenants /\ j.email \in Emails
    BY <1>1, <1>6, <2>1
  <2>3. ref \in AnyRole
    BY <2>2, RolesTyped
  <2>4. row' = [row EXCEPT ![j.id] = x]
    BY <1>2, <1>13, <2>2 DEF Organize
  <2>5. stranded' \subseteq Ids
    BY <1>2, <2>1, <2>2 DEF Outlived
  <2>6. Owner(j.tenant) \in Membership
    BY <2>3 DEF Owner, Membership, Roles
  <2> HIDE DEF j, ref
  <2>7. /\ x \in User
        /\ row[j.id] = None => x.tenant = j.tenant
        /\ row[j.id] # None => x.tenant = row[j.id].tenant
    BY <1>2, <2>2, <2>3 DEF User, Roles
  <2> HIDE DEF x, new
  <2>8. row' \in [Ids -> User \union {None}]
        /\ member' \in [Ids -> [Tenants -> Membership \union {None}]]
    BY <1>2, <2>1, <2>2, <2>4, <2>6, <2>7
  <2>9. org' \in [Tenants -> {"unused", "open", "deleted"}] /\ org'[j.tenant] = "open"
        /\ \A t \in Tenants : org'[t] = "unused" => org[t] = "unused"
    BY <1>2, <2>1, <2>2
  <2>10. ASSUME NEW i \in Ids
         PROVE  /\ row'[i] # None => \/ row[i] # None /\ row'[i].tenant = row[i].tenant
                                     \/ i \in Used /\ org'[row'[i].tenant] # "unused"
                /\ row'[i] = None => member'[i] = Nowhere
    <3>1. CASE i = j.id
      BY <1>2, <2>2, <2>4, <2>7, <2>9, <3>1, Constants
    <3>2. CASE i # j.id
      <4>1. row'[i] = row[i] /\ member'[i] = member[i]
        BY <1>2, <2>1, <2>4, <3>2
      <4> QED
        BY <1>3, <4>1
    <3> QED
      BY <3>1, <3>2
  <2> QED
    BY <1>2, <1>5, <2>1, <2>5, <2>8, <2>9, <2>10, WritesKeepsTyped
<1>14. CASE DeleteRole(c)
  <2> DEFINE lost == {<<j.tenant, "custom">>}
  <2>1. /\ Writes(c) /\ Goto(c, "idle") /\ UNCHANGED <<org, stranded, restyled>>
        /\ custom' = custom \ {j.tenant}
        /\ row' = [i \in Ids |-> Without(row[i], lost)]
        /\ member' = [i \in Ids |-> [u \in Tenants |-> Without(member[i][u], lost)]]
    BY <1>14 DEF DeleteRole, Ends
  <2> HIDE DEF j, lost
  <2>2. \A i \in Ids : /\ Without(row[i], lost) \in User \union {None}
                       /\ row[i] # None => /\ Without(row[i], lost) # None
                                           /\ Without(row[i], lost).tenant = row[i].tenant
                       /\ row[i] = None => Without(row[i], lost) = None
    BY <1>2, WithoutTyped, Constants
  <2>3. \A i \in Ids, u \in Tenants : Without(member[i][u], lost) \in Membership \union {None}
    <3>1. \A i \in Ids, u \in Tenants : member[i][u] \in Membership \union {None}
      BY <1>2
    <3> QED
      BY <3>1, WithoutTyped
  <2>4. row' \in [Ids -> User \union {None}]
        /\ member' \in [Ids -> [Tenants -> Membership \union {None}]]
        /\ custom' \subseteq Tenants
    BY <1>2, <2>1, <2>2, <2>3
  <2>5. ASSUME NEW i \in Ids
        PROVE  /\ row'[i] # None => row[i] # None /\ row'[i].tenant = row[i].tenant
               /\ row'[i] = None => member'[i] = Nowhere
    <3>1. row'[i] = Without(row[i], lost)
          /\ member'[i] = [u \in Tenants |-> Without(member[i][u], lost)]
      BY <2>1
    <3>2. row'[i] = None => member[i] = Nowhere
      BY <1>3, <2>2, <3>1
    <3> QED
      BY <2>2, <3>1, <3>2, WithoutTyped DEF Nowhere
  <2> QED
    BY <1>2, <1>5, <2>1, <2>4, <2>5, WritesKeepsTyped
<1> QED
  BY <1>7, <1>8, <1>9, <1>10, <1>11, <1>12, <1>13, <1>14

LEMMA NextKeepsTyped == Typed /\ [Next]_vars => Typed'
<1> SUFFICES ASSUME Typed, [Next]_vars
             PROVE  Typed'
  OBVIOUS
<1>1. ASSUME NEW c \in Clients, Request(c)
      PROVE  Typed'
  BY <1>1, RequestKeepsTyped
<1>2. ASSUME NEW c \in Clients, Continue(c)
      PROVE  Typed'
  BY <1>2, ReadingKeepsTyped, DeletingKeepsTyped, ProvisionKeepsTyped, WritingKeepsTyped
     DEF Continue
<1>3. CASE \/ \E t \in Tenants : HardDelete(t)
           \/ \E e \in Emails : SignUp(e)
           \/ \E i \in Ids : SignIn(i)
  BY <1>3, WorldKeepsTyped
<1>4. CASE UNCHANGED vars
  <2>1. UNCHANGED <<row, member, org, custom, account, live, signedIn, at, job, requests,
                    faults, doubled, broken, invited, stranded, restyled>>
    BY <1>4 DEF vars, db, supabase, ghosts
  <2>2. Used' = Used
    BY <2>1 DEF Used
  <2>3. TypeOK' /\ Rows' /\ Fitting'
    BY <2>1, <2>2 DEF Typed, TypeOK, Rows, Nowhere, Fitting, Fits
  <2> QED
    BY <2>3 DEF Typed
<1> QED
  BY <1>1, <1>2, <1>3, <1>4 DEF Next

\* Every request and record is of its type, whatever interleaves and fails.
THEOREM AccountsTypeCorrect == Spec => []TypeOK
<1>1. Typed => TypeOK
  BY DEF Typed
<1> QED
  BY <1>1, TypedInitially, NextKeepsTyped, PTL DEF Spec

----------------------------------------------------------------------------
(* What the steps of requests do to the records. *)

Reading(c) ==
    \/ Lookup(c) \/ LookupFails(c) \/ Attach(c) \/ ProvisionRefused(c)
    \/ MirrorRefused(c) \/ MirrorFails(c) \/ UndoFails(c)
    \/ Status(c) \/ StatusFails(c) \/ Count(c) \/ TeardownFails(c) \/ DropFails(c)
    \/ Again(c) \/ Remaining(c) \/ RemoveThrows(c) \/ DeleteAccountFails(c)
    \/ WriteMemberRefused(c) \/ WriteMemberFails(c) \/ JoinRefused(c) \/ FirstWriteFails(c)
    \/ Undo(c) \/ Teardown(c) \/ DeleteAccount(c) \/ Provision(c)

Writing(c) ==
    \/ Mirror(c) \/ Drop(c) \/ Leave(c) \/ DeleteRow(c) \/ WriteRow(c) \/ WriteMember(c)
    \/ Store(c) \/ JoinCommit(c) \/ Organize(c) \/ DeleteRole(c)

LEMMA ReadOrWrite ==
  ASSUME NEW c \in Clients, Continue(c)
  PROVE  Reading(c) \/ Writing(c)
  BY DEF Continue, Reading, Writing

LEMMA ReadingLeavesRows ==
  ASSUME NEW c \in Clients, Reading(c)
  PROVE  UNCHANGED db /\ stranded' = stranded
  BY DEF Reading, Lookup, LookupFails, Attach, ProvisionRefused, MirrorRefused, MirrorFails,
     UndoFails, Status, StatusFails, Count, TeardownFails, DropFails, Again, Remaining,
     RemoveThrows, DeleteAccountFails, WriteMemberRefused, WriteMemberFails, JoinRefused,
     FirstWriteFails, Undo, Teardown, DeleteAccount, Provision, DeleteAccountOf,
     Reads, Fails, Throws, ThrowsAmid

LEMMA WritingLeavesAccounts ==
  ASSUME NEW c \in Clients, Writing(c)
  PROVE  UNCHANGED <<account, live, signedIn, invited, broken>> /\ stranded \subseteq stranded'
  BY DEF Writing, Mirror, Drop, Leave, DeleteRow, WriteRow, WriteMember, Store, JoinCommit,
     Organize, DeleteRole, Writes, supabase, Outlived

\* A row goes by reinvite or remove.
LEMMA RowGoes ==
  ASSUME Typed, NEW c \in Clients, Continue(c), NEW i \in Ids, row[i] # None, row'[i] = None
  PROVE  i = job[c].id /\ (Drop(c) \/ DeleteRow(c))
<1> DEFINE j == job[c]
<1>1. /\ at[c] \in Steps /\ j \in Job /\ j.tenant \in Tenants
      /\ at[c] \in UsesId => j.id \in Used /\ j.id \in Ids
      /\ at[c] # "update" => j.email \in Emails /\ j.role \in Roles
  BY JobTyped, UsedIds DEF Job
<1>2. row \in [Ids -> User \union {None}]
  BY DEF Typed, TypeOK
<1>3. CASE Reading(c) \/ Leave(c) \/ WriteMember(c)
  BY <1>3, ReadingLeavesRows DEF Leave, WriteMember, db
<1>4. CASE Drop(c) \/ DeleteRow(c)
  BY <1>2, <1>4 DEF Drop, DeleteRow, DropUsers, db
<1>5. CASE Mirror(c) \/ JoinCommit(c)
  <2>1. Insertable(j) /\ InsertUser(j, FALSE) /\ at[c] \in {"mirror", "join"}
    BY <1>5 DEF Mirror, JoinCommit
  <2>2. j.id \in Ids /\ j.email \in Emails /\ j.role \in Roles
    BY <1>1, <2>1 DEF UsesId, Steps
  <2> HIDE DEF j
  <2> QED
    BY <1>1, <2>1, <2>2, InsertTyped, Constants
<1>6. CASE Organize(c)
  <2>1. j.id \in Ids /\ j.email \in Emails
    BY <1>1, <1>6 DEF UsesId, Steps, Organize
  <2>2. row[i] \in User /\ row[i] # None
    BY <1>2
  <2>3. row'[i] = row[i] \/ row'[i] = [row[i] EXCEPT !.ref = <<j.tenant, "ADMIN">>]
    BY <1>2, <1>6, <2>1 DEF Organize
  <2>4. [row[i] EXCEPT !.ref = <<j.tenant, "ADMIN">>] \in User
    BY <1>1, <2>2, RolesTyped DEF User
  <2> QED
    BY <2>2, <2>3, <2>4, Constants
<1>7. CASE WriteRow(c)
  <2>1. j.id \in Ids /\ j.role \in Roles
    BY <1>1, <1>7 DEF UsesId, Steps, WriteRow
  <2>2. row'[i] \in {row[i], Assigned(row[i], j)}
    BY <1>2, <1>7, <2>1 DEF WriteRow
  <2> QED
    BY <1>1, <1>2, <2>1, <2>2, AssignedTyped
<1>8. CASE Store(c)
  <2>1. j.id \in Ids
    BY <1>1, <1>8 DEF UsesId, Steps, Store
  <2>2. row'[i] \in {row[i], Edited(row[i], j)}
    BY <1>2, <1>8, <2>1 DEF Store
  <2>3. Edited(row[i], j).tenant = row[i].tenant /\ Edited(row[i], j) # None
    <3>1. row[i] \in User /\ j.role \in Roles \union {Kept} /\ j.email \in Emails \union {Kept}
      BY <1>1, <1>2 DEF Job
    <3>2. \A new \in Roles \union {Kept}, old \in Roles : Given(new, old) \in Roles
      BY DEF Given
    <3>3. \A new \in Emails \union {Kept}, old \in Emails : Given(new, old) \in Emails
      BY DEF Given
    <3> HIDE DEF j
    <3>4. Edited(row[i], j) \in User /\ Edited(row[i], j).tenant = row[i].tenant
      BY <3>1, <3>2, <3>3 DEF User, Edited
    <3> QED
      BY <3>4, Constants
  <2> QED
    BY <2>2, <2>3
<1>9. CASE DeleteRole(c)
  <2>1. row'[i] = Without(row[i], {<<j.tenant, "custom">>})
    BY <1>9 DEF DeleteRole
  <2> QED
    BY <1>2, <2>1, WithoutTyped
<1> QED
  BY <1>3, <1>4, <1>5, <1>6, <1>7, <1>8, <1>9, ReadOrWrite DEF Writing

----------------------------------------------------------------------------
(* Accounts without a row.  The request that is to take an account back is *)
(* the one that made it, or the removal that deleted the row; a            *)
(* reinvitation deletes the account, or fails to, before the row.          *)

Cleaning(c, i) ==
    /\ job[c].id = i
    /\ at[c] \in {"undo", "deleteAccount"} \/ (at[c] = "mirror" /\ job[c].own)

Watched ==
    \A i \in invited \intersect live : row[i] = None =>
        i \in broken \union stranded \/ \E c \in Clients : Cleaning(c, i)

TornDown == \A c \in Clients : at[c] = "drop" => job[c].id \notin live \/ job[c].id \in broken

\* The histories only grow.
LEMMA HistoriesGrow ==
  ASSUME Next
  PROVE  broken \subseteq broken' /\ stranded \subseteq stranded'
<1>1. ASSUME NEW c \in Clients, Request(c)
      PROVE  UNCHANGED <<broken, stranded>>
  BY <1>1 DEF Request, Create, Invite, Reinvite, Remove, ChangeRole, Update, Join,
     CreateOrganization, RemoveRole, Arrives
<1>2. ASSUME NEW c \in Clients, Reading(c)
      PROVE  broken \subseteq broken' /\ stranded \subseteq stranded'
  BY <1>2 DEF Reading, Lookup, LookupFails, Attach, ProvisionRefused, MirrorRefused, MirrorFails,
     UndoFails, Status, StatusFails, Count, TeardownFails, DropFails, Again, Remaining,
     RemoveThrows, DeleteAccountFails, WriteMemberRefused, WriteMemberFails, JoinRefused,
     FirstWriteFails, Undo, Teardown, DeleteAccount, Provision, DeleteAccountOf,
     Reads, Fails, Throws, ThrowsAmid
<1>3. ASSUME NEW c \in Clients, Writing(c)
      PROVE  broken \subseteq broken' /\ stranded \subseteq stranded'
  BY <1>3, WritingLeavesAccounts
<1>4. ASSUME NEW t \in Tenants, HardDelete(t)
      PROVE  broken \subseteq broken' /\ stranded \subseteq stranded'
  BY <1>4 DEF HardDelete
<1>5. ASSUME NEW e \in Emails, SignUp(e)
      PROVE  broken \subseteq broken' /\ stranded \subseteq stranded'
  BY <1>5 DEF SignUp, ghosts
<1>6. ASSUME NEW i \in Ids, SignIn(i)
      PROVE  broken \subseteq broken' /\ stranded \subseteq stranded'
  BY <1>6 DEF SignIn, ghosts
<1> QED
  BY <1>1, <1>2, <1>3, <1>4, <1>5, <1>6, ReadOrWrite DEF Next

\* A request moves only itself.
LEMMA OthersStay ==
  ASSUME Typed, NEW c \in Clients, Request(c) \/ Continue(c), NEW d \in Clients, d # c
  PROVE  at'[d] = at[d] /\ job'[d] = job[d]
<1>1. \E s, j : Step(c, s, j)
  <2>1. CASE Request(c)
    BY <2>1 DEF Request, Create, Invite, Reinvite, Remove, ChangeRole, Update, Join,
       CreateOrganization, RemoveRole, Arrives
  <2>2. CASE Reading(c)
    BY <2>2 DEF Reading, Lookup, LookupFails, Attach, ProvisionRefused, MirrorRefused, MirrorFails,
       UndoFails, Status, StatusFails, Count, TeardownFails, DropFails, Again, Remaining,
       RemoveThrows, DeleteAccountFails, WriteMemberRefused, WriteMemberFails, JoinRefused,
       FirstWriteFails, Undo, Teardown, DeleteAccount, Provision, Goto, Ends, Undoes,
       Throws, ThrowsAmid
  <2>3. CASE Writing(c)
    BY <2>3 DEF Writing, Mirror, Drop, Leave, DeleteRow, WriteRow, WriteMember, Store, JoinCommit,
       Organize, DeleteRole, Goto, Ends
  <2> QED
    BY <2>1, <2>2, <2>3, ReadOrWrite
<1> QED
  BY <1>1 DEF Step, Typed, TypeOK

\* Who is to clean up goes on until the account or its row is there no more,
\* or a call has failed.
LEMMA CleaningGoesOn ==
  ASSUME Typed, NEW c \in Clients, Continue(c), NEW i \in Ids, Cleaning(c, i)
  PROVE  i \notin live' \/ row'[i] # None \/ i \in broken' \/ Cleaning(c, i)'
<1>1. CASE at[c] = "undo"
  <2>1. Undo(c) \/ UndoFails(c)
    BY <1>1 DEF Continue, Lookup, LookupFails, Attach, ProvisionRefused, MirrorRefused, MirrorFails,
     Status, StatusFails, Count, TeardownFails, DropFails, Again, Remaining,
     RemoveThrows, DeleteAccountFails, WriteMemberRefused, WriteMemberFails, JoinRefused,
     FirstWriteFails, Teardown, DeleteAccount, Provision,
     Mirror, Drop, Leave, DeleteRow, WriteRow, WriteMember, Store, JoinCommit,
     Organize, DeleteRole
  <2> QED
    BY <2>1 DEF Undo, UndoFails, DeleteAccountOf, ThrowsAmid, Fails, Cleaning
<1>2. CASE at[c] = "deleteAccount"
  <2>1. DeleteAccount(c) \/ DeleteAccountFails(c)
    BY <1>2 DEF Continue, Lookup, LookupFails, Attach, ProvisionRefused, MirrorRefused, MirrorFails,
     Status, StatusFails, Count, TeardownFails, DropFails, Again, Remaining,
     RemoveThrows, Undo, UndoFails, WriteMemberRefused, WriteMemberFails, JoinRefused,
     FirstWriteFails, Teardown, Provision,
     Mirror, Drop, Leave, DeleteRow, WriteRow, WriteMember, Store, JoinCommit,
     Organize, DeleteRole
  <2> QED
    BY <2>1 DEF DeleteAccount, DeleteAccountFails, DeleteAccountOf, ThrowsAmid, Fails, Cleaning
<1>3. CASE at[c] = "mirror" /\ job[c].own
  <2>1. Mirror(c) \/ MirrorRefused(c) \/ MirrorFails(c)
    BY <1>3 DEF Continue, Lookup, LookupFails, Attach, ProvisionRefused,
     Status, StatusFails, Count, TeardownFails, DropFails, Again, Remaining,
     RemoveThrows, Undo, UndoFails, WriteMemberRefused, WriteMemberFails, JoinRefused,
     FirstWriteFails, Teardown, Provision, DeleteAccount, DeleteAccountFails,
     Drop, Leave, DeleteRow, WriteRow, WriteMember, Store, JoinCommit,
     Organize, DeleteRole
  <2>2. CASE MirrorRefused(c) \/ MirrorFails(c)
    <3>1. Goto(c, "undo")
      BY <1>3, <2>2 DEF MirrorRefused, MirrorFails, Undoes
    <3>2. at'[c] = "undo" /\ job'[c] = job[c]
      BY <3>1 DEF Goto, Step, Typed, TypeOK
    <3> QED
      BY <3>2 DEF Cleaning
  <2>3. CASE Mirror(c)
    <3> DEFINE j == job[c]
    <3>1. j \in Job /\ j.id = i /\ j.email \in Emails /\ j.role \in Roles
          /\ Insertable(j) /\ InsertUser(j, FALSE)
      BY <1>3, <2>3, JobTyped DEF Mirror, Cleaning
    <3> HIDE DEF j
    <3> QED
      BY <3>1, InsertTyped, Constants
  <2> QED
    BY <2>1, <2>2, <2>3
<1> QED
  BY <1>1, <1>2, <1>3 DEF Cleaning

\* A reinvitation drops the rows right after it tore down the account.
LEMMA DropsAfterTeardown ==
  ASSUME Typed, NEW c \in Clients, Request(c) \/ Continue(c), at'[c] = "drop"
  PROVE  Teardown(c) \/ TeardownFails(c)
<1>1. \A s, j : Step(c, s, j) => at'[c] = s
  BY DEF Step, Typed, TypeOK
<1>2. CASE Request(c)
  BY <1>1, <1>2 DEF Request, Create, Invite, Reinvite, Remove, ChangeRole, Update, Join,
     CreateOrganization, RemoveRole, Arrives
<1>3. CASE Reading(c)
  BY <1>1, <1>3 DEF Reading, Lookup, LookupFails, Attach, ProvisionRefused, MirrorRefused,
     MirrorFails, UndoFails, Status, StatusFails, Count, DropFails, Again, Remaining,
     RemoveThrows, DeleteAccountFails, WriteMemberRefused, WriteMemberFails, JoinRefused,
     FirstWriteFails, Undo, DeleteAccount, Provision, Goto, Ends, Undoes, Throws, ThrowsAmid
<1>4. CASE Writing(c)
  BY <1>1, <1>4 DEF Writing, Mirror, Drop, Leave, DeleteRow, WriteRow, WriteMember, Store,
     JoinCommit, Organize, DeleteRole, Goto, Ends
<1> QED
  BY <1>2, <1>3, <1>4, ReadOrWrite

\* Accounts appear by Provision and SignUp alone, under an id never used.
LEMMA AccountsAppear ==
  ASSUME Typed, Next
  PROVE  \/ live' \subseteq live /\ invited' = invited
         \/ \E c \in Clients : Provision(c)
         \/ \E e \in Emails : SignUp(e)
<1>1. ASSUME NEW c \in Clients, Request(c)
      PROVE  live' = live /\ invited' = invited
  BY <1>1 DEF Request, Create, Invite, Reinvite, Remove, ChangeRole, Update, Join,
     CreateOrganization, RemoveRole, Arrives, supabase
<1>2. ASSUME NEW c \in Clients, Reading(c), ~Provision(c)
      PROVE  live' \subseteq live /\ invited' = invited
  BY <1>2 DEF Reading, Lookup, LookupFails, Attach, ProvisionRefused, MirrorRefused,
     MirrorFails, UndoFails, Status, StatusFails, Count, TeardownFails, DropFails, Again,
     Remaining, RemoveThrows, DeleteAccountFails, WriteMemberRefused, WriteMemberFails,
     JoinRefused, FirstWriteFails, Undo, Teardown, DeleteAccount, DeleteAccountOf,
     Reads, Fails, Throws, ThrowsAmid, supabase
<1>3. ASSUME NEW c \in Clients, Writing(c)
      PROVE  live' = live /\ invited' = invited
  BY <1>3, WritingLeavesAccounts
<1>4. ASSUME \/ \E t \in Tenants : HardDelete(t)
             \/ \E i \in Ids : SignIn(i)
      PROVE  live' = live /\ invited' = invited
  BY <1>4 DEF HardDelete, SignIn, supabase, ghosts
<1> QED
  BY <1>1, <1>2, <1>3, <1>4, ReadOrWrite DEF Next

LEMMA NextKeepsTornDown ==
  ASSUME Typed, TornDown, Next
  PROVE  TornDown'
<1> SUFFICES ASSUME NEW d \in Clients, at'[d] = "drop"
             PROVE  job'[d].id \notin live' \/ job'[d].id \in broken'
  BY DEF TornDown
<1>1. CASE at[d] = "drop" /\ job'[d] = job[d]
  <2>1. job[d].id \notin live \/ job[d].id \in broken'
    BY <1>1, HistoriesGrow DEF TornDown
  <2>2. job[d].id \in Used
    BY <1>1, JobTyped DEF UsesId, Steps
  <2>3. Unused # {} => Fresh \notin Used
    BY FreshIsUnused DEF Unused
  <2>4. \A i \in Used : i \notin live => i \notin live'
    <3>1. CASE live' \subseteq live
      BY <3>1
    <3>2. CASE \E c \in Clients : Provision(c)
      BY <2>3, <3>2 DEF Provision
    <3>3. CASE \E e \in Emails : SignUp(e)
      BY <2>3, <3>3 DEF SignUp
    <3> QED
      BY <3>1, <3>2, <3>3, AccountsAppear
  <2> QED
    BY <1>1, <2>1, <2>2, <2>4
<1>2. CASE ~(at[d] = "drop" /\ job'[d] = job[d])
  <2>1. PICK c \in Clients : Request(c) \/ Continue(c)
    <3>1. CASE \/ \E t \in Tenants : HardDelete(t)
               \/ \E e \in Emails : SignUp(e)
               \/ \E i \in Ids : SignIn(i)
      BY <1>2, <3>1 DEF HardDelete, SignUp, SignIn
    <3> QED
      BY <3>1 DEF Next
  <2>2. c = d
    BY <1>2, <2>1, OthersStay
  <2>3. Teardown(d) \/ TeardownFails(d)
    BY <2>1, <2>2, DropsAfterTeardown
  <2>4. job'[d] = job[d]
    BY <2>3 DEF Teardown, TeardownFails, Goto, Step, Typed, TypeOK
  <2> QED
    BY <2>3, <2>4 DEF Teardown, TeardownFails, DeleteAccountOf, Fails
<1> QED
  BY <1>1, <1>2

LEMMA NextKeepsWatched ==
  ASSUME Typed, TornDown, Watched, Next
  PROVE  Watched'
<1> SUFFICES ASSUME NEW i \in invited' \intersect live', row'[i] = None,
                    i \notin broken' \union stranded'
             PROVE  \E c \in Clients : Cleaning(c, i)'
  BY DEF Watched
<1>1. i \notin broken \union stranded
  BY HistoriesGrow
<1>2. CASE i \in invited \intersect live /\ row[i] = None
  <2>1. PICK d \in Clients : Cleaning(d, i)
    BY <1>1, <1>2 DEF Watched
  <2>2. i \in Ids
    BY <1>2, UsedIds DEF Typed, TypeOK
  <2>3. CASE \E c \in Clients : Request(c) \/ Continue(c)
    <3>1. PICK c \in Clients : Request(c) \/ Continue(c)
      BY <2>3
    <3>2. CASE c # d
      BY <2>1, <3>1, <3>2, OthersStay DEF Cleaning
    <3>3. CASE c = d /\ Continue(c)
      BY <2>1, <2>2, <3>3, CleaningGoesOn
    <3>4. CASE c = d /\ Request(c)
      BY <2>1, <3>4 DEF Cleaning, Request, Create, Invite, Reinvite, Remove, ChangeRole,
         Update, Join, CreateOrganization, RemoveRole, Arrives
    <3> QED
      BY <3>1, <3>2, <3>3, <3>4
  <2>4. CASE \/ \E t \in Tenants : HardDelete(t)
             \/ \E e \in Emails : SignUp(e)
             \/ \E k \in Ids : SignIn(k)
    <3>1. UNCHANGED <<at, job>>
      BY <2>4 DEF HardDelete, SignUp, SignIn
    <3> QED
      BY <2>1, <3>1 DEF Cleaning
  <2> QED
    BY <2>3, <2>4 DEF Next
<1>3. CASE i \in invited \intersect live /\ row[i] # None
  <2>1. i \in Ids
    BY <1>3, UsedIds DEF Typed, TypeOK
  <2>2. CASE \E c \in Clients : Continue(c)
    <3>1. PICK c \in Clients : Continue(c)
      BY <2>2
    <3>2. i = job[c].id /\ (Drop(c) \/ DeleteRow(c))
      BY <1>3, <2>1, <3>1, RowGoes
    <3>3. ~Drop(c)
      <4>1. CASE Drop(c)
        <5>1. i \notin live \/ i \in broken
          BY <3>2, <4>1 DEF Drop, TornDown
        <5> QED
          BY <1>1, <1>3, <5>1
      <4> QED
        BY <4>1
    <3>4. Goto(c, "deleteAccount")
      BY <1>3, <3>2, <3>3 DEF DeleteRow
    <3>5. at'[c] = "deleteAccount" /\ job'[c] = job[c]
      BY <3>4 DEF Goto, Step, Typed, TypeOK
    <3> QED
      BY <3>2, <3>5 DEF Cleaning
  <2>3. CASE \E t \in Tenants : HardDelete(t)
    <3>1. PICK t \in Tenants : HardDelete(t)
      BY <2>3
    <3>2. i \notin UsersOf(t)
      BY <3>1 DEF HardDelete
    <3>3. row'[i] = Without(row[i], {t} \X (Roles \union {"custom"}))
      BY <2>1, <3>1, <3>2 DEF HardDelete
    <3>4. row[i] \in User
      BY <1>3, <2>1 DEF Typed, TypeOK
    <3> QED
      BY <3>3, <3>4, WithoutTyped
  <2>4. ASSUME NEW c \in Clients, Request(c)
        PROVE  row' = row
    BY <2>4 DEF Request, Create, Invite, Reinvite, Remove, ChangeRole,
         Update, Join, CreateOrganization, RemoveRole, Arrives, db
  <2>5. ASSUME \/ \E e \in Emails : SignUp(e)
               \/ \E k \in Ids : SignIn(k)
        PROVE  row' = row
    BY <2>5 DEF SignUp, SignIn, db
  <2> QED
    BY <1>3, <2>2, <2>3, <2>4, <2>5 DEF Next
<1>4. CASE i \notin invited \intersect live
  <2>1. CASE \E c \in Clients : Provision(c)
    <3>1. PICK c \in Clients : Provision(c)
      BY <2>1
    <3>2. i = Fresh
      BY <1>4, <3>1, FreshIsUnused DEF Provision, Unused, Typed, TypeOK
    <3>3. at'[c] = "mirror" /\ job'[c] = [job[c] EXCEPT !.id = Fresh, !.own = TRUE]
      BY <3>1 DEF Provision, Step, Typed, TypeOK
    <3>4. job[c] \in Job
      BY JobTyped
    <3>5. job'[c].id = Fresh /\ job'[c].own = TRUE
      BY <3>3, <3>4 DEF Job
    <3> QED
      BY <3>2, <3>3, <3>5 DEF Cleaning
  <2>2. CASE \E e \in Emails : SignUp(e)
    <3>1. PICK e \in Emails : SignUp(e)
      BY <2>2
    <3>2. i = Fresh /\ i \in invited /\ Fresh \notin Used
      BY <1>4, <3>1, FreshIsUnused DEF SignUp, ghosts, Unused
    <3> QED
      BY <3>2 DEF Typed, TypeOK
  <2> QED
    BY <1>4, <2>1, <2>2, AccountsAppear
<1> QED
  BY <1>2, <1>3, <1>4

\* create 178-184, invite 618-624, remove 443-462, reinvite 655-700: no account
\* an administrator made is left without User row for good, whatever the
\* requests that cross, unless a deletion failed, the organisation was
\* deleted, or a removal saw another membership.
THEOREM NoOrphansRemain == Spec => []NoOrphans
<1> DEFINE Inv == Typed /\ TornDown /\ Watched
<1>1. Init => Inv
  <2> SUFFICES ASSUME Init
               PROVE  TornDown /\ Watched
    BY TypedInitially
  <2> QED
    BY DEF Init, TornDown, Watched
<1>2. Inv /\ [Next]_vars => Inv'
  <2> SUFFICES ASSUME Typed, TornDown, Watched, [Next]_vars
               PROVE  TornDown' /\ Watched'
    BY NextKeepsTyped
  <2>1. CASE Next
    BY <2>1, NextKeepsTornDown, NextKeepsWatched
  <2>2. CASE UNCHANGED vars
    BY <2>2 DEF vars, db, supabase, ghosts, TornDown, Watched, Cleaning
  <2> QED
    BY <2>1, <2>2
<1>3. Inv => NoOrphans
  BY DEF Watched, NoOrphans, Cleaning, Working
<1> QED
  BY <1>1, <1>2, <1>3, PTL DEF Spec

----------------------------------------------------------------------------
(* Owners.  An owner has signed in, which reinvite looks at; a request that *)
(* takes something away has seen that its person owns nothing here, and no *)
(* organisation that a request works in can be founded meanwhile.          *)

IsOwner(i, t) == member[i][t] # None /\ member[i][t].owner

OwnersKnown ==
    \A i \in Ids, t \in Tenants : IsOwner(i, t) =>
        i \in signedIn /\ org[t] # "unused" /\ member[i][t].role = "ADMIN"

Taking == {"count", "teardown", "drop", "leave", "remaining", "deleteRow", "row", "member"}

Warned ==
    \A c \in Clients :
        /\ at[c] \in Taking \union {"status"} => org[job[c].tenant] # "unused"
        /\ at[c] \in Taking /\ IsOwner(job[c].id, job[c].tenant) =>
              /\ at[c] \notin {"leave", "remaining", "deleteRow"}
              /\ at[c] \in {"count", "teardown", "drop"} => job[c].flag
              /\ at[c] \in {"row", "member"} => job[c].role = "ADMIN"

\* A membership keeps what makes an owner.
Alike(m, n) == (m = None <=> n = None) /\ (m # None => n.owner = m.owner /\ n.role = m.role)

\* What the request that c handles may do to i's membership of t.
Moves(c, i, t) ==
    \/ /\ at[c] \in {"mirror", "join"} /\ row[i] = None
       /\ ~IsOwner(i, t)'
    \/ at[c] \in {"drop", "deleteRow"} /\ member'[i][t] = None
    \/ at[c] = "leave" /\ t = job[c].tenant /\ member'[i][t] = None
    \/ /\ at[c] = "member" /\ t = job[c].tenant /\ member[i][t] # None
       /\ member'[i][t] # None /\ member'[i][t].owner = member[i][t].owner
       /\ member'[i][t].role = job[c].role
    \/ /\ at[c] = "organize" /\ t = job[c].tenant /\ org[t] = "unused"
       /\ org'[t] = "open" /\ member'[i][t] = Owner(t)

LEMMA WithoutAlike ==
  ASSUME NEW lost, NEW m \in Membership \union {None}
  PROVE  Alike(m, Without(m, lost))
<1>1. CASE m = None
  BY <1>1, WithoutTyped DEF Alike
<1>2. CASE m # None
  <2>1. m \in Membership
    BY <1>2
  <2>2. Without(m, lost) # None /\ Without(m, lost).role = m.role /\ Without(m, lost).owner = m.owner
    BY <2>1, WithoutTyped
  <2> QED
    BY <1>2, <2>2 DEF Alike
<1> QED
  BY <1>1, <1>2

\* What a step of a request may do to a membership.
LEMMA MembershipMoves ==
  ASSUME Typed, NEW c \in Clients, Continue(c), NEW i \in Ids, NEW t \in Tenants
  PROVE  \/ Alike(member[i][t], member'[i][t])
         \/ i = job[c].id /\ Moves(c, i, t)
<1> DEFINE j == job[c]
<1>1. /\ at[c] \in Steps /\ j \in Job /\ j.tenant \in Tenants
      /\ at[c] \in UsesId => j.id \in Used /\ j.id \in Ids
      /\ at[c] # "update" => j.email \in Emails /\ j.role \in Roles
  BY JobTyped, UsedIds DEF Job
<1>2. /\ member \in [Ids -> [Tenants -> Membership \union {None}]]
      /\ member[i] \in [Tenants -> Membership \union {None}]
      /\ member[i][t] \in Membership \union {None}
      /\ org \in [Tenants -> {"unused", "open", "deleted"}]
      /\ row \in [Ids -> User \union {None}]
  BY DEF Typed, TypeOK
<1>3. CASE Reading(c) \/ WriteRow(c) \/ Store(c)
  BY <1>3, ReadingLeavesRows DEF WriteRow, Store, db, Alike
<1>4. CASE Mirror(c) \/ JoinCommit(c)
  <2>1. Insertable(j) /\ InsertUser(j, FALSE) /\ at[c] \in {"mirror", "join"}
    BY <1>4 DEF Mirror, JoinCommit
  <2>2. j.id \in Ids /\ row[j.id] = None
    BY <1>1, <2>1 DEF UsesId, Steps, Insertable
  <2> DEFINE m == [role |-> j.role, ref |-> j.ref, owner |-> FALSE]
  <2>3. member' = [member EXCEPT ![j.id][j.tenant] = m] /\ m.owner = FALSE
    BY <2>1 DEF InsertUser
  <2>4. member[j.id] = Nowhere
    BY <2>2 DEF Typed, Rows
  <2> HIDE DEF m
  <2>5. CASE i = j.id
    <3>1. member'[i][t] = IF t = j.tenant THEN m ELSE member[i][t]
      BY <1>1, <1>2, <2>3, <2>5
    <3>2. member[i][t] = None
      BY <2>4, <2>5 DEF Nowhere
    <3>3. ~IsOwner(i, t)'
      BY <2>3, <3>1, <3>2 DEF IsOwner
    <3> QED
      BY <2>1, <2>2, <2>5, <3>3 DEF Moves
  <2>6. CASE i # j.id
    <3>1. member'[i] = member[i]
      BY <1>2, <2>3, <2>6
    <3> QED
      BY <3>1 DEF Alike
  <2> QED
    BY <2>5, <2>6
<1>5. CASE Drop(c) \/ DeleteRow(c)
  <2>1. UNCHANGED db \/ DropUsers({j.id})
    BY <1>5 DEF Drop, DeleteRow
  <2>2. at[c] \in {"drop", "deleteRow"}
    BY <1>5 DEF Drop, DeleteRow
  <2>3. CASE i = j.id /\ DropUsers({j.id})
    BY <2>2, <2>3 DEF DropUsers, Nowhere, Moves
  <2>4. CASE ~(i = j.id /\ DropUsers({j.id}))
    <3>1. member'[i] = member[i]
      BY <2>1, <2>4 DEF DropUsers, db
    <3> QED
      BY <3>1 DEF Alike
  <2> QED
    BY <2>3, <2>4
<1>6. CASE Leave(c)
  <2>1. at[c] = "leave" /\ member' = [member EXCEPT ![j.id][j.tenant] = None]
    BY <1>6 DEF Leave
  <2>2. CASE i = j.id /\ t = j.tenant
    BY <1>2, <2>1, <2>2 DEF Moves
  <2>3. CASE ~(i = j.id /\ t = j.tenant)
    <3>1. member'[i][t] = member[i][t]
      BY <1>2, <2>1, <2>3
    <3> QED
      BY <3>1 DEF Alike
  <2> QED
    BY <2>2, <2>3
<1>7. CASE WriteMember(c)
  <2>1. at[c] = "member" /\ member' = [member EXCEPT ![j.id][j.tenant] = Assigned(@, j)]
    BY <1>7 DEF WriteMember
  <2>2. j.role \in Roles /\ j.id \in Ids
    BY <1>1, <2>1 DEF UsesId, Steps
  <2>3. CASE i = j.id /\ t = j.tenant
    <3>1. member'[i][t] = Assigned(member[i][t], j)
      BY <1>2, <2>1, <2>3
    <3>2. CASE member[i][t] = None
      <4>1. member'[i][t] = None
        BY <3>1, <3>2 DEF Assigned
      <4> QED
        BY <3>2, <4>1 DEF Alike
    <3>3. CASE member[i][t] # None
      <4>1. member[i][t] \in Membership
        BY <1>2, <3>3
      <4>2. /\ Assigned(member[i][t], j) # None
            /\ Assigned(member[i][t], j).role = j.role
            /\ Assigned(member[i][t], j).owner = member[i][t].owner
        BY <1>1, <2>2, <4>1, AssignedTyped
      <4> QED
        BY <2>1, <2>3, <3>1, <3>3, <4>2 DEF Moves
    <3> QED
      BY <3>2, <3>3
  <2>4. CASE ~(i = j.id /\ t = j.tenant)
    <3>1. member'[i][t] = member[i][t]
      BY <1>2, <2>1, <2>4
    <3> QED
      BY <3>1 DEF Alike
  <2> QED
    BY <2>3, <2>4
<1>8. CASE Organize(c)
  <2>1. /\ at[c] = "organize" /\ org[j.tenant] = "unused"
        /\ org' = [org EXCEPT ![j.tenant] = "open"]
        /\ member' = [member EXCEPT ![j.id][j.tenant] = Owner(j.tenant)]
    BY <1>8 DEF Organize
  <2>2. CASE i = j.id /\ t = j.tenant
    BY <1>2, <2>1, <2>2 DEF Moves
  <2>3. CASE ~(i = j.id /\ t = j.tenant)
    <3>1. member'[i][t] = member[i][t]
      BY <1>2, <2>1, <2>3
    <3> QED
      BY <3>1 DEF Alike
  <2> QED
    BY <2>2, <2>3
<1>9. CASE DeleteRole(c)
  <2>1. member'[i][t] = Without(member[i][t], {<<j.tenant, "custom">>})
    BY <1>9 DEF DeleteRole
  <2>2. Alike(member[i][t], Without(member[i][t], {<<j.tenant, "custom">>}))
    BY <1>2, WithoutAlike
  <2> QED
    BY <2>1, <2>2
<1> QED
  BY <1>3, <1>4, <1>5, <1>6, <1>7, <1>8, <1>9, ReadOrWrite DEF Writing

\* The deletion of an organisation takes the memberships in it, and those
\* of its users anywhere; it makes no owner.
LEMMA DeletionMoves ==
  ASSUME Typed, NEW u \in Tenants, HardDelete(u), NEW i \in Ids, NEW t \in Tenants
  PROVE  \/ Alike(member[i][t], member'[i][t])
         \/ member'[i][t] = None /\ (t = u \/ (row[i] # None /\ row[i].tenant = u))
<1> DEFINE lost == {u} \X (Roles \union {"custom"})
<1>1. member[i][t] \in Membership \union {None}
  BY DEF Typed, TypeOK
<1>2. member' = [k \in Ids |-> IF k \in UsersOf(u) THEN Nowhere
                     ELSE [v \in Tenants |-> IF v = u THEN None ELSE Without(member[k][v], lost)]]
  BY DEF HardDelete
<1> HIDE DEF lost
<1>3. CASE i \in UsersOf(u)
  <2>1. row[i] # None /\ row[i].tenant = u
    BY <1>3 DEF UsersOf
  <2>2. member'[i] = Nowhere
    BY <1>2, <1>3
  <2> QED
    BY <2>1, <2>2 DEF Nowhere
<1>4. CASE i \notin UsersOf(u) /\ t = u
  <2>1. member'[i] = [v \in Tenants |-> IF v = u THEN None ELSE Without(member[i][v], lost)]
    BY <1>2, <1>4
  <2> QED
    BY <1>4, <2>1
<1>5. CASE i \notin UsersOf(u) /\ t # u
  <2>1. member'[i][t] = Without(member[i][t], lost)
    BY <1>2, <1>5
  <2> QED
    BY <1>1, <2>1, WithoutAlike
<1> QED
  BY <1>3, <1>4, <1>5

LEMMA RequestLeavesRows ==
  ASSUME NEW c \in Clients, Request(c)
  PROVE  UNCHANGED <<db, signedIn>>
  BY DEF Request, Create, Invite, Reinvite, Remove, ChangeRole, Update, Join,
     CreateOrganization, RemoveRole, Arrives, supabase

\* Nobody signs out, and no organisation that was founded becomes unknown.
LEMMA NothingUnlearned ==
  ASSUME Typed, Next
  PROVE  /\ signedIn \subseteq signedIn'
         /\ \A t \in Tenants : org[t] # "unused" => org'[t] # "unused"
<1>1. org \in [Tenants -> {"unused", "open", "deleted"}]
  BY DEF Typed, TypeOK
<1>2. ASSUME NEW c \in Clients, Reading(c)
      PROVE  signedIn' = signedIn /\ org' = org
  BY <1>2, ReadingLeavesRows DEF Reading, Lookup, LookupFails, Attach, ProvisionRefused,
     MirrorRefused, MirrorFails, UndoFails, Status, StatusFails, Count, TeardownFails, DropFails,
     Again, Remaining, RemoveThrows, DeleteAccountFails, WriteMemberRefused, WriteMemberFails,
     JoinRefused, FirstWriteFails, Undo, Teardown, DeleteAccount, Provision, DeleteAccountOf,
     Reads, Fails, Throws, ThrowsAmid, supabase, db
<1>3. ASSUME NEW c \in Clients, Writing(c)
      PROVE  signedIn' = signedIn
             /\ (org' = org \/ org' = [org EXCEPT ![job[c].tenant] = "open"])
  BY <1>3 DEF Writing, Mirror, Drop, Leave, DeleteRow, WriteRow, WriteMember, Store, JoinCommit,
     Organize, DeleteRole, Writes, supabase, DropUsers, db
<1>4. ASSUME NEW c \in Clients, Request(c)
      PROVE  signedIn' = signedIn /\ org' = org
  BY <1>4, RequestLeavesRows DEF db
<1>5. ASSUME NEW t \in Tenants, HardDelete(t)
      PROVE  signedIn' = signedIn /\ org' = [org EXCEPT ![t] = "deleted"]
  BY <1>5 DEF HardDelete, supabase
<1>6. ASSUME \/ \E e \in Emails : SignUp(e)
             \/ \E i \in Ids : SignIn(i)
      PROVE  signedIn \subseteq signedIn' /\ org' = org
  BY <1>6 DEF SignUp, SignIn, db
<1> QED
  BY <1>1, <1>2, <1>3, <1>4, <1>5, <1>6, ReadOrWrite DEF Next

\* Whoever organises has signed in.
Signed == \A c \in Clients : at[c] = "organize" => job[c].id \in signedIn

\* Every owner there is after a step was one before, unless Organize made it.
LEMMA OwnersAppear ==
  ASSUME Typed, OwnersKnown, Warned, Next, NEW i \in Ids, NEW t \in Tenants, IsOwner(i, t)'
  PROVE  /\ member'[i][t].role = "ADMIN"
         /\ \/ IsOwner(i, t)
            \/ \E c \in Clients : /\ Continue(c) /\ at[c] = "organize" /\ job[c].id = i
                                  /\ org[t] = "unused" /\ org'[t] = "open"
<1>1. CASE Alike(member[i][t], member'[i][t])
  BY <1>1 DEF Alike, IsOwner, OwnersKnown
<1>2. ASSUME NEW c \in Clients, Continue(c), ~Alike(member[i][t], member'[i][t])
      PROVE  /\ member'[i][t].role = "ADMIN"
             /\ \/ IsOwner(i, t)
                \/ at[c] = "organize" /\ job[c].id = i /\ org[t] = "unused" /\ org'[t] = "open"
  <2>1. i = job[c].id
    BY <1>2, MembershipMoves
  <2>2. member'[i][t] # None /\ member'[i][t].owner
    BY DEF IsOwner
  <2>3. CASE /\ at[c] = "member" /\ t = job[c].tenant /\ member[i][t] # None
             /\ member'[i][t] # None /\ member'[i][t].owner = member[i][t].owner
             /\ member'[i][t].role = job[c].role
    <3>1. IsOwner(i, t)
      BY <2>2, <2>3 DEF IsOwner
    <3>2. job[c].role = "ADMIN"
      BY <2>1, <2>3, <3>1 DEF Warned, Taking
    <3> QED
      BY <2>3, <3>1, <3>2
  <2>4. CASE /\ at[c] = "organize" /\ t = job[c].tenant /\ org[t] = "unused"
             /\ org'[t] = "open" /\ member'[i][t] = Owner(t)
    BY <2>1, <2>4 DEF Owner
  <2>5. Moves(c, i, t)
    BY <1>2, MembershipMoves
  <2>6. CASE member'[i][t] = None \/ ~IsOwner(i, t)'
    BY <2>2, <2>6 DEF IsOwner
  <2> QED
    BY <2>3, <2>4, <2>5, <2>6 DEF Moves
<1>3. ASSUME ~ \E c \in Clients : Continue(c)
      PROVE  \/ Alike(member[i][t], member'[i][t])
             \/ member'[i][t] = None
  <2>1. CASE \E u \in Tenants : HardDelete(u)
    BY <2>1, DeletionMoves
  <2>2. CASE ~ \E u \in Tenants : HardDelete(u)
    <3>1. member' = member
      BY <1>3, <2>2, RequestLeavesRows DEF Next, SignUp, SignIn, db
    <3> QED
      BY <3>1 DEF Alike
  <2> QED
    BY <2>1, <2>2
<1> QED
  BY <1>1, <1>2, <1>3 DEF IsOwner

LEMMA StepMoves ==
  ASSUME Typed, NEW c \in Clients, NEW s, NEW j, Step(c, s, j)
  PROVE  at'[c] = s /\ (s # "idle" => job'[c] = j)
  BY DEF Step, Typed, TypeOK

\* Who organises from now on arrived just now.
LEMMA NextKeepsSigned ==
  ASSUME Typed, Signed, Next
  PROVE  Signed'
<1> SUFFICES ASSUME NEW d \in Clients, at'[d] = "organize"
             PROVE  job'[d].id \in signedIn'
  BY DEF Signed
<1>1. CASE at[d] = "organize" /\ job'[d] = job[d]
  BY <1>1, NothingUnlearned DEF Signed
<1>2. CASE ~(at[d] = "organize" /\ job'[d] = job[d])
  <2>1. PICK c \in Clients : Request(c) \/ Continue(c)
    <3>1. CASE \/ \E t \in Tenants : HardDelete(t)
               \/ \E e \in Emails : SignUp(e)
               \/ \E i \in Ids : SignIn(i)
      BY <1>2, <3>1 DEF HardDelete, SignUp, SignIn
    <3> QED
      BY <3>1 DEF Next
  <2>2. c = d
    BY <1>2, <2>1, OthersStay
  <2>3. \A s, j : Step(d, s, j) => at'[d] = s
    BY StepMoves
  <2>4. ~Reading(d)
    BY <2>3 DEF Reading, Lookup, LookupFails, Attach, ProvisionRefused, MirrorRefused,
     MirrorFails, UndoFails, Status, StatusFails, Count, Teardown, TeardownFails, DropFails,
     Again, Remaining, RemoveThrows, DeleteAccountFails, WriteMemberRefused, WriteMemberFails,
     JoinRefused, FirstWriteFails, Undo, DeleteAccount, Provision, Goto, Ends, Undoes,
     Throws, ThrowsAmid
  <2>5. ~Writing(d)
    BY <2>3 DEF Writing, Mirror, Drop, Leave, DeleteRow, WriteRow, WriteMember, Store,
     JoinCommit, Organize, DeleteRole, Goto, Ends
  <2>6. Request(d)
    BY <2>1, <2>2, <2>4, <2>5, ReadOrWrite
  <2>7. PICK i \in Ids, t \in Tenants : CreateOrganization(d, i, t)
    BY <2>3, <2>6 DEF Request, Create, Invite, Reinvite, Remove, ChangeRole, Update, Join,
     RemoveRole, Arrives
  <2>8. job'[d] = Joining(i, t) /\ i \in signedIn
    BY <2>7, StepMoves DEF CreateOrganization, Arrives
  <2>9. Joining(i, t).id = i
    BY DEF Joining, NoJob
  <2> QED
    BY <2>8, <2>9, NothingUnlearned
<1> QED
  BY <1>1, <1>2

LEMMA NextKeepsOwnersKnown ==
  ASSUME Typed, OwnersKnown, Warned, Signed, Next
  PROVE  OwnersKnown'
<1> SUFFICES ASSUME NEW i \in Ids, NEW t \in Tenants, IsOwner(i, t)'
             PROVE  i \in signedIn' /\ org'[t] # "unused" /\ member'[i][t].role = "ADMIN"
  BY DEF OwnersKnown
<1>1. CASE IsOwner(i, t)
  BY <1>1, OwnersAppear, NothingUnlearned DEF OwnersKnown
<1>2. CASE ~IsOwner(i, t)
  <2>1. PICK c \in Clients : at[c] = "organize" /\ job[c].id = i /\ org'[t] = "open"
    BY <1>2, OwnersAppear
  <2> QED
    BY <2>1, OwnersAppear, NothingUnlearned DEF Signed
<1> QED
  BY <1>1, <1>2

\* The steps by which a request comes to take something away, or goes on.
LEMMA TakingMoves ==
  ASSUME Typed, NEW c \in Clients, Request(c) \/ Continue(c), at'[c] \in Taking \union {"status"}
  PROVE  \/ \E i \in Ids : Reinvite(c, i) \/ Remove(c, i)
         \/ \E i \in Ids, ref \in AnyRole : ChangeRole(c, i, ref)
         \/ Status(c) \/ StatusFails(c) \/ Count(c) \/ Teardown(c) \/ TeardownFails(c)
         \/ Leave(c) \/ Remaining(c) \/ WriteRow(c)
<1>1. \A s, j : Step(c, s, j) => at'[c] = s
  BY StepMoves
<1>2. CASE Request(c)
  BY <1>1, <1>2 DEF Request, Create, Invite, Update, Join, CreateOrganization, RemoveRole,
     Arrives, Taking
<1>3. CASE Reading(c)
  BY <1>1, <1>3 DEF Reading, Lookup, LookupFails, Attach, ProvisionRefused, MirrorRefused,
     MirrorFails, UndoFails, DropFails, Again, RemoveThrows, DeleteAccountFails,
     WriteMemberRefused, WriteMemberFails, JoinRefused, FirstWriteFails, Undo, DeleteAccount,
     Provision, Goto, Ends, Undoes, Throws, ThrowsAmid, Taking
<1>4. CASE Writing(c)
  BY <1>1, <1>4 DEF Writing, Mirror, Drop, DeleteRow, WriteMember, Store, JoinCommit, Organize,
     DeleteRole, Goto, Ends, Taking
<1> QED
  BY <1>2, <1>3, <1>4, ReadOrWrite

\* A request that goes on with its job stays warned.
Stages == {{"count", "teardown", "drop"}, {"leave", "remaining", "deleteRow"}, {"row", "member"}}

WarnedOf(c) ==
    /\ at[c] \in Taking \union {"status"} => org[job[c].tenant] # "unused"
    /\ at[c] \in Taking /\ IsOwner(job[c].id, job[c].tenant) =>
          /\ at[c] \notin {"leave", "remaining", "deleteRow"}
          /\ at[c] \in {"count", "teardown", "drop"} => job[c].flag
          /\ at[c] \in {"row", "member"} => job[c].role = "ADMIN"

LEMMA StaysWarned ==
  ASSUME Typed, OwnersKnown, Warned, Next, NEW c \in Clients, NEW stage \in Stages,
         at[c] \in stage, at'[c] \in stage,
         job'[c].id = job[c].id, job'[c].tenant = job[c].tenant, job'[c].role = job[c].role,
         job'[c].flag = job[c].flag \/ "leave" \in stage
  PROVE  WarnedOf(c)'
<1>1. at[c] \in Taking /\ at'[c] \in Taking
  BY DEF Stages, Taking
<1>2. job[c].id \in Ids /\ job[c].tenant \in Tenants
  BY <1>1, JobTyped, UsedIds DEF Taking, UsesId, Steps, Job
<1>3. org[job[c].tenant] # "unused" /\ org'[job[c].tenant] # "unused"
  BY <1>1, <1>2, NothingUnlearned DEF Warned
<1>4. IsOwner(job[c].id, job[c].tenant)' => IsOwner(job[c].id, job[c].tenant)
  <2> SUFFICES ASSUME NEW k \in Ids, NEW u \in Tenants, k = job[c].id, u = job[c].tenant,
                      IsOwner(k, u)'
               PROVE  IsOwner(k, u)
    BY <1>2 DEF IsOwner
  <2> QED
    BY <1>3, OwnersAppear
<1> QED
  BY <1>1, <1>3, <1>4 DEF Warned, WarnedOf, Stages, Taking

\* A request is warned as it arrives, and as it reads who signed in.
LEMMA BeginsWarned ==
  ASSUME Typed, OwnersKnown, NEW c \in Clients,
         \/ \E i \in Ids : Reinvite(c, i) \/ Remove(c, i)
         \/ \E i \in Ids, ref \in AnyRole : ChangeRole(c, i, ref)
  PROVE  WarnedOf(c)'
<1>1. UNCHANGED <<member, org>>
  BY DEF Reinvite, Remove, ChangeRole, Arrives, db
<1>2. ASSUME NEW i \in Ids, row[i] # None
      PROVE  row[i] \in User /\ org[row[i].tenant] # "unused"
  BY <1>2 DEF Typed, TypeOK, Rows
<1>3. ASSUME NEW i \in Ids, Reinvite(c, i)
      PROVE  WarnedOf(c)'
  <2>1. at'[c] = "status" /\ job'[c].tenant = row[i].tenant /\ row[i] # None
    <3> DEFINE j == [NoJob EXCEPT !.tenant = row[i].tenant, !.id = i,
                       !.email = row[i].email, !.role = row[i].role, !.ref = row[i].ref]
    <3>1. j.tenant = row[i].tenant
      BY DEF NoJob
    <3>2. Step(c, "status", j) /\ row[i] # None
      BY <1>3 DEF Reinvite, Arrives
    <3> HIDE DEF j
    <3> QED
      BY <3>1, <3>2, StepMoves
  <2> QED
    BY <1>1, <1>2, <2>1 DEF WarnedOf, Taking
<1>4. ASSUME NEW i \in Ids, Remove(c, i)
      PROVE  WarnedOf(c)'
  <2>1. at'[c] = "leave" /\ job'[c].tenant = row[i].tenant /\ job'[c].id = i /\ row[i] # None
    <3> DEFINE j == [NoJob EXCEPT !.tenant = row[i].tenant, !.id = i]
    <3>1. j.tenant = row[i].tenant /\ j.id = i
      BY DEF NoJob
    <3>2. Step(c, "leave", j) /\ row[i] # None
      BY <1>4 DEF Remove, Arrives
    <3> HIDE DEF j
    <3> QED
      BY <3>1, <3>2, StepMoves
  <2>2. ~(member[i][row[i].tenant] # None /\ member[i][row[i].tenant].owner)
    BY <1>4 DEF Remove
  <2>3. ~IsOwner(job[c].id, job[c].tenant)'
    BY <1>1, <2>1, <2>2 DEF IsOwner
  <2> QED
    BY <1>1, <1>2, <2>1, <2>3 DEF WarnedOf, Taking
<1>5. ASSUME NEW i \in Ids, NEW ref \in AnyRole, ChangeRole(c, i, ref)
      PROVE  WarnedOf(c)'
  <2>1. /\ at'[c] = "row" /\ row[i] # None /\ job'[c].tenant = row[i].tenant
        /\ job'[c].id = i /\ job'[c].role = KeyOf(ref)
    <3> DEFINE j == [NoJob EXCEPT !.tenant = row[i].tenant, !.id = i,
                       !.role = KeyOf(ref), !.ref = ref]
    <3>1. j.tenant = row[i].tenant /\ j.id = i /\ j.role = KeyOf(ref)
      BY DEF NoJob
    <3>2. Step(c, "row", j) /\ row[i] # None
      BY <1>5 DEF ChangeRole, Arrives
    <3> HIDE DEF j
    <3> QED
      BY <3>1, <3>2, StepMoves
  <2>2. member[i][row[i].tenant] # None /\ member[i][row[i].tenant].owner => KeyOf(ref) = "ADMIN"
    BY <1>5 DEF ChangeRole
  <2>3. IsOwner(job[c].id, job[c].tenant)' => job'[c].role = "ADMIN"
    BY <1>1, <2>1, <2>2 DEF IsOwner
  <2> QED
    BY <1>1, <1>2, <2>1, <2>3 DEF WarnedOf, Taking
<1> QED
  BY <1>3, <1>4, <1>5

LEMMA StatusWarns ==
  ASSUME Typed, OwnersKnown, Warned, NEW c \in Clients, Status(c) \/ StatusFails(c),
         at'[c] \in Taking \union {"status"}
  PROVE  WarnedOf(c)'
<1> DEFINE j == job[c]
<1>1. at[c] = "status" /\ UNCHANGED <<member, org>>
  BY DEF Status, StatusFails, Reads, Fails, db
<1>2. j \in Job /\ j.id \in Ids /\ j.tenant \in Tenants /\ org[j.tenant] # "unused"
  BY <1>1, JobTyped, UsedIds DEF Job, UsesId, Steps, Warned
<1>3. PICK b \in BOOLEAN : /\ Step(c, "count", [j EXCEPT !.flag = b])
                           /\ j.id \in signedIn => b = TRUE
  <2>1. CASE Status(c)
    <3>1. ~Ends(c)
      BY StepMoves DEF Ends, Goto, Taking
    <3>2. /\ Step(c, "count", [j EXCEPT !.flag = j.id \notin live])
          /\ ~(j.id \in live \intersect signedIn)
      BY <2>1, <3>1 DEF Status
    <3> QED
      BY <3>2
  <2>2. CASE StatusFails(c)
    BY <2>2 DEF StatusFails
  <2> QED
    BY <2>1, <2>2
<1>4. at'[c] = "count" /\ job'[c] = [j EXCEPT !.flag = b]
  BY <1>3, StepMoves
<1> HIDE DEF j
<1>5. job'[c].id = j.id /\ job'[c].tenant = j.tenant /\ job'[c].flag = b
  BY <1>2, <1>4 DEF Job
<1>6. IsOwner(job[c].id, job[c].tenant)' => job'[c].flag
  <2>1. IsOwner(j.id, j.tenant) => j.id \in signedIn
    BY <1>2 DEF OwnersKnown
  <2>2. IsOwner(job[c].id, job[c].tenant)' => IsOwner(j.id, j.tenant)
    BY <1>1, <1>5 DEF IsOwner
  <2> QED
    BY <1>3, <1>5, <2>1, <2>2
<1> QED
  BY <1>1, <1>2, <1>4, <1>5, <1>6 DEF WarnedOf, Taking

LEMMA NextKeepsWarned ==
  ASSUME Typed, OwnersKnown, Warned, Next
  PROVE  Warned'
<1> SUFFICES ASSUME NEW d \in Clients, at'[d] \in Taking \union {"status"}
             PROVE  WarnedOf(d)'
  BY DEF Warned, WarnedOf
<1>1. CASE at'[d] = at[d] /\ job'[d] = job[d]
  <2>1. CASE at[d] = "status"
    <3>1. org[job[d].tenant] # "unused" /\ job[d].tenant \in Tenants
      BY <2>1, JobTyped DEF Warned, Job
    <3> QED
      BY <1>1, <2>1, <3>1, NothingUnlearned DEF WarnedOf, Taking
  <2>2. CASE at[d] \in Taking
    <3>1. PICK stage \in Stages : at[d] \in stage
      BY <2>2 DEF Stages, Taking
    <3> QED
      BY <1>1, <3>1, StaysWarned
  <2> QED
    BY <1>1, <2>1, <2>2
<1>2. CASE ~(at'[d] = at[d] /\ job'[d] = job[d])
  <2>1. PICK c \in Clients : Request(c) \/ Continue(c)
    <3>1. CASE \/ \E t \in Tenants : HardDelete(t)
               \/ \E e \in Emails : SignUp(e)
               \/ \E i \in Ids : SignIn(i)
      BY <1>2, <3>1 DEF HardDelete, SignUp, SignIn
    <3> QED
      BY <3>1 DEF Next
  <2>2. c = d
    BY <1>2, <2>1, OthersStay
  <2>3. CASE Count(d) \/ Teardown(d) \/ TeardownFails(d)
    <3>1. PICK s \in {"idle", "teardown", "drop"} : Goto(d, s) /\ at[d] \in {"count", "teardown"}
      BY <2>3 DEF Count, Teardown, TeardownFails, Ends
    <3>2. at'[d] = s /\ s # "idle" /\ job'[d] = job[d]
      BY <3>1, StepMoves DEF Goto, Taking
    <3>3. {"count", "teardown", "drop"} \in Stages
      BY DEF Stages
    <3> QED
      BY <3>1, <3>2, <3>3, StaysWarned
  <2>4. CASE Leave(d) \/ WriteRow(d)
    <3>1. PICK s \in {"idle", "remaining", "member"} :
             Goto(d, s) /\ (s = "remaining" => at[d] = "leave") /\ (s = "member" => at[d] = "row")
      BY <2>4 DEF Leave, WriteRow, Ends
    <3>2. at'[d] = s /\ s # "idle" /\ job'[d] = job[d]
      BY <3>1, StepMoves DEF Goto, Taking
    <3>3. {"leave", "remaining", "deleteRow"} \in Stages /\ {"row", "member"} \in Stages
      BY DEF Stages
    <3> QED
      BY <3>1, <3>2, <3>3, StaysWarned
  <2>5. CASE Remaining(d)
    <3>1. PICK b \in BOOLEAN : at[d] = "remaining" /\ Step(d, "deleteRow", [job[d] EXCEPT !.flag = b])
      BY <2>5 DEF Remaining
    <3>2. at'[d] = "deleteRow" /\ job'[d] = [job[d] EXCEPT !.flag = b] /\ job[d] \in Job
      BY <3>1, StepMoves, JobTyped
    <3>3. job'[d].id = job[d].id /\ job'[d].tenant = job[d].tenant /\ job'[d].role = job[d].role
      BY <3>2 DEF Job
    <3>4. {"leave", "remaining", "deleteRow"} \in Stages
      BY DEF Stages
    <3> QED
      BY <3>1, <3>2, <3>3, <3>4, StaysWarned
  <2> QED
    BY <2>1, <2>2, <2>3, <2>4, <2>5, TakingMoves, BeginsWarned, StatusWarns
<1> QED
  BY <1>1, <1>2

\* remove 443-456, reinvite 647-700, changeRole 499-546: no request takes the
\* ADMIN membership of an organisation's owner, however requests interleave,
\* save for the holes that OwnersStay names.
THEOREM OwnersAreKept == Spec => OwnersStay
<1> DEFINE Inv == Typed /\ OwnersKnown /\ Warned /\ Signed
           Kind(i, t) == \/ org'[t] = "deleted"
                         \/ row[i].tenant # t
                         \/ \E c \in Clients :
                               /\ job[c].id = i
                               /\ \/ at[c] \in {"deleteRow", "drop"} /\ job[c].tenant # t
                                  \/ at[c] = "drop" /\ job[c].flag
           Stay == \A i \in Ids, t \in Tenants :
                      OwnsIn(member[i][t]) /\ ~OwnsIn(member'[i][t]) => Kind(i, t)
<1>1. Init => Inv
  <2> SUFFICES ASSUME Init
               PROVE  OwnersKnown /\ Warned /\ Signed
    BY TypedInitially
  <2>1. OwnersKnown
    <3> SUFFICES ASSUME NEW i \in Ids, NEW t \in Tenants, IsOwner(i, t)
                 PROVE  i \in signedIn /\ org[t] # "unused" /\ member[i][t].role = "ADMIN"
      BY DEF OwnersKnown
    <3>1. i = 1 /\ t = First /\ member[i][t] = Owner(First)
      BY Constants DEF Init, IsOwner, Nowhere
    <3> QED
      BY <3>1 DEF Init, Owner
  <2>2. Warned /\ Signed
    BY DEF Init, Warned, Signed, Taking
  <2> QED
    BY <2>1, <2>2
<1>2. Inv /\ [Next]_vars => Inv'
  <2> SUFFICES ASSUME Typed, OwnersKnown, Warned, Signed, [Next]_vars
               PROVE  OwnersKnown' /\ Warned' /\ Signed'
    BY NextKeepsTyped
  <2>1. CASE Next
    BY <2>1, NextKeepsOwnersKnown, NextKeepsWarned, NextKeepsSigned
  <2>2. CASE UNCHANGED vars
    BY <2>2 DEF vars, db, supabase, ghosts, OwnersKnown, IsOwner, Warned, Signed
  <2> QED
    BY <2>1, <2>2
<1>3. Inv /\ Next => Stay
  <2> SUFFICES ASSUME Typed, OwnersKnown, Warned, Next, NEW i \in Ids, NEW t \in Tenants,
                      OwnsIn(member[i][t]), ~OwnsIn(member'[i][t])
               PROVE  Kind(i, t)
    OBVIOUS
  <2>1. IsOwner(i, t) /\ ~Alike(member[i][t], member'[i][t])
    BY DEF OwnsIn, IsOwner, Alike
  <2>2. ASSUME NEW c \in Clients, Continue(c)
        PROVE  Kind(i, t)
    <3>1. i = job[c].id /\ Moves(c, i, t)
      BY <2>1, <2>2, MembershipMoves
    <3>2. CASE at[c] \in {"mirror", "join"} /\ row[i] = None
      <4>1. member[i] = Nowhere
        BY <3>2 DEF Typed, Rows
      <4> QED
        BY <2>1, <4>1 DEF IsOwner, Nowhere
    <3>3. CASE at[c] \in {"drop", "deleteRow", "leave"} /\ job[c].tenant = t
      <4>1. at[c] = "drop" /\ job[c].flag
        BY <2>1, <3>1, <3>3 DEF Warned, Taking
      <4> QED
        BY <3>1, <4>1
    <3>4. CASE at[c] \in {"drop", "deleteRow"} /\ job[c].tenant # t
      BY <3>1, <3>4
    <3>5. CASE /\ at[c] = "member" /\ t = job[c].tenant /\ member[i][t] # None
               /\ member'[i][t] # None /\ member'[i][t].owner = member[i][t].owner
               /\ member'[i][t].role = job[c].role
      <4>1. job[c].role = "ADMIN"
        BY <2>1, <3>1, <3>5 DEF Warned, Taking
      <4> QED
        BY <2>1, <3>5, <4>1 DEF OwnsIn, IsOwner
    <3>6. CASE at[c] = "organize" /\ member'[i][t] = Owner(t)
      <4>1. Owner(t) \in Membership
        BY RolesTyped DEF Owner, Membership, Roles
      <4>2. Owner(t) # None
        BY <4>1, Constants
      <4>3. Owner(t).owner /\ Owner(t).role = "ADMIN"
        BY DEF Owner
      <4> QED
        BY <3>6, <4>2, <4>3 DEF OwnsIn
    <3> QED
      BY <3>1, <3>2, <3>3, <3>4, <3>5, <3>6 DEF Moves
  <2>3. ASSUME NEW u \in Tenants, HardDelete(u)
        PROVE  Kind(i, t)
    <3>1. t = u \/ row[i].tenant = u
      BY <2>1, <2>3, DeletionMoves
    <3>2. org'[u] = "deleted"
      BY <2>3 DEF HardDelete, Typed, TypeOK
    <3> QED
      BY <3>1, <3>2
  <2>4. CASE ~(\E c \in Clients : Continue(c)) /\ ~(\E u \in Tenants : HardDelete(u))
    <3>1. member' = member
      BY <2>4, RequestLeavesRows DEF Next, SignUp, SignIn, db
    <3> QED
      BY <2>1, <3>1 DEF Alike
  <2> QED
    BY <2>2, <2>3, <2>4
<1>4. Inv /\ [Next]_vars => [Stay]_vars
  BY <1>3
<1>5. [Stay]_vars <=> [\A i \in Ids, t \in Tenants :
         OwnsIn(member[i][t]) /\ ~OwnsIn(member'[i][t]) =>
            \/ org'[t] = "deleted"
            \/ row[i].tenant # t
            \/ \E c \in Clients : /\ job[c].id = i
                                  /\ \/ at[c] \in {"deleteRow", "drop"} /\ job[c].tenant # t
                                     \/ at[c] = "drop" /\ job[c].flag]_vars
  OBVIOUS
<1> QED
  BY <1>1, <1>2, <1>4, <1>5, PTL DEF Spec, OwnersStay
----------------------------------------------------------------------------
(* Rows and their accounts.  A person that no two requests were handled    *)
(* for at once is left alone while a request about it goes on: what the    *)
(* request has read of it is still so when it writes (Noticed).            *)

Noticed ==
    \A c, d \in Clients :
        /\ c # d /\ at[c] # "idle" /\ at[d] # "idle"
        /\ job[c].id # NoId /\ job[c].id = job[d].id
        => job[c].id \in doubled

\* The account an invitation found, or made, is there.
Alive == \A c \in Clients : at[c] \in {"attach", "mirror"} => job[c].id \in live \union doubled

\* Who is about to make a row, or to delete an account, has seen no row.
Rowless ==
    \A c \in Clients : at[c] \in {"mirror", "undo", "deleteAccount", "organize"} =>
        row[job[c].id] = None \/ job[c].id \in doubled

LEMMA StepOrStill ==
  ASSUME Next
  PROVE  \/ \E c \in Clients : /\ Request(c) \/ Continue(c)
                               /\ \E s, j : Step(c, s, j)
         \/ UNCHANGED <<at, job, doubled>>
<1>1. ASSUME NEW c \in Clients, Request(c)
      PROVE  \E s, j : Step(c, s, j)
  BY <1>1 DEF Request, Create, Invite, Reinvite, Remove, ChangeRole, Update, Join,
     CreateOrganization, RemoveRole, Arrives
<1>2. ASSUME NEW c \in Clients, Reading(c)
      PROVE  \E s, j : Step(c, s, j)
  BY <1>2 DEF Reading, Lookup, LookupFails, Attach, ProvisionRefused, MirrorRefused, MirrorFails,
     UndoFails, Status, StatusFails, Count, TeardownFails, DropFails, Again, Remaining,
     RemoveThrows, DeleteAccountFails, WriteMemberRefused, WriteMemberFails, JoinRefused,
     FirstWriteFails, Undo, Teardown, DeleteAccount, Provision, Goto, Ends, Undoes,
     Throws, ThrowsAmid
<1>3. ASSUME NEW c \in Clients, Writing(c)
      PROVE  \E s, j : Step(c, s, j)
  BY <1>3 DEF Writing, Mirror, Drop, Leave, DeleteRow, WriteRow, WriteMember, Store, JoinCommit,
     Organize, DeleteRole, Goto, Ends
<1>4. ASSUME \/ \E t \in Tenants : HardDelete(t)
             \/ \E e \in Emails : SignUp(e)
             \/ \E i \in Ids : SignIn(i)
      PROVE  UNCHANGED <<at, job, doubled>>
  BY <1>4 DEF HardDelete, SignUp, SignIn, ghosts
<1> QED
  BY <1>1, <1>2, <1>3, <1>4, ReadOrWrite DEF Next

LEMMA DoubledGrows ==
  ASSUME Next
  PROVE  doubled \subseteq doubled'
  BY StepOrStill DEF Step

LEMMA NextKeepsNoticed ==
  ASSUME Typed, Noticed, Next
  PROVE  Noticed'
<1>1. CASE UNCHANGED <<at, job, doubled>>
  BY <1>1 DEF Noticed
<1>2. ASSUME NEW b \in Clients, NEW s, NEW j, Step(b, s, j)
      PROVE  Noticed'
  <2> SUFFICES ASSUME NEW c \in Clients, NEW d \in Clients, c # d,
                      at'[c] # "idle", at'[d] # "idle",
                      job'[c].id # NoId, job'[c].id = job'[d].id
               PROVE  job'[c].id \in doubled'
    BY DEF Noticed
  <2>1. \A e \in Clients : e # b => at'[e] = at[e] /\ job'[e] = job[e]
    BY <1>2 DEF Step, Typed, TypeOK
  <2>2. at'[b] = s /\ (s # "idle" => job'[b] = j)
    BY <1>2, StepMoves
  <2>3. doubled \subseteq doubled'
    BY <1>2 DEF Step
  <2>4. ASSUME NEW e \in Clients, e # b, s # "idle", at[e] # "idle", job[e].id = j.id, j.id # NoId
        PROVE  j.id \in doubled'
    BY <1>2, <2>4 DEF Step
  <2>5. CASE c = b
    BY <2>1, <2>2, <2>4, <2>5
  <2>6. CASE d = b
    BY <2>1, <2>2, <2>4, <2>6
  <2>7. CASE c # b /\ d # b
    BY <2>1, <2>3, <2>7 DEF Noticed
  <2> QED
    BY <2>5, <2>6, <2>7
<1> QED
  BY <1>1, <1>2, StepOrStill

\* The steps that write the records of the one person of their request.
OwnStep(c) ==
    \/ Mirror(c) \/ JoinCommit(c) \/ Organize(c)
    \/ Leave(c) \/ WriteRow(c) \/ WriteMember(c) \/ Store(c)

\* A person loses roles that are no more, in both records, and memberships of
\* an organisation that is no more.
Stripped(i) ==
    /\ row[i] # None
    /\ \E lost \in SUBSET AnyRole :
          /\ row'[i] = Without(row[i], lost)
          /\ \A u \in Tenants : \/ member'[i][u] = Without(member[i][u], lost)
                                \/ u # row[i].tenant /\ member'[i][u] = None
          /\ \A ref \in lost, u \in Tenants : ref \notin RoleRows(u)'

\* All that can happen to the records of a person.
LEMMA PersonMoves ==
  ASSUME Typed, Next, NEW i \in Ids
  PROVE  \/ row'[i] = row[i] /\ member'[i] = member[i]
         \/ row'[i] = None
         \/ \E c \in Clients : job[c].id = i /\ Continue(c) /\ OwnStep(c)
         \/ Stripped(i)
<1> DEFINE Claim == \/ row'[i] = row[i] /\ member'[i] = member[i]
                    \/ row'[i] = None
                    \/ \E c \in Clients : job[c].id = i /\ Continue(c) /\ OwnStep(c)
                    \/ Stripped(i)
<1>1. /\ row \in [Ids -> User \union {None}]
      /\ member \in [Ids -> [Tenants -> Membership \union {None}]]
      /\ org \in [Tenants -> {"unused", "open", "deleted"}]
  BY DEF Typed, TypeOK
<1>2. ASSUME UNCHANGED db
      PROVE  Claim
  BY <1>2 DEF db
<1>3. ASSUME NEW c \in Clients, Drop(c) \/ DeleteRow(c)
      PROVE  Claim
  BY <1>1, <1>3 DEF Drop, DeleteRow, DropUsers, db
<1>4. ASSUME NEW c \in Clients, Continue(c), OwnStep(c), job[c].id # i
      PROVE  row'[i] = row[i] /\ member'[i] = member[i]
  BY <1>1, <1>4 DEF OwnStep, Mirror, JoinCommit, Organize, Leave, WriteRow, WriteMember, Store,
     InsertUser
<1>5. ASSUME NEW c \in Clients, DeleteRole(c)
      PROVE  Claim
  <2> DEFINE t == job[c].tenant
             lost == {<<t, "custom">>}
  <2>1. /\ row'[i] = Without(row[i], lost) /\ custom' = custom \ {t}
        /\ \A u \in Tenants : member'[i][u] = Without(member[i][u], lost)
    BY <1>5 DEF DeleteRole
  <2>2. t \in Tenants
    BY JobTyped DEF Job
  <2>3. lost \in SUBSET AnyRole
    BY <2>2 DEF AnyRole
  <2>4. \A u \in Tenants : <<t, "custom">> \notin RoleRows(u)'
    BY <2>1 DEF RoleRows, Roles
  <2>5. CASE row[i] = None
    BY <2>1, <2>5 DEF Without
  <2>6. CASE row[i] # None
    BY <2>1, <2>3, <2>4, <2>6 DEF Stripped
  <2> QED
    BY <2>5, <2>6
<1>6. ASSUME NEW t \in Tenants, HardDelete(t)
      PROVE  Claim
  <2> DEFINE lost == {t} \X (Roles \union {"custom"})
  <2>1. /\ row'[i] = IF i \in UsersOf(t) THEN None ELSE Without(row[i], lost)
        /\ member'[i] = IF i \in UsersOf(t) THEN Nowhere
                        ELSE [u \in Tenants |-> IF u = t THEN None ELSE Without(member[i][u], lost)]
        /\ org'[t] = "deleted"
    BY <1>1, <1>6 DEF HardDelete
  <2>2. lost \in SUBSET AnyRole
    BY DEF AnyRole
  <2>3. \A ref \in lost, u \in Tenants : ref \notin RoleRows(u)'
    BY <2>1 DEF RoleRows
  <2> HIDE DEF lost
  <2>4. CASE i \in UsersOf(t)
    BY <2>1, <2>4
  <2>5. CASE row[i] = None
    BY <2>1, <2>5 DEF Without
  <2>6. CASE i \notin UsersOf(t) /\ row[i] # None
    <3>1. row[i].tenant # t
      BY <2>6 DEF UsersOf
    <3> QED
      BY <2>1, <2>2, <2>3, <2>6, <3>1 DEF Stripped
  <2> QED
    BY <2>4, <2>5, <2>6
<1>7. ASSUME NEW c \in Clients, Request(c)
      PROVE  Claim
  BY <1>2, <1>7, RequestLeavesRows
<1>8. ASSUME NEW c \in Clients, Reading(c)
      PROVE  Claim
  BY <1>2, <1>8, ReadingLeavesRows
<1>9. ASSUME \/ \E e \in Emails : SignUp(e)
             \/ \E k \in Ids : SignIn(k)
      PROVE  Claim
  BY <1>2, <1>9 DEF SignUp, SignIn
<1>10. ASSUME NEW c \in Clients, Continue(c), OwnStep(c)
       PROVE  Claim
  BY <1>4, <1>10
<1> HIDE DEF Claim
<1>11. Claim
  BY <1>3, <1>5, <1>6, <1>7, <1>8, <1>9, <1>10, ReadOrWrite DEF Next, Writing, OwnStep
<1> QED
  BY <1>11 DEF Claim

\* A step of a request takes it on.
LEMMA OwnStepMoves ==
  ASSUME Typed, NEW c \in Clients, OwnStep(c)
  PROVE  /\ at[c] # at'[c]
         /\ at[c] \in {"mirror", "join", "organize", "leave", "row", "member", "update"}
<1>1. \A s : Goto(c, s) => at'[c] = s
  BY StepMoves DEF Goto
<1>2. at[c] \in {"mirror", "join", "organize", "leave", "row", "member", "update"}
  BY DEF OwnStep, Mirror, JoinCommit, Organize, Leave, WriteRow, WriteMember, Store
<1>3. PICK s \in {"idle", "remaining", "member"} :
         Goto(c, s) /\ (s = "member" => at[c] = "row")
  BY DEF OwnStep, Mirror, JoinCommit, Organize, Leave, WriteRow, WriteMember, Store, Ends
<1> QED
  BY <1>1, <1>2, <1>3

\* A row appears when a request makes it.
LEMMA RowAppears ==
  ASSUME Typed, Next, NEW i \in Ids, row[i] = None, row'[i] # None
  PROVE  \E c \in Clients :
            job[c].id = i /\ Continue(c) /\ (Mirror(c) \/ JoinCommit(c) \/ Organize(c))
<1>1. PICK c \in Clients : job[c].id = i /\ Continue(c) /\ OwnStep(c)
  BY PersonMoves DEF Stripped
<1>2. row'[i] = None \/ ~(Leave(c) \/ WriteRow(c) \/ WriteMember(c) \/ Store(c))
  BY <1>1 DEF Leave, WriteRow, WriteMember, Store
<1> QED
  BY <1>1, <1>2 DEF OwnStep

\* No row appears for the person of another request, unless it is noticed.
LEMMA StaysRowless ==
  ASSUME Typed, Noticed, Next, NEW c \in Clients, at[c] # "idle", at'[c] = at[c],
         job[c].id \in Ids, row[job[c].id] = None
  PROVE  row'[job[c].id] = None \/ job[c].id \in doubled
<1> SUFFICES ASSUME row'[job[c].id] # None
             PROVE  job[c].id \in doubled
  OBVIOUS
<1>1. PICK d \in Clients : job[d].id = job[c].id /\ OwnStep(d)
  BY RowAppears DEF OwnStep
<1>2. at[d] # at'[d] /\ at[d] # "idle"
  BY <1>1, OwnStepMoves
<1>3. d # c
  BY <1>2
<1> QED
  BY <1>1, <1>2, <1>3, Constants DEF Noticed

\* An account goes by an undo, a reinvitation or a removal.
LEMMA AccountGoes ==
  ASSUME Typed, Next, NEW i \in Ids, i \in live, i \notin live'
  PROVE  \E c \in Clients : job[c].id = i /\ (Undo(c) \/ Teardown(c) \/ DeleteAccount(c))
<1>1. ASSUME NEW c \in Clients, Request(c)
      PROVE  live' = live
  BY <1>1 DEF Request, Create, Invite, Reinvite, Remove, ChangeRole, Update, Join,
     CreateOrganization, RemoveRole, Arrives, supabase
<1>2. ASSUME NEW c \in Clients, Reading(c), ~(Undo(c) \/ Teardown(c) \/ DeleteAccount(c))
      PROVE  live \subseteq live'
  BY <1>2 DEF Reading, Lookup, LookupFails, Attach, ProvisionRefused, MirrorRefused,
     MirrorFails, UndoFails, Status, StatusFails, Count, TeardownFails, DropFails, Again,
     Remaining, RemoveThrows, DeleteAccountFails, WriteMemberRefused, WriteMemberFails,
     JoinRefused, FirstWriteFails, Provision, Reads, Fails, Throws, ThrowsAmid, supabase
<1>3. ASSUME NEW c \in Clients, Writing(c)
      PROVE  live' = live
  BY <1>3, WritingLeavesAccounts
<1>4. ASSUME \/ \E t \in Tenants : HardDelete(t)
             \/ \E e \in Emails : SignUp(e)
             \/ \E k \in Ids : SignIn(k)
      PROVE  live \subseteq live'
  BY <1>4 DEF HardDelete, SignUp, SignIn, supabase
<1>5. PICK c \in Clients : Undo(c) \/ Teardown(c) \/ DeleteAccount(c)
  BY <1>1, <1>2, <1>3, <1>4, ReadOrWrite DEF Next
<1>6. live' = live \ {job[c].id}
  BY <1>5 DEF Undo, Teardown, DeleteAccount, DeleteAccountOf
<1> QED
  BY <1>5, <1>6

\* The steps by which a request comes to where something was read before.
Resting == {"attach", "mirror", "undo", "deleteAccount", "organize", "row", "member"}

LEMMA ReachedBy ==
  ASSUME Typed, NEW c \in Clients, Request(c) \/ Continue(c), at'[c] \in Resting
  PROVE  \/ \E i \in Ids, t \in Tenants : CreateOrganization(c, i, t)
         \/ \E i \in Ids, ref \in AnyRole : ChangeRole(c, i, ref)
         \/ Lookup(c) \/ Attach(c) \/ Provision(c) \/ MirrorRefused(c) \/ MirrorFails(c)
         \/ DeleteRow(c) \/ WriteRow(c)
<1>1. \A s, j : Step(c, s, j) => at'[c] = s
  BY StepMoves
<1>2. CASE Request(c)
  BY <1>1, <1>2 DEF Request, Create, Invite, Reinvite, Remove, Update, Join, RemoveRole,
     Arrives, Resting
<1>3. CASE Reading(c)
  BY <1>1, <1>3 DEF Reading, LookupFails, ProvisionRefused, UndoFails, Status, StatusFails, Count,
     TeardownFails, DropFails, Again, Remaining, RemoveThrows, DeleteAccountFails,
     WriteMemberRefused, WriteMemberFails, JoinRefused, FirstWriteFails, Undo, Teardown,
     DeleteAccount, Goto, Ends, Throws, ThrowsAmid, Resting
<1>4. CASE Writing(c)
  BY <1>1, <1>4 DEF Writing, Mirror, Drop, Leave, WriteMember, Store, JoinCommit, Organize,
     DeleteRole, Goto, Ends, Resting
<1> QED
  BY <1>2, <1>3, <1>4, ReadOrWrite
LEMMA NextKeepsAlive ==
  ASSUME Typed, Noticed, Alive, Next
  PROVE  Alive'
<1> SUFFICES ASSUME NEW c \in Clients, at'[c] \in {"attach", "mirror"}
             PROVE  job'[c].id \in live' \union doubled'
  BY DEF Alive
<1>1. CASE at'[c] = at[c] /\ job'[c] = job[c]
  <2>1. job[c].id \in live \union doubled /\ job[c].id \in Ids
    BY <1>1, JobTyped, UsedIds DEF Alive, UsesId, Steps
  <2>2. ASSUME job[c].id \in live, job[c].id \notin live'
        PROVE  job[c].id \in doubled
    <3>1. PICK d \in Clients : /\ job[d].id = job[c].id
                               /\ Undo(d) \/ Teardown(d) \/ DeleteAccount(d)
      BY <2>1, <2>2, AccountGoes
    <3>2. at[d] \notin {"idle", "attach", "mirror"}
      BY <3>1 DEF Undo, Teardown, DeleteAccount
    <3> QED
      BY <1>1, <2>1, <3>1, <3>2, Constants DEF Noticed
  <2> QED
    BY <1>1, <2>1, <2>2, DoubledGrows
<1>2. CASE ~(at'[c] = at[c] /\ job'[c] = job[c])
  <2>1. Request(c) \/ Continue(c)
    BY <1>2, StepOrStill, OthersStay
  <2>2. Lookup(c) \/ Attach(c) \/ Provision(c)
    <3>1. \A s, j : Step(c, s, j) => at'[c] = s
      BY StepMoves
    <3> QED
      BY <2>1, <3>1, ReachedBy DEF Resting, CreateOrganization, ChangeRole, Arrives, MirrorRefused,
         MirrorFails, DeleteRow, WriteRow, Undoes, Goto, Ends
  <2>3. CASE Lookup(c)
    <3>1. PICK i \in AccountsOf(job[c].email) : Step(c, "attach", [job[c] EXCEPT !.id = i])
      <4>1. ~Goto(c, "provision")
        BY StepMoves DEF Goto
      <4> QED
        BY <2>3, <4>1 DEF Lookup
    <3>2. job'[c] = [job[c] EXCEPT !.id = i] /\ job[c] \in Job
      BY <3>1, StepMoves, JobTyped
    <3>3. job'[c].id = i
      BY <3>2 DEF Job
    <3> QED
      BY <2>3, <3>1, <3>3 DEF Lookup, Reads, AccountsOf, supabase
  <2>4. CASE Attach(c)
    <3>1. at[c] = "attach" /\ job'[c] = job[c] /\ live' = live
      BY <2>4, StepMoves DEF Attach, Goto, Ends, Reads, supabase
    <3> QED
      BY <3>1, DoubledGrows DEF Alive
  <2>5. CASE Provision(c)
    <3>1. job'[c] = [job[c] EXCEPT !.id = Fresh, !.own = TRUE] /\ job[c] \in Job
          /\ live' = live \union {Fresh}
      BY <2>5, StepMoves, JobTyped DEF Provision
    <3>2. job'[c].id = Fresh
      BY <3>1 DEF Job
    <3> QED
      BY <3>1, <3>2
  <2> QED
    BY <2>2, <2>3, <2>4, <2>5
<1> QED
  BY <1>1, <1>2

LEMMA NextKeepsRowless ==
  ASSUME Typed, Noticed, Rowless, Next
  PROVE  Rowless'
<1> SUFFICES ASSUME NEW c \in Clients,
                    at'[c] \in {"mirror", "undo", "deleteAccount", "organize"}
             PROVE  row'[job'[c].id] = None \/ job'[c].id \in doubled'
  BY DEF Rowless
<1>1. CASE at'[c] = at[c] /\ job'[c] = job[c]
  <2>1. job[c].id \in Ids
    BY <1>1, JobTyped, UsedIds DEF UsesId, Steps
  <2> QED
    BY <1>1, <2>1, StaysRowless, DoubledGrows DEF Rowless
<1>2. CASE ~(at'[c] = at[c] /\ job'[c] = job[c])
  <2>1. Request(c) \/ Continue(c)
    BY <1>2, StepOrStill, OthersStay
  <2>2. \A s, j : Step(c, s, j) => at'[c] = s /\ (s # "idle" => job'[c] = j)
    BY StepMoves
  <2>3. CASE \E i \in Ids, t \in Tenants : CreateOrganization(c, i, t)
    <3>1. PICK i \in Ids, t \in Tenants : CreateOrganization(c, i, t)
      BY <2>3
    <3>2. job'[c].id = i
      <4>1. Joining(i, t).id = i
        BY DEF Joining, NoJob
      <4>2. Step(c, "organize", Joining(i, t))
        BY <3>1 DEF CreateOrganization, Arrives
      <4> QED
        BY <2>2, <4>1, <4>2
    <3> QED
      BY <3>1, <3>2 DEF CreateOrganization, Arrives, db
  <2>4. CASE Attach(c)
    <3>1. row[job[c].id] = None /\ job'[c] = job[c] /\ row' = row
      BY <2>2, <2>4 DEF Attach, Goto, Ends, Reads, db
    <3> QED
      BY <3>1
  <2>5. CASE Provision(c)
    <3>1. job'[c] = [job[c] EXCEPT !.id = Fresh, !.own = TRUE] /\ job[c] \in Job /\ row' = row
      BY <2>2, <2>5, JobTyped DEF Provision, db
    <3>2. job'[c].id = Fresh
      BY <3>1 DEF Job
    <3>3. Fresh \in Ids \ Used
      BY <2>5, FreshIsUnused DEF Provision, Unused
    <3> QED
      BY <3>1, <3>2, <3>3 DEF Typed, Rows
  <2>6. CASE MirrorRefused(c) \/ MirrorFails(c)
    <3>1. at[c] = "mirror" /\ job'[c] = job[c] /\ row' = row
      BY <2>2, <2>6 DEF MirrorRefused, MirrorFails, Undoes, Goto, Reads, Fails, db
    <3> QED
      BY <3>1, DoubledGrows DEF Rowless
  <2>7. CASE DeleteRow(c)
    <3>1. at[c] = "deleteRow" /\ job'[c] = job[c] /\ DropUsers({job[c].id})
      BY <2>2, <2>7 DEF DeleteRow, Goto, Ends
    <3>2. job[c].id \in Ids
      BY <3>1, JobTyped, UsedIds DEF UsesId, Steps
    <3> QED
      BY <3>1, <3>2 DEF DropUsers
  <2>8. ~Lookup(c) /\ ~WriteRow(c) /\ ~\E i \in Ids, ref \in AnyRole : ChangeRole(c, i, ref)
    <3>1. \A s, j : s \in {"provision", "attach", "row", "member", "idle"} => ~Step(c, s, j)
      BY <2>2
    <3>2. ~Lookup(c) /\ ~WriteRow(c)
      <4>1. Lookup(c) => \E s \in {"provision", "attach"} : \E j : Step(c, s, j)
        BY DEF Lookup, Goto
      <4>2. WriteRow(c) => \E s \in {"member", "idle"} : \E j : Step(c, s, j)
        BY DEF WriteRow, Goto, Ends
      <4> QED
        BY <3>1, <4>1, <4>2
    <3>3. ASSUME NEW i \in Ids, NEW ref \in AnyRole
          PROVE  ~ChangeRole(c, i, ref)
      BY <3>1 DEF ChangeRole, Arrives
    <3> QED
      BY <3>2, <3>3
  <2> QED
    BY <2>1, <2>3, <2>4, <2>5, <2>6, <2>7, <2>8, ReachedBy DEF Resting
<1> QED
  BY <1>1, <1>2

\* A removal or a reinvitation that is half-way goes on, or a call has failed.
LEMMA HalfwayGoesOn ==
  ASSUME Typed, NEW c \in Clients, Request(c) \/ Continue(c),
         at[c] \in {"drop", "remaining", "deleteRow", "member"}
  PROVE  \/ at[c] = "remaining" /\ at'[c] = "deleteRow" /\ job'[c].id = job[c].id
         \/ job[c].id \in broken'
         \/ Drop(c) \/ DeleteRow(c) \/ WriteMember(c)
<1>1. Continue(c)
  BY DEF Request, Create, Invite, Reinvite, Remove, ChangeRole, Update, Join,
     CreateOrganization, RemoveRole, Arrives
<1>2. \/ DropFails(c) \/ Remaining(c) \/ RemoveThrows(c)
      \/ WriteMemberRefused(c) \/ WriteMemberFails(c)
      \/ Drop(c) \/ DeleteRow(c) \/ WriteMember(c)
  BY <1>1 DEF Continue, Lookup, LookupFails, Attach, Provision, ProvisionRefused, Mirror,
     MirrorRefused, MirrorFails, Undo, UndoFails, Status, StatusFails, Count, Teardown,
     TeardownFails, Again, Leave, DeleteAccount, DeleteAccountFails, WriteRow, Store, JoinCommit,
     JoinRefused, Organize, DeleteRole, FirstWriteFails
<1>3. CASE DropFails(c) \/ RemoveThrows(c) \/ WriteMemberRefused(c) \/ WriteMemberFails(c)
  BY <1>3 DEF DropFails, RemoveThrows, WriteMemberRefused, WriteMemberFails, ThrowsAmid, Fails
<1>4. CASE Remaining(c)
  <2>1. PICK b \in BOOLEAN : Step(c, "deleteRow", [job[c] EXCEPT !.flag = b])
    BY <1>4 DEF Remaining
  <2>2. at'[c] = "deleteRow" /\ job'[c] = [job[c] EXCEPT !.flag = b] /\ job[c] \in Job
    BY <2>1, StepMoves, JobTyped
  <2> QED
    BY <1>4, <2>2 DEF Job, Remaining
<1> QED
  BY <1>2, <1>3, <1>4

LEMMA NextKeepsRowsHaveAccounts ==
  ASSUME Typed, Noticed, Alive, Rowless, RowsHaveAccounts, Next
  PROVE  RowsHaveAccounts'
<1> SUFFICES ASSUME NEW i \in Ids, row'[i] # None, i \notin doubled' \union broken' \union stranded'
             PROVE  i \in live' \/ Working(i, {"drop"})'
  BY DEF RowsHaveAccounts
<1>1. i \notin doubled \union broken \union stranded
  BY DoubledGrows, HistoriesGrow
<1>2. CASE row[i] = None
  <2>1. PICK c \in Clients : /\ job[c].id = i /\ Continue(c)
                             /\ Mirror(c) \/ JoinCommit(c) \/ Organize(c)
    BY <1>2, RowAppears
  <2>2. live' = live
    BY <2>1, WritingLeavesAccounts DEF Writing
  <2>3. CASE Mirror(c)
    BY <1>1, <2>1, <2>2, <2>3 DEF Mirror, Alive
  <2>4. CASE JoinCommit(c) \/ Organize(c)
    <3>1. stranded' = Outlived(i)
      BY <2>1, <2>4 DEF JoinCommit, Organize
    <3> QED
      BY <2>2, <3>1 DEF Outlived
  <2> QED
    BY <2>1, <2>3, <2>4
<1>3. CASE row[i] # None /\ i \in live
  <2> SUFFICES ASSUME i \notin live'
               PROVE  Working(i, {"drop"})'
    OBVIOUS
  <2>1. PICK c \in Clients : job[c].id = i /\ (Undo(c) \/ Teardown(c) \/ DeleteAccount(c))
    BY <1>3, AccountGoes
  <2>2. Teardown(c)
    BY <1>1, <1>3, <2>1 DEF Undo, DeleteAccount, Rowless
  <2>3. at'[c] = "drop" /\ job'[c] = job[c]
    BY <2>2, StepMoves DEF Teardown, Goto
  <2> QED
    BY <2>1, <2>3 DEF Working
<1>4. CASE row[i] # None /\ Working(i, {"drop"})
  <2>1. PICK c \in Clients : job[c].id = i /\ at[c] = "drop"
    BY <1>4 DEF Working
  <2>2. CASE at'[c] = at[c] /\ job'[c] = job[c]
    BY <2>1, <2>2 DEF Working
  <2>3. CASE ~(at'[c] = at[c] /\ job'[c] = job[c])
    <3>1. Request(c) \/ Continue(c)
      BY <2>3, StepOrStill, OthersStay
    <3>2. Drop(c) \/ DeleteRow(c) \/ WriteMember(c)
      BY <2>1, <3>1, HalfwayGoesOn
    <3>3. ~Drop(c)
      BY <1>4, <2>1 DEF Drop, DropUsers
    <3> QED
      BY <2>1, <3>2, <3>3 DEF DeleteRow, WriteMember
  <2> QED
    BY <2>2, <2>3
<1> QED
  BY <1>1, <1>2, <1>3, <1>4 DEF RowsHaveAccounts
\* users.service.ts create, invite, reinvite, remove, and onboarding: whoever
\* has a User row has an account to sign in with, however requests interleave,
\* save for the ways that RowsHaveAccounts names.
THEOREM RowsKeepAccounts == Spec => []RowsHaveAccounts
<1> DEFINE Inv == Typed /\ Noticed /\ Alive /\ Rowless /\ RowsHaveAccounts
<1>1. Init => Inv
  <2> SUFFICES ASSUME Init
               PROVE  Noticed /\ Alive /\ Rowless /\ RowsHaveAccounts
    BY TypedInitially
  <2> QED
    BY DEF Init, Noticed, Alive, Rowless, RowsHaveAccounts
<1>2. Inv /\ [Next]_vars => Inv'
  <2> SUFFICES ASSUME Typed, Noticed, Alive, Rowless, RowsHaveAccounts, [Next]_vars
               PROVE  Noticed' /\ Alive' /\ Rowless' /\ RowsHaveAccounts'
    BY NextKeepsTyped
  <2>1. CASE Next
    BY <2>1, NextKeepsNoticed, NextKeepsAlive, NextKeepsRowless, NextKeepsRowsHaveAccounts
  <2>2. CASE UNCHANGED vars
    BY <2>2 DEF vars, db, supabase, ghosts, Noticed, Alive, Rowless, RowsHaveAccounts, Working
  <2> QED
    BY <2>1, <2>2
<1> QED
  BY <1>1, <1>2, PTL DEF Spec

----------------------------------------------------------------------------
(* The membership and the User row of a person agree.  A request that      *)
(* changes a role finds the row where it was (InPlace), and between its    *)
(* two writes only the membership is behind (OneWritten).                  *)

Agrees(i) ==
    /\ Memberships(i) = {row[i].tenant}
    /\ member[i][row[i].tenant].role = row[i].role
    /\ member[i][row[i].tenant].ref = row[i].ref

InPlace ==
    \A c \in Clients : at[c] \in {"row", "member"} =>
        \/ row[job[c].id] = None
        \/ job[c].id \in doubled
        \/ row[job[c].id].tenant = job[c].tenant

Wrote(i, j) ==
    /\ Memberships(i) = {row[i].tenant}
    /\ row[i].tenant = j.tenant
    /\ row[i].role = j.role
    /\ row[i].ref = j.ref \/ ~RoleThere(j)

OneWritten ==
    \A c \in Clients : at[c] = "member" =>
        \/ job[c].id \in doubled \union broken \union restyled
        \/ row[job[c].id] = None
        \/ Wrote(job[c].id, job[c])

LEMMA RestyledGrows ==
  ASSUME Next
  PROVE  restyled \subseteq restyled'
<1>1. ASSUME NEW c \in Clients, Request(c)
      PROVE  restyled' = restyled
  BY <1>1 DEF Request, Create, Invite, Reinvite, Remove, ChangeRole, Update, Join,
     CreateOrganization, RemoveRole, Arrives
<1>2. ASSUME NEW c \in Clients, Reading(c)
      PROVE  restyled' = restyled
  BY <1>2 DEF Reading, Lookup, LookupFails, Attach, ProvisionRefused, MirrorRefused, MirrorFails,
     UndoFails, Status, StatusFails, Count, TeardownFails, DropFails, Again, Remaining,
     RemoveThrows, DeleteAccountFails, WriteMemberRefused, WriteMemberFails, JoinRefused,
     FirstWriteFails, Undo, Teardown, DeleteAccount, Provision, DeleteAccountOf,
     Reads, Fails, Throws, ThrowsAmid
<1>3. ASSUME NEW c \in Clients, Writing(c)
      PROVE  restyled \subseteq restyled'
  BY <1>3 DEF Writing, Mirror, Drop, Leave, DeleteRow, WriteRow, WriteMember, Store, JoinCommit,
     Organize, DeleteRole
<1>4. ASSUME \/ \E t \in Tenants : HardDelete(t)
             \/ \E e \in Emails : SignUp(e)
             \/ \E i \in Ids : SignIn(i)
      PROVE  restyled' = restyled
  BY <1>4 DEF HardDelete, SignUp, SignIn, ghosts
<1> QED
  BY <1>1, <1>2, <1>3, <1>4, ReadOrWrite DEF Next

\* An organisation that was opened gets no role it had not.
LEMMA RolesGo ==
  ASSUME Typed, Next, NEW t \in Tenants, org[t] # "unused"
  PROVE  RoleRows(t)' \subseteq RoleRows(t)
<1>1. ASSUME NEW c \in Clients, Writing(c)
      PROVE  /\ custom' \subseteq custom
             /\ org' = org \/ (org[job[c].tenant] = "unused"
                               /\ org' = [org EXCEPT ![job[c].tenant] = "open"])
  BY <1>1 DEF Writing, Mirror, Drop, Leave, DeleteRow, WriteRow, WriteMember, Store, JoinCommit,
     Organize, DeleteRole, DropUsers, db
<1>2. ASSUME NEW u \in Tenants, HardDelete(u)
      PROVE  custom' \subseteq custom /\ org' = [org EXCEPT ![u] = "deleted"]
  BY <1>2 DEF HardDelete
<1>3. ASSUME UNCHANGED db
      PROVE  custom' = custom /\ org' = org
  BY <1>3 DEF db
<1>4. ASSUME \/ \E e \in Emails : SignUp(e)
             \/ \E i \in Ids : SignIn(i)
      PROVE  UNCHANGED db
  BY <1>4 DEF SignUp, SignIn
<1>5. custom' \subseteq custom
  BY <1>1, <1>2, <1>3, <1>4, ReadOrWrite, ReadingLeavesRows, RequestLeavesRows DEF Next
<1>6. org'[t] = "open" => org[t] = "open"
  <2>1. org \in [Tenants -> {"unused", "open", "deleted"}]
    BY DEF Typed, TypeOK
  <2>2. \/ org' = org
        \/ \E u \in Tenants : org[u] = "unused" /\ org' = [org EXCEPT ![u] = "open"]
        \/ \E u \in Tenants : org' = [org EXCEPT ![u] = "deleted"]
    <3>1. \A c \in Clients : job[c].tenant \in Tenants
      BY JobTyped DEF Job
    <3> QED
      BY <1>1, <1>2, <1>3, <1>4, <3>1, ReadOrWrite, ReadingLeavesRows, RequestLeavesRows DEF Next
  <2> QED
    BY <2>1, <2>2
<1> QED
  BY <1>5, <1>6 DEF RoleRows

LEMMA StripKeepsAgreement ==
  ASSUME Typed, NEW i \in Ids, Stripped(i), Next
  PROVE  /\ row'[i] \in User /\ row'[i] # None /\ row'[i].tenant = row[i].tenant
         /\ Memberships(i) = {row[i].tenant} => (Memberships(i) = {row[i].tenant})'
         /\ Agrees(i) => Agrees(i)'
         /\ \A j \in Job : Wrote(i, j) => Wrote(i, j)'
<1>1. PICK lost \in SUBSET AnyRole :
         /\ row'[i] = Without(row[i], lost)
         /\ \A u \in Tenants : \/ member'[i][u] = Without(member[i][u], lost)
                               \/ u # row[i].tenant /\ member'[i][u] = None
         /\ \A ref \in lost, u \in Tenants : ref \notin RoleRows(u)'
  BY DEF Stripped
<1>2. row[i] \in User /\ \A u \in Tenants : member[i][u] \in Membership \union {None}
  BY DEF Typed, TypeOK, Stripped
<1>3. row'[i] \in User /\ row'[i] # None /\ row'[i].tenant = row[i].tenant /\ row[i].tenant \in Tenants
  <2>1. Without(row[i], lost) \in User /\ Without(row[i], lost) # None
        /\ Without(row[i], lost).tenant = row[i].tenant
    BY <1>2, WithoutTyped
  <2>2. row[i].tenant \in Tenants
    BY <1>2 DEF User
  <2> QED
    BY <1>1, <2>1, <2>2
<1>4. row'[i].role = row[i].role /\ row'[i].ref = IF row[i].ref \in lost THEN NoRole ELSE row[i].ref
  BY <1>1, <1>2, Constants DEF Without, User
<1>5. ASSUME NEW m \in Membership
      PROVE  Without(m, lost).ref = IF m.ref \in lost THEN NoRole ELSE m.ref
  BY <1>5, Constants DEF Without, Membership
<1>6. ASSUME Memberships(i) = {row[i].tenant}
      PROVE  (Memberships(i) = {row[i].tenant})'
  <2>1. member[i][row[i].tenant] # None
        /\ \A u \in Tenants : u # row[i].tenant => member[i][u] = None
    BY <1>3, <1>6 DEF Memberships
  <2>2. member'[i][row[i].tenant] # None
        /\ \A u \in Tenants : u # row[i].tenant => member'[i][u] = None
    BY <1>1, <1>2, <1>3, <2>1, WithoutTyped
  <2> QED
    BY <1>3, <2>2 DEF Memberships
<1>7. ASSUME Agrees(i)
      PROVE  Agrees(i)'
  <2> DEFINE t == row[i].tenant
  <2>1. t \in Tenants /\ member[i][t] \in Membership /\ Memberships(i) = {t}
        /\ member[i][t].role = row[i].role /\ member[i][t].ref = row[i].ref
    BY <1>2, <1>3, <1>7 DEF Agrees, Memberships
  <2>2. member'[i][t] = Without(member[i][t], lost)
    BY <1>1, <2>1
  <2>3. member'[i][t].role = row'[i].role /\ member'[i][t].ref = row'[i].ref
    <3>1. Without(member[i][t], lost).role = member[i][t].role
      BY <2>1, WithoutTyped
    <3> QED
      BY <1>4, <1>5, <2>1, <2>2, <3>1
  <2> QED
    BY <1>3, <1>6, <2>1, <2>3 DEF Agrees
<1>8. ASSUME NEW j \in Job, Wrote(i, j)
      PROVE  Wrote(i, j)'
  <2>1. row'[i].tenant = j.tenant /\ row'[i].role = j.role /\ (Memberships(i) = {row[i].tenant})'
    BY <1>3, <1>4, <1>6, <1>8 DEF Wrote
  <2>2. org[j.tenant] # "unused" /\ j.tenant \in Tenants
    BY <1>3, <1>8 DEF Wrote, Typed, Rows, Stripped
  <2>3. RoleThere(j)' => RoleThere(j)
    BY <2>2, RolesGo DEF RoleThere
  <2>4. RoleThere(j)' => row'[i].ref = j.ref
    <3> SUFFICES ASSUME j.ref \in RoleRows(j.tenant)'
                 PROVE  row'[i].ref = j.ref
      BY DEF RoleThere
    <3>1. row[i].ref = j.ref
      BY <1>8, <2>3 DEF Wrote, RoleThere
    <3>2. j.ref \notin lost
      BY <1>1, <2>2
    <3> QED
      BY <1>4, <3>1, <3>2
  <2> QED
    BY <2>1, <2>4 DEF Wrote
<1> QED
  BY <1>3, <1>6, <1>7, <1>8

\* A row stays with its organisation.
LEMMA TenantStays ==
  ASSUME Typed, Next, NEW i \in Ids, row[i] # None, row'[i] # None
  PROVE  row'[i].tenant = row[i].tenant
<1>1. row[i] \in User
  BY DEF Typed, TypeOK
<1>2. ASSUME NEW c \in Clients, job[c].id = i, OwnStep(c)
      PROVE  row'[i].tenant = row[i].tenant
  <2>1. /\ job[c] \in Job
        /\ at[c] # "update" => job[c].role \in Roles
    BY JobTyped
  <2>2. row \in [Ids -> User \union {None}]
    BY DEF Typed, TypeOK
  <2>3. CASE Mirror(c) \/ JoinCommit(c)
    BY <1>2, <2>3 DEF Mirror, JoinCommit, Insertable
  <2>4. CASE Organize(c)
    <3>1. row'[i] = [row[i] EXCEPT !.ref = <<job[c].tenant, "ADMIN">>]
      BY <1>2, <2>2, <2>4 DEF Organize
    <3> QED
      BY <1>1, <3>1 DEF User
  <2>5. CASE Leave(c) \/ WriteMember(c)
    BY <2>5 DEF Leave, WriteMember
  <2>6. CASE WriteRow(c)
    <3>1. row'[i] \in {row[i], Assigned(row[i], job[c])}
      BY <1>2, <2>2, <2>6 DEF WriteRow
    <3>2. job[c].role \in Roles
      BY <2>1, <2>6 DEF WriteRow
    <3>3. Assigned(row[i], job[c]).tenant = row[i].tenant
      BY <1>1, <2>1, <3>2, AssignedTyped
    <3> QED
      BY <3>1, <3>3
  <2>7. CASE Store(c)
    <3>1. row'[i] \in {row[i], Edited(row[i], job[c])}
      BY <1>2, <2>2, <2>7 DEF Store
    <3>2. Edited(row[i], job[c]).tenant = row[i].tenant
      BY <1>1 DEF Edited, User
    <3> QED
      BY <3>1, <3>2
  <2> QED
    BY <1>2, <2>3, <2>4, <2>5, <2>6, <2>7 DEF OwnStep
<1> QED
  BY <1>2, PersonMoves, StripKeepsAgreement
LEMMA NextKeepsInPlace ==
  ASSUME Typed, Noticed, InPlace, Next
  PROVE  InPlace'
<1> SUFFICES ASSUME NEW c \in Clients, at'[c] \in {"row", "member"},
                    row'[job'[c].id] # None, job'[c].id \notin doubled'
             PROVE  row'[job'[c].id].tenant = job'[c].tenant
  BY DEF InPlace
<1>1. CASE at'[c] = at[c] /\ job'[c] = job[c]
  <2>1. job[c].id \in Ids
    BY <1>1, JobTyped, UsedIds DEF UsesId, Steps
  <2>2. row[job[c].id] # None /\ job[c].id \notin doubled
    BY <1>1, <2>1, StaysRowless, DoubledGrows
  <2> QED
    BY <1>1, <2>1, <2>2, TenantStays DEF InPlace
<1>2. CASE ~(at'[c] = at[c] /\ job'[c] = job[c])
  <2>1. Request(c) \/ Continue(c)
    BY <1>2, StepOrStill, OthersStay
  <2>2. (\E i \in Ids, ref \in AnyRole : ChangeRole(c, i, ref)) \/ WriteRow(c)
    <3>1. \A s, j : Step(c, s, j) => at'[c] = s
      BY StepMoves
    <3> QED
      BY <2>1, <3>1, ReachedBy DEF Resting, CreateOrganization, Arrives, Lookup, Attach, Provision,
         MirrorRefused, MirrorFails, DeleteRow, Undoes, Goto, Ends
  <2>3. ASSUME NEW i \in Ids, NEW ref \in AnyRole, ChangeRole(c, i, ref)
        PROVE  row'[job'[c].id].tenant = job'[c].tenant
    <3> DEFINE j == [NoJob EXCEPT !.tenant = row[i].tenant, !.id = i,
                       !.role = KeyOf(ref), !.ref = ref]
    <3>1. j.tenant = row[i].tenant /\ j.id = i
      BY DEF NoJob
    <3>2. Step(c, "row", j) /\ row' = row
      BY <2>3 DEF ChangeRole, Arrives, db
    <3> HIDE DEF j
    <3> QED
      BY <3>1, <3>2, StepMoves
  <2>4. CASE WriteRow(c)
    <3>1. at[c] = "row" /\ Goto(c, "member") /\ row[job[c].id] # None
      BY <2>4, StepMoves DEF WriteRow, Ends, Goto
    <3>2. job'[c] = job[c] /\ job[c].id \in Ids
      BY <3>1, StepMoves, JobTyped, UsedIds DEF Goto, UsesId, Steps
    <3>3. job[c].id \notin doubled
      BY <3>2, DoubledGrows
    <3> QED
      BY <3>1, <3>2, <3>3, TenantStays DEF InPlace
  <2> QED
    BY <2>2, <2>3, <2>4
<1> QED
  BY <1>1, <1>2

\* The row that WriteRow writes belongs to one membership, and what happens to
\* it before WriteMember happens to both, or takes the role itself away.
LEMMA NextKeepsOneWritten ==
  ASSUME Typed, Noticed, InPlace, OneWritten, MembershipFollowsRow, Next
  PROVE  OneWritten'
<1> SUFFICES ASSUME NEW c \in Clients, NEW i, NEW j, at'[c] = "member",
                    j = job'[c], i = j.id, i \notin doubled' \union broken' \union restyled',
                    row'[i] # None
             PROVE  Wrote(i, j)'
  BY DEF OneWritten
<1>1. CASE at'[c] = at[c] /\ job'[c] = job[c]
  <2>1. i \in Ids /\ j \in Job /\ j = job[c]
    BY <1>1, JobTyped, UsedIds DEF UsesId, Steps
  <2>2. row[i] # None /\ i \notin doubled \union broken \union restyled
    BY <1>1, <2>1, StaysRowless, DoubledGrows, HistoriesGrow, RestyledGrows
  <2>3. Wrote(i, j)
    BY <1>1, <2>1, <2>2 DEF OneWritten
  <2>4. ASSUME NEW d \in Clients, job[d].id = i, OwnStep(d)
        PROVE  FALSE
    <3>1. at[d] # at'[d] /\ at[d] # "idle"
      BY <2>4, OwnStepMoves
    <3>2. d # c
      BY <1>1, <3>1
    <3> QED
      BY <1>1, <2>1, <2>2, <2>4, <3>1, <3>2, Constants DEF Noticed
  <2>5. CASE row'[i] = row[i] /\ member'[i] = member[i]
    <3>1. org[j.tenant] # "unused" /\ j.tenant \in Tenants
      BY <2>1, <2>2, <2>3 DEF Wrote, Typed, Rows, Job
    <3>2. RoleThere(j)' => RoleThere(j)
      BY <3>1, RolesGo DEF RoleThere
    <3> QED
      BY <2>3, <2>5, <3>2 DEF Wrote, Memberships
  <2>6. CASE Stripped(i)
    BY <2>1, <2>3, <2>6, StripKeepsAgreement
  <2> QED
    BY <2>1, <2>4, <2>5, <2>6, PersonMoves
<1>2. CASE ~(at'[c] = at[c] /\ job'[c] = job[c])
  <2>1. Request(c) \/ Continue(c)
    BY <1>2, StepOrStill, OthersStay
  <2>2. WriteRow(c)
    <3>1. \A s, k : Step(c, s, k) => at'[c] = s
      BY StepMoves
    <3> QED
      BY <2>1, <3>1, ReachedBy DEF Resting, CreateOrganization, ChangeRole, Arrives, Lookup, Attach,
         Provision, MirrorRefused, MirrorFails, DeleteRow, Undoes, Goto, Ends
  <2>3. at[c] = "row" /\ Goto(c, "member")
    <3>1. ~Ends(c)
      BY StepMoves DEF Ends, Goto
    <3> QED
      BY <2>2, <3>1 DEF WriteRow
  <2>4. j = job[c] /\ i \in Ids /\ j \in Job /\ j.role \in Roles
    BY <2>3, StepMoves, JobTyped, UsedIds DEF Goto, UsesId, Steps
  <2>5. /\ row[i] # None /\ RoleThere(j)
        /\ row' = [row EXCEPT ![i] = Assigned(@, j)] /\ member' = member
    <3>1. ~Ends(c)
      BY StepMoves DEF Ends, Goto
    <3> QED
      BY <2>2, <2>4, <3>1 DEF WriteRow
  <2>6. i \notin doubled \union broken \union restyled
    BY <2>4, DoubledGrows, HistoriesGrow, RestyledGrows
  <2>7. ~Working(i, {"remaining", "deleteRow", "member"})
    BY <2>3, <2>4, <2>6, Constants DEF Working, Noticed
  <2>8. Memberships(i) = {row[i].tenant} /\ row[i].tenant = j.tenant
    BY <2>3, <2>4, <2>5, <2>6, <2>7 DEF MembershipFollowsRow, InPlace
  <2>9. row[i] \in User /\ row'[i] = Assigned(row[i], j)
    BY <2>4, <2>5 DEF Typed, TypeOK
  <2>10. row'[i].tenant = row[i].tenant /\ row'[i].role = j.role /\ row'[i].ref = j.ref
    <3>1. Assigned(row[i], j) = [row[i] EXCEPT !.role = j.role, !.ref = j.ref]
      BY <2>5 DEF Assigned
    <3> QED
      BY <2>9, <3>1 DEF User
  <2> QED
    BY <2>5, <2>8, <2>10 DEF Wrote, Memberships
<1> QED
  BY <1>1, <1>2
\* A row that was just made has one membership, of the same role.
LEMMA NewRowAgrees ==
  ASSUME Typed, NEW c \in Clients, NEW i \in Ids, i = job[c].id, row[i] = None,
         Mirror(c) \/ JoinCommit(c) \/ Organize(c)
  PROVE  Agrees(i)'
<1> DEFINE t == job[c].tenant
<1>1. /\ row \in [Ids -> User \union {None}]
      /\ member \in [Ids -> [Tenants -> Membership \union {None}]] /\ member[i] = Nowhere
  BY DEF Typed, TypeOK, Rows
<1>2. job[c] \in Job /\ t \in Tenants
  BY JobTyped DEF Job
<1>3. ASSUME NEW x \in Membership, member' = [member EXCEPT ![i][t] = x]
      PROVE  member'[i][t] = x /\ {u \in Tenants : member'[i][u] # None} = {t}
  <2>1. member'[i] = [Nowhere EXCEPT ![t] = x]
    BY <1>1, <1>3
  <2> QED
    BY <1>2, <2>1, Constants DEF Nowhere
<1>4. CASE Mirror(c) \/ JoinCommit(c)
  <2> DEFINE j == job[c]
             x == [role |-> j.role, ref |-> j.ref, owner |-> FALSE]
  <2>1. at[c] # "update" /\ InsertUser(j, FALSE)
    BY <1>4 DEF Mirror, JoinCommit
  <2>2. x \in Membership
    BY <1>2, <2>1, JobTyped DEF Membership, Job
  <2>3. /\ row' = [row EXCEPT ![i] = [tenant |-> j.tenant, email |-> j.email,
                                      role |-> j.role, ref |-> j.ref]]
        /\ member' = [member EXCEPT ![i][t] = x]
    BY <2>1 DEF InsertUser
  <2>4. row'[i].tenant = t /\ row'[i].role = x.role /\ row'[i].ref = x.ref
    BY <1>1, <2>3
  <2>5. member'[i][t] = x /\ {u \in Tenants : member'[i][u] # None} = {t}
    BY <1>3, <2>2, <2>3
  <2> HIDE DEF x
  <2> QED
    BY <2>4, <2>5 DEF Agrees, Memberships
<1>5. CASE Organize(c)
  <2>1. Owner(t) \in Membership
    BY <1>2, RolesTyped DEF Owner, Membership, Roles
  <2>2. /\ row' = [row EXCEPT ![i] = [tenant |-> t, email |-> job[c].email,
                                      role |-> "ADMIN", ref |-> <<t, "ADMIN">>]]
        /\ member' = [member EXCEPT ![i][t] = Owner(t)]
    BY <1>5 DEF Organize
  <2>3. row'[i].tenant = t /\ row'[i].role = Owner(t).role /\ row'[i].ref = Owner(t).ref
    BY <1>1, <2>2 DEF Owner
  <2>4. member'[i][t] = Owner(t) /\ {u \in Tenants : member'[i][u] # None} = {t}
    BY <1>3, <2>1, <2>2
  <2> QED
    BY <2>3, <2>4 DEF Agrees, Memberships
<1> QED
  BY <1>4, <1>5

\* The second write of a change of role.
LEMMA SecondWriteAgrees ==
  ASSUME Typed, OneWritten, NEW c \in Clients, NEW i \in Ids, i = job[c].id, WriteMember(c),
         row[i] # None, i \notin doubled \union broken \union restyled
  PROVE  Agrees(i)'
<1> DEFINE j == job[c]
           t == row[i].tenant
<1>1. /\ at[c] = "member" /\ RoleThere(j) /\ row' = row
      /\ member' = [member EXCEPT ![i][j.tenant] = Assigned(@, j)]
  BY DEF WriteMember
<1>2. /\ Memberships(i) = {t} /\ t = j.tenant
      /\ row[i].role = j.role /\ row[i].ref = j.ref
  BY <1>1 DEF OneWritten, Wrote
<1>3. t \in Tenants /\ member[i][t] \in Membership
      /\ member \in [Ids -> [Tenants -> Membership \union {None}]]
  BY <1>2 DEF Typed, TypeOK, Memberships
<1>4. j \in Job /\ j.role \in Roles
  BY <1>1, JobTyped
<1> HIDE DEF j, t
<1>5. member'[i] = [member[i] EXCEPT ![t] = Assigned(member[i][t], j)]
  BY <1>1, <1>2, <1>3
<1>6. /\ member'[i][t] = Assigned(member[i][t], j)
      /\ \A u \in Tenants : u # t => member'[i][u] = member[i][u]
  BY <1>3, <1>5
<1>7. Assigned(member[i][t], j) # None /\ Assigned(member[i][t], j).role = j.role
      /\ Assigned(member[i][t], j).ref = j.ref
  <2>1. Assigned(member[i][t], j) = [member[i][t] EXCEPT !.role = j.role, !.ref = j.ref]
    BY <1>3, Constants DEF Assigned
  <2> QED
    BY <1>3, <1>4, <2>1, AssignedTyped DEF Membership
<1>8. Memberships(i)' = {t}
  BY <1>2, <1>3, <1>6, <1>7 DEF Memberships
<1> QED
  BY <1>1, <1>2, <1>6, <1>7, <1>8 DEF Agrees, t

\* What update stores agrees with the membership when it names no role.
LEMMA StoreKeepsAgreement ==
  ASSUME Typed, NEW c \in Clients, NEW i \in Ids, i = job[c].id, Store(c), row[i] # None,
         i \notin restyled'
  PROVE  /\ row'[i].tenant = row[i].tenant /\ row'[i].role = row[i].role
         /\ row'[i].ref = row[i].ref /\ member'[i] = member[i]
<1>1. row[i] \in User /\ row \in [Ids -> User \union {None}] /\ member' = member
  BY DEF Typed, TypeOK, Store
<1>2. CASE row' = row
  BY <1>1, <1>2
<1>3. CASE row' # row
  <2>1. job[c].role = Kept /\ row' = [row EXCEPT ![i] = Edited(@, job[c])]
    BY <1>3 DEF Store
  <2>2. row'[i] = Edited(row[i], job[c])
    BY <1>1, <2>1
  <2>3. Given(job[c].role, row[i].role) = row[i].role
    BY <2>1 DEF Given
  <2> QED
    BY <1>1, <2>2, <2>3 DEF Edited, User
<1> QED
  BY <1>2, <1>3

LEMMA NextKeepsMembershipFollowsRow ==
  ASSUME Typed, Noticed, Rowless, OneWritten, MembershipFollowsRow, Next
  PROVE  MembershipFollowsRow'
<1> DEFINE Between == {"remaining", "deleteRow", "member"}
<1> SUFFICES ASSUME NEW i \in Ids, row'[i] # None, i \notin doubled' \union broken' \union restyled'
             PROVE  Working(i, Between)' \/ Agrees(i)'
  BY DEF MembershipFollowsRow, Agrees
<1>1. i \notin doubled \union broken \union restyled
  BY DoubledGrows, HistoriesGrow, RestyledGrows
<1>2. CASE row[i] = None
  BY <1>2, RowAppears, NewRowAgrees
<1>3. ASSUME row[i] # None, NEW c \in Clients, job[c].id = i, OwnStep(c)
      PROVE  \/ Working(i, Between)' \/ Agrees(i)'
             \/ row'[i] = row[i] /\ member'[i] = member[i]
             \/ Store(c)
  <2>1. ~Mirror(c) /\ ~JoinCommit(c) /\ ~Organize(c)
    BY <1>1, <1>3 DEF Mirror, JoinCommit, Insertable, Organize, Rowless
  <2>2. CASE Leave(c)
    <3>1. at'[c] = "remaining" /\ job'[c] = job[c]
      BY <2>2, StepMoves DEF Leave, Goto
    <3> QED
      BY <1>3, <3>1 DEF Working
  <2>3. CASE WriteRow(c)
    <3>1. CASE Goto(c, "member")
      <4>1. at'[c] = "member" /\ job'[c] = job[c]
        BY <3>1, StepMoves DEF Goto
      <4> QED
        BY <1>3, <4>1 DEF Working
    <3>2. CASE ~Goto(c, "member")
      BY <2>3, <3>2 DEF WriteRow
    <3> QED
      BY <3>1, <3>2
  <2>4. CASE WriteMember(c)
    BY <1>1, <1>3, <2>4, SecondWriteAgrees
  <2> QED
    BY <1>3, <2>1, <2>2, <2>3, <2>4 DEF OwnStep
<1>4. ASSUME row[i] # None, NEW c \in Clients, job[c].id = i, at[c] \in Between
      PROVE  Working(i, Between)' \/ Agrees(i)'
  <2>1. CASE at'[c] = at[c] /\ job'[c] = job[c]
    BY <1>4, <2>1 DEF Working
  <2>2. CASE ~(at'[c] = at[c] /\ job'[c] = job[c])
    <3>1. Request(c) \/ Continue(c)
      BY <2>2, StepOrStill, OthersStay
    <3>2. \/ at'[c] = "deleteRow" /\ job'[c].id = i
          \/ Drop(c) \/ DeleteRow(c) \/ WriteMember(c)
      BY <1>4, <3>1, HalfwayGoesOn
    <3>3. ~Drop(c) /\ ~DeleteRow(c)
      BY <1>4 DEF Drop, DeleteRow, DropUsers
    <3> QED
      BY <1>1, <1>4, <3>2, <3>3, SecondWriteAgrees DEF Working
  <2> QED
    BY <2>1, <2>2
<1>5. CASE row[i] # None /\ Agrees(i) /\ row'[i] = row[i] /\ member'[i] = member[i]
  BY <1>5 DEF Agrees, Memberships
<1>6. ASSUME row[i] # None, Agrees(i), NEW c \in Clients, job[c].id = i, Store(c)
      PROVE  Agrees(i)'
  BY <1>6, StoreKeepsAgreement DEF Agrees, Memberships
<1>7. CASE row[i] # None /\ Agrees(i) /\ Stripped(i)
  BY <1>7, StripKeepsAgreement
<1>8. row[i] # None => Working(i, Between) \/ Agrees(i)
  BY <1>1 DEF MembershipFollowsRow, Agrees
<1> QED
  BY <1>2, <1>3, <1>4, <1>5, <1>6, <1>7, <1>8, PersonMoves DEF Working

\* users.service.ts remove, changeRole, update, and onboarding: a user belongs to
\* the organisation of the User row alone, with the same role in both records,
\* however requests interleave, save for the ways that MembershipFollowsRow
\* names.
THEOREM MembershipsFollowRows == Spec => []MembershipFollowsRow
<1> DEFINE Inv == Typed /\ Noticed /\ Rowless /\ InPlace /\ OneWritten /\ MembershipFollowsRow
<1>1. Init => Inv
  <2> SUFFICES ASSUME Init
               PROVE  Noticed /\ Rowless /\ InPlace /\ OneWritten /\ MembershipFollowsRow
    BY TypedInitially
  <2>1. Noticed /\ Rowless /\ InPlace /\ OneWritten
    BY DEF Init, Noticed, Rowless, InPlace, OneWritten
  <2>2. ASSUME NEW i \in Ids, row[i] # None
        PROVE  Agrees(i)
    <3>1. i = 1 /\ member[i] = [Nowhere EXCEPT ![First] = Owner(First)]
          /\ row[i] = [tenant |-> First, email |-> Founder,
                       role |-> "ADMIN", ref |-> <<First, "ADMIN">>]
      BY <2>2 DEF Init
    <3>2. Owner(First) # None
      <4>1. Owner(First) \in Membership
        BY Constants, RolesTyped DEF Owner, Membership, Roles
      <4> QED
        BY <4>1, Constants
    <3>3. member[i][First] = Owner(First)
          /\ \A u \in Tenants : u # First => member[i][u] = None
      BY <3>1, Constants DEF Nowhere
    <3> QED
      BY <3>1, <3>2, <3>3, Constants DEF Agrees, Memberships, Owner
  <2> QED
    BY <2>1, <2>2 DEF MembershipFollowsRow, Agrees
<1>2. Inv /\ [Next]_vars => Inv'
  <2> SUFFICES ASSUME Typed, Noticed, Rowless, InPlace, OneWritten, MembershipFollowsRow, [Next]_vars
               PROVE  Noticed' /\ Rowless' /\ InPlace' /\ OneWritten' /\ MembershipFollowsRow'
    BY NextKeepsTyped
  <2>1. CASE Next
    BY <2>1, NextKeepsNoticed, NextKeepsRowless, NextKeepsInPlace, NextKeepsOneWritten,
       NextKeepsMembershipFollowsRow
  <2>2. CASE UNCHANGED vars
    BY <2>2 DEF vars, db, supabase, ghosts, Noticed, Rowless, InPlace, OneWritten, Wrote,
       RoleThere, RoleRows, MembershipFollowsRow, Working, Memberships
  <2> QED
    BY <2>1, <2>2
<1> QED
  BY <1>1, <1>2, PTL DEF Spec
=============================================================================
