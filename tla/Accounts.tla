------------------------------ MODULE Accounts ------------------------------
(***************************************************************************)
(* The people of the organisations: UsersService, OnboardingService and    *)
(* the deletions of TenantsService and RolesService.                       *)
(*                                                                         *)
(* A person is three records in two systems that share no transaction: an  *)
(* account at Supabase, a User row whose id is the account's, and a        *)
(* UserTenant row per organisation.  Every request is a chain of awaits    *)
(* over them.  Requests about users come from another administrator of the *)
(* organisation; names, phones and the spaces a user may see are left out. *)
(***************************************************************************)
EXTENDS Naturals, FiniteSets

CONSTANTS
    Clients,      \* requests that may run at once
    Tenants,
    First,        \* the organisation there is from the start
    Emails,
    Founder,      \* the address of its owner
    None,         \* no row
    MaxIds,       \* bound: accounts ever made
    MaxRequests,  \* bound: requests
    MaxFaults     \* bound: calls that fail

ASSUME AccountsAssumption ==
    /\ First \in Tenants /\ Founder \in Emails /\ "unused" \notin Emails
    /\ MaxIds \in Nat \ {0} /\ MaxRequests \in Nat /\ MaxFaults \in Nat

VARIABLES
    account,   \* [Ids -> address of the Supabase account, or "unused"]
    live,      \* ids whose account has not been deleted
    signedIn,  \* ids of people who hold a token of theirs
    row,       \* [Ids -> User row or None]
    member,    \* [Ids -> [Tenants -> UserTenant row or None]]
    org,       \* [Tenants -> "unused", "open" or "deleted"]
    custom,    \* organisations that have a role of their own making
    at,        \* next step of each request
    job,       \* [Clients -> the request and what it has read]
    requests,  \* requests made
    faults,    \* calls that failed
    doubled,   \* history: ids two requests were handled for at once
    broken,    \* history: ids a call failed for amid the writes of a request
    invited,   \* history: ids administrators made
    stranded,  \* history: ids that lost one record by another way
    restyled   \* history: ids whose User row alone was given a role

db == <<row, member, org, custom>>
supabase == <<account, live, signedIn>>
ghosts == <<doubled, broken, invited, stranded, restyled>>
vars == <<db, supabase, at, job, requests, faults, ghosts>>

Ids == 1..MaxIds
Roles == {"ADMIN", "VIEWER"}  \* two values of the legacy enum
NoRole == <<>>                \* a null roleId
NoId == 0

\* The Role rows of t: one per system role and, perhaps, a custom one.
RoleRows(t) == {x \in {t} : org[t] = "open"} \X (Roles \union {x \in {"custom"} : t \in custom})
\* systemKey of a role, or VIEWER (resolveRole).
KeyOf(ref) == IF ref[2] = "custom" THEN "VIEWER" ELSE ref[2]
AnyRole == Tenants \X (Roles \union {"custom"})

NoJob == [tenant |-> First, id |-> NoId, email |-> Founder, role |-> "VIEWER",
          ref |-> NoRole, own |-> FALSE, flag |-> FALSE]

User == [tenant : Tenants, email : Emails, role : Roles, ref : AnyRole \union {NoRole}]
Membership == [role : Roles, ref : AnyRole \union {NoRole}, owner : BOOLEAN]

ASSUME NoneIsNoRow == None \notin User \union Membership

Kept == "kept"  \* a field that a request of update does not name

Steps == {"idle", "lookup", "attach", "provision", "mirror", "undo", "status", "count",
          "teardown", "drop", "again", "leave", "remaining", "deleteRow", "deleteAccount",
          "row", "member", "update", "join", "organize", "deleteRole"}
Job == [tenant : Tenants, id : Ids \union {NoId}, email : Emails \union {Kept},
        role : Roles \union {Kept}, ref : AnyRole \union {NoRole},
        own : BOOLEAN, flag : BOOLEAN]

Used == {i \in Ids : account[i] # "unused"}

TypeOK ==
    /\ account \in [Ids -> Emails \union {"unused"}]
    /\ live \union signedIn \union invited \subseteq Used
    /\ row \in [Ids -> User \union {None}]
    /\ member \in [Ids -> [Tenants -> Membership \union {None}]]
    /\ org \in [Tenants -> {"unused", "open", "deleted"}]
    /\ custom \subseteq Tenants
    /\ at \in [Clients -> Steps] /\ job \in [Clients -> Job]
    /\ requests \in 0..MaxRequests /\ faults \in 0..MaxFaults
    /\ doubled \union broken \union stranded \union restyled \subseteq Ids

Owner(t) == [role |-> "ADMIN", ref |-> <<t, "ADMIN">>, owner |-> TRUE]
Nowhere == [t \in Tenants |-> None]

Init ==
    /\ account = [i \in Ids |-> IF i = 1 THEN Founder ELSE "unused"]
    /\ live = {1} /\ signedIn = {1}
    /\ row = [i \in Ids |-> IF i = 1 THEN [tenant |-> First, email |-> Founder,
                                          role |-> "ADMIN", ref |-> <<First, "ADMIN">>]
                            ELSE None]
    /\ member = [i \in Ids |-> IF i = 1 THEN [Nowhere EXCEPT ![First] = Owner(First)]
                               ELSE Nowhere]
    /\ org = [t \in Tenants |-> IF t = First THEN "open" ELSE "unused"]
    /\ custom = {First}
    /\ at = [c \in Clients |-> "idle"]
    /\ job = [c \in Clients |-> NoJob]
    /\ requests = 0 /\ faults = 0
    /\ doubled = {} /\ broken = {} /\ invited = {} /\ stranded = {} /\ restyled = {}

----------------------------------------------------------------------------
AccountsOf(e) == {i \in live : account[i] = e}
UsersOf(t) == {i \in Ids : row[i] # None /\ row[i].tenant = t}
Registered(e, t) == \E i \in UsersOf(t) : row[i].email = e
Memberships(i) == {t \in Tenants : member[i][t] # None}
Unused == Ids \ Used
Fresh == CHOOSE i \in Unused : \A k \in Unused : i <= k

\* c works on step s of job j next; two jobs on one person are noted.
Step(c, s, j) ==
    /\ at' = [at EXCEPT ![c] = s]
    /\ job' = [job EXCEPT ![c] = IF s = "idle" THEN NoJob ELSE j]
    /\ doubled' = IF s # "idle" /\ j.id # NoId
                     /\ \E d \in Clients \ {c} : at[d] # "idle" /\ job[d].id = j.id
                  THEN doubled \union {j.id} ELSE doubled
Goto(c, s) == Step(c, s, job[c])
Ends(c) == Goto(c, "idle")

\* A request arrives and makes its first reads.
Arrives(c, s, j) ==
    /\ at[c] = "idle" /\ requests < MaxRequests
    /\ requests' = requests + 1
    /\ Step(c, s, j)
    /\ UNCHANGED <<db, supabase, faults, broken, invited, stranded, restyled>>

\* A step that reads, and what every step that only writes db leaves alone.
Reads(c) == UNCHANGED <<db, supabase, requests, faults, broken, invited, stranded, restyled>>
Writes(c) == UNCHANGED <<supabase, requests, faults, broken, invited>>

\* A call fails: before the request wrote anything, or amid its writes.
Fault == faults < MaxFaults /\ faults' = faults + 1
Fails(c, hit) ==
    /\ Fault
    /\ broken' = broken \union hit
    /\ UNCHANGED <<db, supabase, requests, invited, stranded, restyled>>
Throws(c) == Ends(c) /\ Fails(c, {})
ThrowsAmid(c) == Ends(c) /\ Fails(c, {job[c].id})

----------------------------------------------------------------------------
\* Rows disappear.

\* onDelete: Cascade takes the memberships with the User row.
DropUsers(S) ==
    /\ row' = [i \in Ids |-> IF i \in S THEN None ELSE row[i]]
    /\ member' = [i \in Ids |-> IF i \in S THEN Nowhere ELSE member[i]]
    /\ UNCHANGED <<org, custom>>

\* onDelete: SetNull on the references to a role.
Without(x, lost) ==
    IF x = None THEN None ELSE [x EXCEPT !.ref = IF @ \in lost THEN NoRole ELSE @]

\* TenantsService.hardDelete: the organisation, its roles and its users.
HardDelete(t) ==
    LET lost == {t} \X (Roles \union {"custom"})
    IN  /\ org[t] = "open" /\ requests < MaxRequests
        /\ requests' = requests + 1
        /\ org' = [org EXCEPT ![t] = "deleted"]
        /\ custom' = custom \ {t}
        /\ row' = [i \in Ids |-> IF i \in UsersOf(t) THEN None ELSE Without(row[i], lost)]
        /\ member' = [i \in Ids |-> IF i \in UsersOf(t) THEN Nowhere
                         ELSE [u \in Tenants |-> IF u = t THEN None ELSE Without(member[i][u], lost)]]
        /\ stranded' = stranded \union UsersOf(t)
        /\ UNCHANGED <<supabase, at, job, faults, doubled, broken, invited, restyled>>

\* RolesService.remove: counted as unused, then deleted.
RemoveRole(c, t) ==
    /\ t \in custom
    /\ \A i \in Ids : /\ row[i] # None => row[i].ref # <<t, "custom">>
                      /\ \A u \in Memberships(i) : member[i][u].ref # <<t, "custom">>
    /\ Arrives(c, "deleteRole", [NoJob EXCEPT !.tenant = t])

DeleteRole(c) ==
    LET t == job[c].tenant
        lost == {<<t, "custom">>}
    IN  /\ at[c] = "deleteRole"
        /\ custom' = custom \ {t}
        /\ row' = [i \in Ids |-> Without(row[i], lost)]
        /\ member' = [i \in Ids |-> [u \in Tenants |-> Without(member[i][u], lost)]]
        /\ Ends(c)
        /\ UNCHANGED <<org, stranded, restyled>> /\ Writes(c)

----------------------------------------------------------------------------
\* create and invite: the account first, the rows next, an undo if that fails.

Ask(t, e, ref) ==
    [NoJob EXCEPT !.tenant = t, !.email = e, !.role = KeyOf(ref), !.ref = ref]

Create(c, t, e, ref) ==
    /\ ref \in RoleRows(t) /\ ~Registered(e, t)
    /\ Arrives(c, "provision", Ask(t, e, ref))

Invite(c, t, e, ref) ==
    /\ ref \in RoleRows(t) /\ ~Registered(e, t)
    /\ Arrives(c, "lookup", Ask(t, e, ref))

\* getUserByEmail; an error of Supabase reads as: there is no such account.
Lookup(c) ==
    /\ at[c] = "lookup"
    /\ IF AccountsOf(job[c].email) = {} THEN Goto(c, "provision")
       ELSE \E i \in AccountsOf(job[c].email) : Step(c, "attach", [job[c] EXCEPT !.id = i])
    /\ Reads(c)

LookupFails(c) == at[c] = "lookup" /\ Goto(c, "provision") /\ Fails(c, {})

\* An account that has a User row, here or elsewhere, is a conflict.
Attach(c) ==
    /\ at[c] = "attach"
    /\ IF row[job[c].id] = None THEN Goto(c, "mirror") ELSE Ends(c)
    /\ Reads(c)

\* createUser, inviteUserByEmail: refused for an address that has an account.
Provision(c) ==
    /\ at[c] = "provision" /\ Unused # {}
    /\ AccountsOf(job[c].email) = {}
    /\ account' = [account EXCEPT ![Fresh] = job[c].email]
    /\ live' = live \union {Fresh}
    /\ invited' = invited \union {Fresh}
    /\ Step(c, "mirror", [job[c] EXCEPT !.id = Fresh, !.own = TRUE])
    /\ UNCHANGED <<db, signedIn, requests, faults, broken, stranded, restyled>>

ProvisionRefused(c) ==
    /\ at[c] = "provision"
    /\ AccountsOf(job[c].email) # {}
    /\ Ends(c) /\ Reads(c)

\* The transaction of create and createMembership, against the constraints.
Insertable(j) ==
    /\ row[j.id] = None /\ org[j.tenant] = "open"
    /\ j.ref \in RoleRows(j.tenant) \union {NoRole}
    /\ ~Registered(j.email, j.tenant)
InsertUser(j, owner) ==
    /\ row' = [row EXCEPT ![j.id] =
                 [tenant |-> j.tenant, email |-> j.email, role |-> j.role, ref |-> j.ref]]
    /\ member' = [member EXCEPT ![j.id][j.tenant] =
                    [role |-> j.role, ref |-> j.ref, owner |-> owner]]

Mirror(c) ==
    /\ at[c] = "mirror" /\ Insertable(job[c])
    /\ InsertUser(job[c], FALSE)
    /\ Ends(c)
    /\ UNCHANGED <<org, custom, stranded, restyled>> /\ Writes(c)

\* MUTANT of Undoes: nothing is taken back.
NoUndo(c) == Ends(c)

\* Only an account this request made is taken back.
Undoes(c) == Goto(c, IF job[c].own THEN "undo" ELSE "idle")
MirrorRefused(c) == at[c] = "mirror" /\ ~Insertable(job[c]) /\ Undoes(c) /\ Reads(c)
MirrorFails(c) == at[c] = "mirror" /\ Undoes(c) /\ Fails(c, {})

DeleteAccountOf(c) ==
    /\ live' = live \ {job[c].id}
    /\ UNCHANGED <<db, account, signedIn, requests, faults, broken, invited, stranded, restyled>>

\* deleteUser of Supabase swallows its errors.
Undo(c) == at[c] = "undo" /\ Ends(c) /\ DeleteAccountOf(c)
UndoFails(c) == at[c] = "undo" /\ ThrowsAmid(c)

----------------------------------------------------------------------------
\* reinvite: account and rows are torn down, then the person is invited again.

Reinvite(c, i) ==
    /\ row[i] # None
    /\ Arrives(c, "status", [NoJob EXCEPT !.tenant = row[i].tenant, !.id = i,
                 !.email = row[i].email, !.role = row[i].role, !.ref = row[i].ref])

\* MUTANT of Status: whoever has signed in is torn down as well.
StatusUnread(c) ==
    /\ at[c] = "status"
    /\ Step(c, "count", [job[c] EXCEPT !.flag = job[c].id \notin live])
    /\ Reads(c)

Status(c) ==
    /\ at[c] = "status"
    /\ IF job[c].id \in live \intersect signedIn THEN Ends(c)
       ELSE Step(c, "count", [job[c] EXCEPT !.flag = job[c].id \notin live])
    /\ Reads(c)

\* getUserById returns null on an error, as for an account that is gone: as if
\* the person had never signed in.
StatusFails(c) ==
    /\ at[c] = "status"
    /\ Step(c, "count", [job[c] EXCEPT !.flag = TRUE])
    /\ Fails(c, {})

Count(c) ==
    /\ at[c] = "count"
    /\ IF Cardinality(Memberships(job[c].id)) > 1 THEN Ends(c) ELSE Goto(c, "teardown")
    /\ Reads(c)

Teardown(c) == at[c] = "teardown" /\ Goto(c, "drop") /\ DeleteAccountOf(c)
TeardownFails(c) == at[c] = "teardown" /\ Goto(c, "drop") /\ Fails(c, {job[c].id})

Drop(c) ==
    /\ at[c] = "drop"
    /\ IF row[job[c].id] = None
       THEN Ends(c) /\ UNCHANGED db
       ELSE Goto(c, "again") /\ DropUsers({job[c].id})
    /\ UNCHANGED <<stranded, restyled>> /\ Writes(c)

DropFails(c) == at[c] = "drop" /\ ThrowsAmid(c)

\* The invitation: a role lost meanwhile, or a new namesake, ends it.
Resolved(j) ==
    IF j.ref # NoRole THEN {j.ref} \intersect RoleRows(j.tenant)
    ELSE IF <<j.tenant, j.role>> \in RoleRows(j.tenant) THEN {<<j.tenant, j.role>>} ELSE {NoRole}

\* MUTANT of Again: the rows are made for the account torn down.
AgainWithOldId(c) ==
    LET j == job[c]
    IN  /\ at[c] = "again"
        /\ IF Registered(j.email, j.tenant) \/ Resolved(j) = {}
           THEN Ends(c)
           ELSE \E ref \in Resolved(j) : Step(c, "mirror", [j EXCEPT !.ref = ref])
        /\ Reads(c)

Again(c) ==
    LET j == job[c]
    IN  /\ at[c] = "again"
        /\ IF Registered(j.email, j.tenant) \/ Resolved(j) = {}
           THEN Ends(c)
           ELSE \E ref \in Resolved(j) : Step(c, "lookup", [NoJob EXCEPT
                    !.tenant = j.tenant, !.email = j.email, !.ref = ref,
                    !.role = IF ref = NoRole THEN j.role ELSE KeyOf(ref)])
        /\ Reads(c)

----------------------------------------------------------------------------
\* remove: this organisation's membership, then the User row, then the account
\* of a person who belongs to no other organisation.

Remove(c, i) ==
    /\ row[i] # None
    /\ LET m == member[i][row[i].tenant] IN m # None => ~m.owner
    /\ Arrives(c, "leave", [NoJob EXCEPT !.tenant = row[i].tenant, !.id = i])

Leave(c) ==
    /\ at[c] = "leave"
    /\ member' = [member EXCEPT ![job[c].id][job[c].tenant] = None]
    /\ Goto(c, "remaining")
    /\ UNCHANGED <<row, org, custom, stranded, restyled>> /\ Writes(c)

Remaining(c) ==
    /\ at[c] = "remaining"
    /\ Step(c, "deleteRow", [job[c] EXCEPT !.flag = Memberships(job[c].id) = {}])
    /\ Reads(c)

\* The row goes whatever remains, and every membership with it.
DeleteRow(c) ==
    LET i == job[c].id
    IN  /\ at[c] = "deleteRow"
        /\ IF row[i] = None
           THEN Ends(c) /\ UNCHANGED <<db, stranded>>
           ELSE /\ Goto(c, IF job[c].flag THEN "deleteAccount" ELSE "idle")
                /\ DropUsers({i})
                /\ stranded' = IF job[c].flag THEN stranded ELSE stranded \union {i}
        /\ UNCHANGED restyled /\ Writes(c)

RemoveThrows(c) == at[c] \in {"remaining", "deleteRow"} /\ ThrowsAmid(c)
DeleteAccount(c) == at[c] = "deleteAccount" /\ Ends(c) /\ DeleteAccountOf(c)
DeleteAccountFails(c) == at[c] = "deleteAccount" /\ ThrowsAmid(c)

----------------------------------------------------------------------------
\* changeRole writes the role of the User row, then that of the membership;
\* update writes the legacy role of the row alone.

ChangeRole(c, i, ref) ==
    /\ row[i] # None /\ ref \in RoleRows(row[i].tenant)
    /\ LET m == member[i][row[i].tenant] IN m # None /\ m.owner => KeyOf(ref) = "ADMIN"
    /\ Arrives(c, "row", [NoJob EXCEPT !.tenant = row[i].tenant, !.id = i,
                                       !.role = KeyOf(ref), !.ref = ref])

Assigned(x, j) == IF x = None THEN None ELSE [x EXCEPT !.role = j.role, !.ref = j.ref]
RoleThere(j) == j.ref \in RoleRows(j.tenant)

\* MUTANT of WriteRow: the membership is left as it is.
WriteRowAlone(c) ==
    LET j == job[c]
    IN  /\ at[c] = "row"
        /\ IF row[j.id] # None /\ RoleThere(j)
           THEN row' = [row EXCEPT ![j.id] = Assigned(@, j)]
           ELSE UNCHANGED row
        /\ Ends(c)
        /\ UNCHANGED <<member, org, custom, stranded, restyled>> /\ Writes(c)

WriteRow(c) ==
    LET j == job[c]
    IN  /\ at[c] = "row"
        /\ IF row[j.id] # None /\ RoleThere(j)
           THEN Goto(c, "member") /\ row' = [row EXCEPT ![j.id] = Assigned(@, j)]
           ELSE Ends(c) /\ UNCHANGED row
        /\ UNCHANGED <<member, org, custom, stranded, restyled>> /\ Writes(c)

WriteMember(c) ==
    LET j == job[c]
    IN  /\ at[c] = "member" /\ RoleThere(j)
        /\ member' = [member EXCEPT ![j.id][j.tenant] = Assigned(@, j)]
        /\ Ends(c)
        /\ UNCHANGED <<row, org, custom, stranded, restyled>> /\ Writes(c)

\* The foreign key refuses a role that was deleted since the row was written.
WriteMemberRefused(c) ==
    /\ at[c] = "member" /\ ~RoleThere(job[c])
    /\ Ends(c)
    /\ broken' = broken \union {job[c].id}
    /\ UNCHANGED <<db, supabase, requests, faults, invited, stranded, restyled>>

WriteMemberFails(c) == at[c] = "member" /\ ThrowsAmid(c)

Given(new, old) == IF new = Kept THEN old ELSE new
Edited(x, j) == [x EXCEPT !.role = Given(j.role, @), !.email = Given(j.email, @)]

Update(c, i, role, e) ==
    /\ row[i] # None
    /\ Arrives(c, "update", [NoJob EXCEPT !.tenant = row[i].tenant, !.id = i,
                                          !.role = role, !.email = e])

\* By id alone, wherever the row is now; the account keeps its address.
Store(c) ==
    LET j == job[c]
        x == row[j.id]
        taken == \E i \in UsersOf(x.tenant) \ {j.id} : row[i].email = j.email
    IN  /\ at[c] = "update"
        /\ IF x = None \/ taken
           THEN UNCHANGED <<row, restyled>>
           ELSE /\ row' = [row EXCEPT ![j.id] = Edited(@, j)]
                /\ restyled' = IF j.role = Kept THEN restyled ELSE restyled \union {j.id}
        /\ Ends(c)
        /\ UNCHANGED <<member, org, custom, stranded>> /\ Writes(c)

----------------------------------------------------------------------------
\* People at Supabase, and the onboarding of those who have no User row.

SignUp(e) ==
    /\ AccountsOf(e) = {} /\ Unused # {} /\ requests < MaxRequests
    /\ requests' = requests + 1
    /\ account' = [account EXCEPT ![Fresh] = e]
    /\ live' = live \union {Fresh}
    /\ signedIn' = signedIn \union {Fresh}
    /\ UNCHANGED <<db, at, job, faults, ghosts>>

SignIn(i) ==
    /\ i \in live \ signedIn
    /\ signedIn' = signedIn \union {i}
    /\ UNCHANGED <<db, account, live, at, job, requests, faults, ghosts>>

\* A token outlives the account it was made for.
Joining(i, t) == [NoJob EXCEPT !.tenant = t, !.id = i, !.email = account[i]]

\* joinTenant, joinByInvitationCode.
Join(c, i, t) ==
    /\ i \in signedIn /\ org[t] = "open" /\ row[i] = None
    /\ Arrives(c, "join", Joining(i, t))

Outlived(i) == IF i \in live THEN stranded ELSE stranded \union {i}

JoinCommit(c) ==
    /\ at[c] = "join" /\ Insertable(job[c])
    /\ InsertUser(job[c], FALSE)
    /\ stranded' = Outlived(job[c].id)
    /\ Ends(c)
    /\ UNCHANGED <<org, custom, restyled>> /\ Writes(c)

JoinRefused(c) == at[c] = "join" /\ ~Insertable(job[c]) /\ Ends(c) /\ Reads(c)

CreateOrganization(c, i, t) ==
    /\ i \in signedIn /\ org[t] = "unused"
    /\ row[i] = None /\ Memberships(i) = {}
    /\ Arrives(c, "organize", Joining(i, t))

\* A row that came meanwhile keeps its organisation and gets the new role.
Organize(c) ==
    LET j == job[c]
        ref == <<j.tenant, "ADMIN">>
    IN  /\ at[c] = "organize" /\ org[j.tenant] = "unused"
        /\ org' = [org EXCEPT ![j.tenant] = "open"]
        /\ row' = [row EXCEPT ![j.id] =
                     IF @ = None
                     THEN [tenant |-> j.tenant, email |-> j.email, role |-> "ADMIN", ref |-> ref]
                     ELSE [@ EXCEPT !.ref = ref]]
        /\ member' = [member EXCEPT ![j.id][j.tenant] = Owner(j.tenant)]
        /\ stranded' = Outlived(j.id)
        /\ Ends(c)
        /\ UNCHANGED <<custom, restyled>> /\ Writes(c)

\* No step before the first write fails any other way than a request not made.
FirstWriteFails(c) ==
    /\ at[c] \in {"provision", "leave", "row", "update", "join", "organize", "deleteRole"}
    /\ Throws(c)

----------------------------------------------------------------------------
Request(c) ==
    \/ \E t \in Tenants, e \in Emails : \E ref \in RoleRows(t) : Create(c, t, e, ref)
    \/ \E t \in Tenants, e \in Emails : \E ref \in RoleRows(t) : Invite(c, t, e, ref)
    \/ \E i \in Ids : Reinvite(c, i)
    \/ \E i \in Ids : Remove(c, i)
    \/ \E i \in Ids, ref \in AnyRole : ChangeRole(c, i, ref)
    \/ \E i \in Ids, role \in Roles \union {Kept}, e \in Emails \union {Kept} : Update(c, i, role, e)
    \/ \E i \in Ids, t \in Tenants : Join(c, i, t)
    \/ \E i \in Ids, t \in Tenants : CreateOrganization(c, i, t)
    \/ \E t \in Tenants : RemoveRole(c, t)

Continue(c) ==
    \/ Lookup(c) \/ LookupFails(c) \/ Attach(c)
    \/ Provision(c) \/ ProvisionRefused(c)
    \/ Mirror(c) \/ MirrorRefused(c) \/ MirrorFails(c) \/ Undo(c) \/ UndoFails(c)
    \/ Status(c) \/ StatusFails(c) \/ Count(c)
    \/ Teardown(c) \/ TeardownFails(c) \/ Drop(c) \/ DropFails(c) \/ Again(c)
    \/ Leave(c) \/ Remaining(c) \/ DeleteRow(c) \/ RemoveThrows(c)
    \/ DeleteAccount(c) \/ DeleteAccountFails(c)
    \/ WriteRow(c) \/ WriteMember(c) \/ WriteMemberRefused(c) \/ WriteMemberFails(c)
    \/ Store(c) \/ JoinCommit(c) \/ JoinRefused(c) \/ Organize(c)
    \/ DeleteRole(c) \/ FirstWriteFails(c)

Next ==
    \/ \E c \in Clients : Request(c) \/ Continue(c)
    \/ \E t \in Tenants : HardDelete(t)
    \/ \E e \in Emails : SignUp(e)
    \/ \E i \in Ids : SignIn(i)

Spec == Init /\ [][Next]_vars

----------------------------------------------------------------------------
\* An owner stays one: neither a removal, a role change nor another invitation
\* takes the ADMIN membership of the owner of an organisation that exists.
\* Four holes are known: the organisation is deleted; the User row belongs to
\* another organisation; a removal from another one deletes the row; or a
\* reinvitation found no account and took the owner for a guest.
OwnsIn(m) == m # None /\ m.owner /\ m.role = "ADMIN"
OwnersStay ==
    [][\A i \in Ids, t \in Tenants :
         OwnsIn(member[i][t]) /\ ~OwnsIn(member'[i][t]) =>
            \/ org'[t] = "deleted"
            \/ row[i].tenant # t
            \/ \E c \in Clients : /\ job[c].id = i
                                  /\ \/ at[c] \in {"deleteRow", "drop"} /\ job[c].tenant # t
                                     \/ at[c] = "drop" /\ job[c].flag]_vars

Working(i, steps) == \E c \in Clients : job[c].id = i /\ at[c] \in steps

\* Whoever has a User row can sign in, the account exists: unless two requests
\* were handled for the person at once, a reinvitation stopped half-way, or the
\* row was made with the token of an account deleted before.
RowsHaveAccounts ==
    \A i \in Ids : row[i] # None =>
        \/ i \in live
        \/ i \in doubled \union broken \union stranded
        \/ Working(i, {"drop"})

\* No account an administrator made is left without User row, whatever the
\* requests that cross: unless a deletion at Supabase failed or never came,
\* the organisation was deleted, or a removal saw another membership.
NoOrphans ==
    \A i \in invited \intersect live : row[i] = None =>
        \/ i \in broken \union stranded
        \/ Working(i, {"mirror", "undo", "deleteAccount"})

\* A user belongs to the one organisation of the User row, with the same role
\* in both records: unless two requests were handled for the person at once, a
\* request stopped between the two writes, or update changed the row alone.
MembershipFollowsRow ==
    \A i \in Ids : row[i] # None =>
        \/ i \in doubled \union broken \union restyled
        \/ Working(i, {"remaining", "deleteRow", "member"})
        \/ /\ Memberships(i) = {row[i].tenant}
           /\ LET m == member[i][row[i].tenant]
              IN  m.role = row[i].role /\ m.ref = row[i].ref
=============================================================================
