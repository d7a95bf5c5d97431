------------------------------ MODULE Accounts ------------------------------
(***************************************************************************)
(* Who can sign in, and with what: the first owner seeded at boot          *)
(* (src/auth/seed.ts), invitations (src/admin/api/members.ts) and the page *)
(* that accepts them (src/auth/accept.ts), and the named API keys          *)
(* (src/auth/api-keys.ts).  Each call to the auth library and each         *)
(* statement is a step; what the library does in a call is external.       *)
(***************************************************************************)
EXTENDS Naturals, FiniteSets

CONSTANTS
  Emails, Owner,   \* Owner: DISPATCHER_ADMIN_EMAIL
  Invites, To,     \* invitations, and the email of each
  Browsers,        \* requests to accept-invite
  KeyOps,          \* requests on the one API key: "rotate1", "revoke1", ...
  Rotates,         \* those that rotate it
  MaxAccountFaults \* bound on failed calls and restarts

VARIABLES
  users, orgUp, members,  \* accounts; the organization; its members
  invites,     \* invitation -> "none", "pending", "accepted", "canceled", "expired"
  boot,        \* "check", "user", "org", "up"
  accept,      \* browser -> [pc, invite]
  key,         \* the row: [secret, revoked]; secret is the operation that made it
  keyOp,       \* operation -> "todo", "read", "done", "refused"
  accountFaults,
  \* history
  cut,         \* emails whose account was made by a sequence a failure cut short
  removed      \* emails of members that were removed

AccountAssumption ==
  Rotates \subseteq KeyOps /\ "created" \notin KeyOps /\ MaxAccountFaults \in Nat

accountVars ==
  <<users, orgUp, members, invites, boot, accept, key, keyOp, accountFaults, cut, removed>>

AccountInit ==
  /\ users = {} /\ orgUp = FALSE /\ members = {}
  /\ invites = [i \in Invites |-> "none"]
  /\ boot = "check"
  /\ accept = [b \in Browsers |-> [pc |-> "idle", invite |-> "none"]]
  /\ key = [secret |-> "created", revoked |-> FALSE]
  /\ keyOp = [o \in KeyOps |-> "todo"]
  /\ accountFaults = 0 /\ cut = {} /\ removed = {}

people == <<users, orgUp, members, invites, cut, removed>>
keys == <<key, keyOp>>

-----------------------------------------------------------------------------
\* seedDefaultAdmin does nothing once any user exists.
AnyUser == users # {}

SeedCheck ==
  /\ boot = "check"
  /\ boot' = IF AnyUser THEN "up" ELSE "user"
  /\ UNCHANGED <<people, accept, keys, accountFaults>>

SeedUser ==
  /\ boot = "user"
  /\ users' = users \cup {Owner}
  /\ boot' = "org"
  /\ UNCHANGED <<orgUp, members, invites, cut, removed, accept, keys, accountFaults>>

\* createOrganization makes its creator the owner.
SeedOrg ==
  /\ boot = "org"
  /\ orgUp' = TRUE /\ members' = members \cup {Owner}
  /\ boot' = "up"
  /\ UNCHANGED <<users, invites, cut, removed, accept, keys, accountFaults>>

\* createInvitation by a member, resend: true; cancelInvitation; time.
Invite(i) ==
  /\ boot = "up" /\ orgUp /\ members # {}
  /\ To[i] \notin members
  /\ invites[i] \in {"none", "canceled", "expired"}
  /\ invites' = [invites EXCEPT ![i] = "pending"]
  /\ UNCHANGED <<users, orgUp, members, cut, removed, boot, accept, keys, accountFaults>>

Withdraw(i, how) ==
  /\ invites[i] = "pending"
  /\ how \in {"canceled", "expired"}
  /\ invites' = [invites EXCEPT ![i] = how]
  /\ UNCHANGED <<users, orgUp, members, cut, removed, boot, accept, keys, accountFaults>>

\* removeMember takes the membership and leaves the account; the library refuses to
\* remove the last owner (roles are left out: the last member).
Remove(e) ==
  /\ boot = "up" /\ e \in members /\ members # {e}
  /\ members' = members \ {e} /\ removed' = removed \cup {e}
  /\ UNCHANGED <<users, orgUp, invites, cut, boot, accept, keys, accountFaults>>

\* The page is posted: 404 unless pending, 410 once expired.
Post(b, i) ==
  /\ boot = "up"
  /\ accept[b].pc = "idle" /\ invites[i] = "pending"
  /\ accept' = [accept EXCEPT ![b] = [pc |-> "create", invite |-> i]]
  /\ UNCHANGED <<people, boot, keys, accountFaults>>

Email(b) == To[accept[b].invite]
Go(b, pc) == accept' = [accept EXCEPT ![b].pc = pc]
Back(b) == accept' = [accept EXCEPT ![b] = [pc |-> "idle", invite |-> "none"]]

\* createUser: 409 when the account exists.
CreateUser(b) ==
  /\ accept[b].pc = "create"
  /\ IF Email(b) \in users THEN Back(b) /\ UNCHANGED users
     ELSE users' = users \cup {Email(b)} /\ Go(b, "sign-in")
  /\ UNCHANGED <<orgUp, members, invites, cut, removed, boot, keys, accountFaults>>

\* signInEmail
SignIn(b) ==
  /\ accept[b].pc = "sign-in"
  /\ Go(b, "join")
  /\ UNCHANGED <<people, boot, keys, accountFaults>>

\* Mutant of Join: the invitation is marked and the membership left to its owner.
JoinLater(b) ==
  /\ accept[b].pc = "join"
  /\ invites' = [invites EXCEPT ![accept[b].invite] = "accepted"]
  /\ UNCHANGED <<members, cut>>
  /\ Back(b)
  /\ UNCHANGED <<users, orgUp, removed, boot, keys, accountFaults>>

\* acceptInvitation as that user: refused, and only logged, when the invitation
\* is no longer pending; the page answers accepted either way.
Join(b) ==
  /\ accept[b].pc = "join"
  /\ IF invites[accept[b].invite] = "pending"
       THEN /\ invites' = [invites EXCEPT ![accept[b].invite] = "accepted"]
            /\ members' = members \cup {Email(b)}
            /\ UNCHANGED cut
       ELSE cut' = cut \cup {Email(b)} /\ UNCHANGED <<invites, members>>
  /\ Back(b)
  /\ UNCHANGED <<users, orgUp, removed, boot, keys, accountFaults>>

\* A call of the page fails: createUser answers 409 as well, signInEmail 500, and
\* acceptInvitation is only logged.
CallFails(b) ==
  /\ accountFaults < MaxAccountFaults
  /\ accept[b].pc # "idle"
  /\ accountFaults' = accountFaults + 1
  /\ cut' = IF accept[b].pc = "create" THEN cut ELSE cut \cup {Email(b)}
  /\ Back(b)
  /\ UNCHANGED <<users, orgUp, members, invites, removed, boot, keys>>

-----------------------------------------------------------------------------
\* rotateApiKey and revokeApiKey: read the row, refuse it when revoked, write.
KeyRead(o) ==
  /\ keyOp[o] = "todo"
  /\ keyOp' = [keyOp EXCEPT ![o] = IF key.revoked THEN "refused" ELSE "read"]
  /\ UNCHANGED <<people, boot, accept, key, accountFaults>>

\* The UPDATE by id sets the columns of its operation only.
Written(o) == IF o \in Rotates THEN [key EXCEPT !.secret = o] ELSE [key EXCEPT !.revoked = TRUE]

KeyWrite(o) ==
  /\ keyOp[o] = "read"
  /\ key' = Written(o)
  /\ keyOp' = [keyOp EXCEPT ![o] = "done"]
  /\ UNCHANGED <<people, boot, accept, accountFaults>>

\* verifyApiKey: the row with this hash that is not revoked.
Verifies(secret) == key.secret = secret /\ ~key.revoked

\* The process dies and boots again; what the library wrote stays.
AccountCrash ==
  /\ accountFaults < MaxAccountFaults
  /\ accountFaults' = accountFaults + 1
  /\ boot' = "check"
  /\ cut' = cut \cup (IF boot = "org" THEN {Owner} ELSE {})
                \cup {Email(b) : b \in {x \in Browsers : accept[x].pc \in {"sign-in", "join"}}}
  /\ accept' = [b \in Browsers |-> [pc |-> "idle", invite |-> "none"]]
  /\ keyOp' = [o \in KeyOps |-> IF keyOp[o] = "read" THEN "refused" ELSE keyOp[o]]
  /\ UNCHANGED <<users, orgUp, members, invites, removed, key>>

AccountNext ==
  \/ SeedCheck \/ SeedUser \/ SeedOrg
  \/ \E i \in Invites : Invite(i) \/ (\E how \in {"canceled", "expired"} : Withdraw(i, how))
                          \/ (\E b \in Browsers : Post(b, i))
  \/ \E e \in Emails : Remove(e)
  \/ \E b \in Browsers : CreateUser(b) \/ SignIn(b) \/ Join(b) \/ CallFails(b)
  \/ \E o \in KeyOps : KeyRead(o) \/ KeyWrite(o)
  \/ AccountCrash

AccountSpec == AccountInit /\ [][AccountNext]_accountVars

-----------------------------------------------------------------------------
\* Whoever has an account is a member, or is on the way, or was removed by one, or a
\* failed call, a restart or a withdrawn invitation cut the sequence that made the
\* account; two pages posted for one invitation make one account (accept.ts, seed.ts).
AccountsAreMembers ==
  \A e \in users \ members :
    \/ e \in cut \cup removed
    \/ e = Owner /\ boot = "org"
    \/ \E b \in Browsers : accept[b].pc \in {"sign-in", "join"} /\ Email(b) = e

\* A revoked key stays dead, whatever rotation was under way; and until then, of the
\* keys that rotations gave out, one works, however they overlapped (api-keys.ts).
KeysHold ==
  /\ (\E o \in KeyOps \ Rotates : keyOp[o] = "done") => ~\E s \in KeyOps \cup {"created"} : Verifies(s)
  /\ (\A o \in KeyOps \ Rotates : keyOp[o] # "done") /\ (\E o \in Rotates : keyOp[o] = "done")
       => \E o \in Rotates : keyOp[o] = "done" /\ Verifies(o)

AccountsHold == AccountsAreMembers /\ KeysHold

\* seed.ts: idempotent, so that a fresh deployment is immediately usable.
UpIsUsable == boot = "up" => orgUp

\* docs/development.md: a brand-new invitee sets a name and password and is signed
\* straight into the console; an account made for an invitation can join by it.
CreatedCanJoin ==
  \A i \in Invites : invites[i] = "pending" =>
    To[i] \notin users \/ \E b \in Browsers : accept[b].invite = i
=============================================================================
