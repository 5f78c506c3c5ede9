------------------------------ MODULE Accounts ------------------------------
(***************************************************************************)
(* One mail address: its mailbox on the mail server, its customer and      *)
(* account in app.db, and every key that opens what the account stores.    *)
(*                                                                         *)
(* - Customers: login with its second factor and logout (auth.py), API     *)
(*   access and tokens (api_settings.py, token_service.py), OAuth          *)
(*   (oauth.py), push subscriptions (push.py, push_keys.py).               *)
(* - Administrators (admin.py, admin/controllers/auth.py) and the          *)
(*   provisioning API create, reset and delete; their calls of the         *)
(*   mail API (mail-api/server.py) are HTTP requests during which anything *)
(*   else may run, and which may fail or be carried out unanswered.        *)
(*                                                                         *)
(* Requests run as greenlets of one process: they switch only while they   *)
(* wait for IMAP or HTTP, so what is between two such waits is one step.   *)
(* A customer made anew gets the id of the deleted one (SQLite reuses the  *)
(* highest), so what is kept under the id stays.                           *)
(*                                                                         *)
(* A definition named Slip... is the definition after it with one mistake. *)
(***************************************************************************)
EXTENDS Naturals, Sequences, FiniteSets

CONSTANTS
  Browsers,  \* the customer's browsers
  Desks,     \* requests of administrators and of the provisioning API at once
  MaxPw,     \* the bound on passwords
  MaxAsked,  \* the bound on such requests while the customer has not logged in
  MaxMet,    \* the bound on them once the customer has
  MaxKept,   \* the bound on tokens and access tokens
  None

ASSUME AccountsAssumption ==
  /\ MaxPw \in Nat \ {0} /\ MaxKept \in Nat /\ MaxAsked \in Nat /\ MaxMet \in Nat /\ MaxMet <= MaxAsked
  /\ None \notin Desks

Passwords == 1..MaxPw
Cred(p) == [by |-> "credential", n |-> p]  \* derive_key
Random == [by |-> "random", n |-> 0]       \* generate_dek
Keys == {Cred(p) : p \in Passwords} \union {Random}

VARIABLES
  domain,   \* the row in domains: is_active, and status = "complete"
  served,   \* the domain is in Postfix's virtual_domains
  mailbox,  \* the password in Dovecot's users file, None without mailbox
  user,     \* the customer's row in users
  account,  \* the row in customer_accounts
  cache,    \* the key of the cache file, None without one
  mem,      \* _user_keys
  sess,     \* browser |-> its session
  enroll,   \* browsers with _pending_totp_secret
  trusted,  \* browsers with a valid trusted-device cookie
  login,    \* browser |-> the password IMAP accepted, of a login under way
  tokens,   \* the keys wrapped in API tokens
  code,     \* whether an authorization code is open
  grants,   \* the keys wrapped in OAuth access tokens
  push,     \* the subscription, and the key in push_key_store
  desk,     \* desk |-> its request
  asked,    \* requests so far
  torn,     \* the last call about the domain failed or overlapped with another
  solo      \* the request whose call about the domain has overlapped with none

local == <<user, account>>
remote == <<served, mailbox>>
browser == <<sess, enroll, trusted, login>>
access == <<tokens, code, grants>>
office == <<desk, asked, torn, solo>>
vars == <<domain, remote, local, cache, mem, browser, access, push, office>>

NewUser == [active |-> TRUE, totp |-> FALSE]
NewAccount ==
  [active |-> TRUE, secret |-> None, path |-> FALSE,
   wrapped |-> None, api |-> FALSE, link |-> FALSE]
Out == [stage |-> "out", key |-> None]
Idle == [calls |-> <<>>, pw |-> None, then |-> "idle", failed |-> FALSE]

\* Without a domain, or with one that is on or off; with a mailbox, or an
\* invited customer who has none yet, or neither.
Init ==
  /\ \/ domain = None
     \/ \E on \in BOOLEAN : domain = [active |-> on, complete |-> TRUE]
  /\ served = (domain # None /\ domain.active)
  /\ mailbox \in {None, 1}
  /\ \/ user = None /\ account = None
     \/ domain # None /\ mailbox = None /\ user = NewUser /\ account = [NewAccount EXCEPT !.link = TRUE]
  /\ cache = None /\ mem = None
  /\ sess = [b \in Browsers |-> Out]
  /\ enroll = {} /\ trusted = {}
  /\ login = [b \in Browsers |-> None]
  /\ tokens = {} /\ code = FALSE /\ grants = {}
  /\ push = [sub |-> "none", stored |-> None]
  /\ desk = [d \in Desks |-> Idle]
  /\ asked = 0 /\ torn = FALSE /\ solo = None

Met == (account # None /\ account.secret # None) \/ \E b \in Browsers : login[b] # None
CanAsk == asked < (IF Met THEN MaxMet ELSE MaxAsked)

Live == domain # None /\ domain.active /\ domain.complete
In(b) == sess[b].stage = "in"

\* create_customer waits for the mail API with its rows written and not yet
\* committed: until then every other writer of app.db ends in an error.
Writable == \A d \in Desks : desk[d].then # "create"

-----------------------------------------------------------------------------
(* Login *)

\* The first part of login: the domain is on and IMAP takes the password.
LoginImap(b) ==
  /\ login[b] = None /\ mailbox # None /\ asked <= MaxMet
  /\ domain # None /\ domain.active
  /\ login' = [login EXCEPT ![b] = mailbox]
  /\ UNCHANGED <<domain, remote, local, cache, mem, sess, enroll, trusted, access, push, office>>

\* _resolve_login_key
LoginKey(a, p) ==
  IF a.api /\ a.wrapped # None /\ a.wrapped.under = Cred(p) THEN a.wrapped.dek ELSE Cred(p)

\* store_push_dek_if_subscribed, with k in _user_keys
Rearmed(k) == IF k # None /\ push.sub = "on" THEN [push EXCEPT !.stored = k] ELSE push

\* The rest of login, for a customer that may be new.
LoginFinish(b) ==
  /\ login[b] # None /\ (domain # None \/ user # None) /\ Writable
  /\ user # None => user.active
  /\ LET p == login[b]
         u == IF user = None THEN NewUser ELSE user
         a == IF account = None THEN NewAccount ELSE account
         k == LoginKey(a, p)
         done == ~u.totp \/ b \in trusted
     IN  /\ user' = u
         /\ account' = [a EXCEPT !.path = TRUE,
                                 !.secret = [pw |-> p, key |-> k]]
         /\ mem' = k
         /\ sess' = [sess EXCEPT ![b] = [stage |-> IF done THEN "in" ELSE "pending", key |-> k]]
         /\ push' = IF done THEN Rearmed(k) ELSE push
  /\ login' = [login EXCEPT ![b] = None]
  /\ UNCHANGED <<domain, remote, cache, enroll, trusted, access, office>>

\* The customer was switched off meanwhile, or the domain deleted before the
\* customer was known; or app.db is locked.
LoginEnds(b) ==
  /\ login[b] # None
  /\ (user # None /\ ~user.active) \/ (domain = None /\ user = None) \/ ~Writable
  /\ login' = [login EXCEPT ![b] = None]
  /\ user' = IF user = None /\ Writable THEN NewUser ELSE user
  /\ UNCHANGED <<domain, remote, account, cache, mem, sess, enroll, trusted, access, push, office>>

\* _abort_customer_2fa
TwofaAbort(b) ==
  /\ sess[b].stage = "pending"
  /\ user # None => ~user.totp \/ account = None
  /\ mem' = None
  /\ sess' = [sess EXCEPT ![b] = Out]
  /\ UNCHANGED <<domain, remote, local, cache, enroll, trusted, login, access, push, office>>

\* twofa_verify with a right code, the device remembered or not
TwofaVerify(b) ==
  /\ sess[b].stage = "pending" /\ Writable
  /\ user # None /\ user.totp /\ account # None
  /\ sess' = [sess EXCEPT ![b].stage = "in"]
  /\ trusted' \in {trusted, trusted \union {b}}
  /\ push' = Rearmed(mem)
  /\ UNCHANGED <<domain, remote, local, cache, mem, enroll, login, access, office>>

Leaves(b) == sess' = [sess EXCEPT ![b] = Out] /\ enroll' = enroll \ {b}

Logout(b) ==
  /\ In(b) /\ Leaves(b)
  /\ mem' = IF push.stored = None THEN None ELSE mem
  /\ UNCHANGED <<domain, remote, local, cache, trusted, login, access, push, office>>

\* A page that finds no key ends the session.
Expired(b) ==
  /\ In(b) /\ mem = None /\ Leaves(b)
  /\ UNCHANGED <<domain, remote, local, cache, mem, trusted, login, access, push, office>>

-----------------------------------------------------------------------------
(* The second factor's settings *)

TwofaEnable(b) ==
  /\ In(b) /\ user # None /\ ~user.totp
  /\ enroll' = enroll \union {b}
  /\ UNCHANGED <<domain, remote, local, cache, mem, sess, trusted, login, access, push, office>>

TwofaConfirm(b) ==
  /\ In(b) /\ user # None /\ b \in enroll /\ Writable
  /\ enroll' = enroll \ {b}
  /\ user' = [user EXCEPT !.totp = TRUE]
  /\ UNCHANGED <<domain, remote, account, cache, mem, sess, trusted, login, access, push, office>>

\* The settings page drops the secret of an enrolment that was not confirmed.
TwofaSettings(b) ==
  /\ In(b) /\ b \in enroll
  /\ enroll' = enroll \ {b}
  /\ UNCHANGED <<domain, remote, local, cache, mem, sess, trusted, login, access, push, office>>

NoSecondFactor ==
  /\ user # None /\ user.totp /\ Writable
  /\ user' = [user EXCEPT !.totp = FALSE]
  /\ trusted' = {}
  /\ UNCHANGED <<domain, remote, account, cache, mem, sess, enroll, login, access, push, office>>

TwofaDisable(b) == In(b) /\ NoSecondFactor
DisableCustomer2fa == NoSecondFactor

TwofaRevokeDevice(b) ==
  /\ In(b) /\ Writable
  /\ \E c \in trusted : trusted' = trusted \ {c}
  /\ UNCHANGED <<domain, remote, local, cache, mem, sess, enroll, login, access, push, office>>

TwofaRevokeAllDevices(b) ==
  /\ In(b) /\ Writable
  /\ trusted' = {}
  /\ UNCHANGED <<domain, remote, local, cache, mem, sess, enroll, login, access, push, office>>

-----------------------------------------------------------------------------
(* API access, tokens and OAuth *)

\* purge_cache and cache_db_path = None
Purged(a) == [a EXCEPT !.path = FALSE]
CacheAfterPurge == IF account.path THEN None ELSE cache

\* The active account of the customer, for the queries with is_active.
Active == account # None /\ account.active

\* ensure_api_enabled goes through: there is nothing to do, or k opens the secret.
CanEnable(k) ==
  \/ ~Active \/ (account.api /\ account.wrapped # None)
  \/ account.secret = None \/ account.secret.key = k

SlipEnsured(k) ==
  IF ~Active \/ (account.api /\ account.wrapped # None)
  THEN mem' = k /\ UNCHANGED <<account, cache>>
  ELSE /\ mem' = Random
       /\ cache' = CacheAfterPurge
       /\ account' = Purged([account EXCEPT !.api = TRUE,
                               !.wrapped = [dek |-> Random, under |-> k],
                               !.secret = IF @ = None THEN None ELSE [@ EXCEPT !.key = Random]])

\* ensure_api_enabled, k being the key in memory: that is the DEK, for
\* generate_dek is reached only without one.
Ensured(k) ==
  IF ~Active \/ (account.api /\ account.wrapped # None)
  THEN mem' = k /\ UNCHANGED <<account, cache>>
  ELSE /\ mem' = k
       /\ cache' = CacheAfterPurge
       /\ account' = Purged([account EXCEPT !.api = TRUE,
                               !.wrapped = [dek |-> k, under |-> k],
                               !.secret = IF @ = None THEN None ELSE [@ EXCEPT !.key = k]])

ApiEnable(b) ==
  /\ In(b) /\ Active /\ mem # None /\ Writable
  /\ account.secret # None /\ account.secret.key = mem
  /\ Ensured(mem)
  /\ UNCHANGED <<domain, remote, user, browser, access, push, office>>

ApiDisable(b) ==
  /\ In(b) /\ mem # None /\ Writable
  /\ tokens' = {}
  /\ IF Active
     THEN /\ account' = Purged([account EXCEPT !.api = FALSE, !.wrapped = None])
          /\ cache' = CacheAfterPurge
     ELSE UNCHANGED <<account, cache>>
  /\ Leaves(b)
  /\ UNCHANGED <<domain, remote, user, mem, trusted, login, code, grants, push, office>>

CanKeep == Cardinality(tokens) + Cardinality(grants) < MaxKept

\* create_api_token
CreateToken(b) ==
  /\ In(b) /\ mem # None /\ Writable /\ Active /\ account.api /\ CanKeep
  /\ tokens' = tokens \union {mem}
  /\ UNCHANGED <<domain, remote, local, cache, mem, browser, code, grants, push, office>>

\* revoke_api_token
RevokeToken ==
  /\ Writable
  /\ \E k \in tokens : tokens' = tokens \ {k}
  /\ UNCHANGED <<domain, remote, local, cache, mem, browser, code, grants, push, office>>

\* With a token
ApiRevokeToken == RevokeToken

\* authorize: the key in memory or else the session's, which then goes to
\* memory even when API access cannot be enabled with it.
Authorize(b) ==
  /\ In(b) /\ Writable
  /\ LET k == IF mem # None THEN mem ELSE sess[b].key
     IN  IF k = None
         THEN code' = TRUE /\ UNCHANGED <<account, cache, mem>>
         ELSE IF CanEnable(k) THEN code' = TRUE /\ Ensured(k)
         ELSE mem' = k /\ UNCHANGED <<account, cache, code>>
  /\ UNCHANGED <<domain, remote, user, browser, tokens, grants, push, office>>

\* The client exchanges its code for an access token, which holds the key in
\* memory at that time, if there is one.
Token ==
  /\ code /\ Writable /\ CanKeep
  /\ code' = FALSE
  /\ grants' = grants \union {mem}
  /\ UNCHANGED <<domain, remote, local, cache, mem, browser, tokens, push, office>>

CodeExpires ==
  /\ code /\ code' = FALSE
  /\ UNCHANGED <<domain, remote, local, cache, mem, browser, tokens, grants, push, office>>

-----------------------------------------------------------------------------
(* Push subscriptions and caches *)

\* ensure_push_key
Loaded(p) == IF mem = None THEN p.stored ELSE mem

Subscribe(b) ==
  /\ In(b) /\ Writable
  /\ push' = [sub |-> "on", stored |-> IF mem # None THEN mem ELSE push.stored]
  /\ mem' = Loaded(push')
  /\ UNCHANGED <<domain, remote, local, cache, browser, access, office>>

\* The customer's only subscription goes, by its endpoint or as a device.
\* (_maybe_clear_push_key_store)
Unsubscribe(b) ==
  /\ In(b) /\ push.sub # "none" /\ Writable
  /\ push' = [sub |-> "none", stored |-> None]
  /\ UNCHANGED <<domain, remote, local, cache, mem, browser, access, office>>

PushDeviceRemove(b) == Unsubscribe(b)

\* The push service answers that the subscription is gone.
PushGone ==
  /\ push.sub = "on" /\ Writable
  /\ push' = [push EXCEPT !.sub = "off"]
  /\ UNCHANGED <<domain, remote, local, cache, mem, browser, access, office>>

\* ensure_push_key of the workers, at their start and with every round
ArmPush ==
  /\ mem = None /\ push.stored # None
  /\ mem' = push.stored
  /\ UNCHANGED <<domain, remote, local, cache, browser, access, push, office>>

\* open_cache replaces a file of another key, unless this process opened that
\* path before: then the file stays and whatever uses it fails.
Opened == {mem} \union ({cache} \ {None})

\* A page or a worker opens the cache.
OpenCache ==
  /\ account # None /\ account.path /\ mem # None
  /\ cache' \in Opened
  /\ UNCHANGED <<domain, remote, local, mem, browser, access, push, office>>

\* A sync gives the account a cache again, before it opens the secret.
SyncAccount ==
  /\ Active /\ mem # None /\ domain # None /\ domain.active /\ Writable
  /\ account' = [account EXCEPT !.path = TRUE]
  /\ cache' \in Opened
  /\ UNCHANGED <<domain, remote, user, mem, browser, access, push, office>>

\* The web process ends and starts again.
Restart ==
  /\ mem' = None
  /\ login' = [b \in Browsers |-> None]
  /\ torn' = (torn \/ \E d \in Desks : desk[d] # Idle)
  /\ solo' = None
  /\ desk' = [d \in Desks |-> Idle]
  /\ UNCHANGED <<domain, remote, local, cache, sess, enroll, trusted, access, push, asked>>

-----------------------------------------------------------------------------
(* Requests of administrators and of the provisioning API.  A request has   *)
(* calls of the mail API still to make, and its name, which says what it    *)
(* commits after them.                                                      *)

DomainCalls == {"add_domain", "remove_domain"}
Strict == {"create", "provision", "invite", "sync"}  \* an error undoes what is left of these

AboutDomain(calls) == calls # <<>> /\ Head(calls) \in DomainCalls
InFlight(d) == \E e \in Desks \ {d} : AboutDomain(desk[e].calls)

\* The ghosts, when d begins calls.
Begins(d, calls) ==
  IF ~AboutDomain(calls) THEN UNCHANGED <<torn, solo>>
  ELSE /\ solo' = IF InFlight(d) THEN None ELSE d
       /\ torn' = (torn \/ InFlight(d))

\* The ghosts, when the call of d ends.
Ends(d, ok) ==
  IF ~AboutDomain(desk[d].calls) THEN UNCHANGED <<torn, solo>>
  ELSE /\ torn' = ~(ok /\ solo = d)
       /\ solo' = None

Asks(d, calls, p, then) ==
  /\ desk[d] = Idle /\ CanAsk
  /\ asked' = asked + 1
  /\ desk' = [desk EXCEPT ![d] = [calls |-> calls, pw |-> p, then |-> then, failed |-> FALSE]]
  /\ Begins(d, calls)

\* A request without calls.
AsksOnly == CanAsk /\ asked' = asked + 1 /\ UNCHANGED <<desk, torn, solo>>

SlipSynced(m) == <<IF Live THEN "add_domain" ELSE "remove_domain">>

\* _sync_domain_to_mail_api
Synced(m) == <<IF m.active /\ m.complete THEN "add_domain" ELSE "remove_domain">>

\* What the mail API does with Postfix's domains and Dovecot's users file.
AddDomain == served' = TRUE /\ UNCHANGED mailbox
RemoveDomain == served' = FALSE /\ UNCHANGED mailbox
AddUser(p) == mailbox = None /\ mailbox' = p /\ UNCHANGED served
RemoveUser == mailbox # None /\ mailbox' = None /\ UNCHANGED served
ChangePassword(p) == mailbox # None /\ mailbox' = p /\ UNCHANGED served

Performs(c, p) ==
  \/ c = "add_domain" /\ AddDomain
  \/ c = "remove_domain" /\ RemoveDomain
  \/ c \in {"add_user", "upsert_user"} /\ AddUser(p)
  \/ c = "remove_user" /\ RemoveUser
  \/ c = "set_password" /\ ChangePassword(p)

\* _upsert_user, whose add_user ends in an error, goes on with set_password.
After(calls, ok) ==
  IF Head(calls) = "upsert_user" /\ ~ok THEN <<"set_password">> \o Tail(calls) ELSE Tail(calls)

\* The answer to the first call of d: the request goes on, or an error ends it.
Answered(d, ok) ==
  LET r == desk[d]
      strict == r.then \in Strict
      rest == IF ok \/ ~strict THEN After(r.calls, ok) ELSE <<>>
  IN  desk' = [desk EXCEPT ![d] =
                 IF rest = <<>> /\ r.then = "over" THEN Idle
                 ELSE [r EXCEPT !.calls = rest, !.failed = ~ok /\ strict]]

Asking(d) == desk[d].calls # <<>> /\ Head(desk[d].calls) \notin {"discover", "check_user"}

\* The mail API carries the call out and answers, or its answer is lost.
Serve(d) ==
  /\ Asking(d) /\ Performs(Head(desk[d].calls), desk[d].pw)
  /\ \E ok \in BOOLEAN : Answered(d, ok) /\ Ends(d, ok)
  /\ UNCHANGED <<domain, local, cache, mem, browser, access, push, asked>>

\* The mail API refuses, or is not reached.
Refuse(d) ==
  /\ Asking(d) /\ Answered(d, FALSE) /\ Ends(d, FALSE)
  /\ UNCHANGED <<domain, remote, local, cache, mem, browser, access, push, asked>>

\* check_user: a server that is not reached counts as one without the mailbox.
CheckUser(d) ==
  /\ desk[d].calls # <<>> /\ Head(desk[d].calls) = "check_user"
  /\ \E exists \in {mailbox # None, FALSE} :
       desk' = [desk EXCEPT ![d].calls = Tail(@), ![d].failed = exists]
  /\ UNCHANGED <<domain, remote, local, cache, mem, browser, access, push, asked, torn, solo>>

\* discover_domain_settings of create_domain, whose result is stored before
\* the domain is synced.
Discover(d) ==
  /\ desk[d].calls # <<>> /\ Head(desk[d].calls) = "discover" /\ Writable
  /\ IF domain = None
     THEN /\ desk' = [desk EXCEPT ![d] = Idle]
          /\ UNCHANGED <<domain, torn, solo>>
     ELSE /\ \E c \in BOOLEAN : domain' = [domain EXCEPT !.complete = c]
          /\ desk' = [desk EXCEPT ![d].calls = Synced(domain')]
          /\ Begins(d, Synced(domain'))
  /\ UNCHANGED <<remote, local, cache, mem, browser, access, push, asked>>

\* What a request still does once its calls are over.
Done(d, then) == desk[d].then = then /\ desk[d].calls = <<>> /\ desk' = [desk EXCEPT ![d] = Idle]
Quiet == UNCHANGED <<mem, browser, access, push, asked, torn, solo>>

\* It fails to: app.db is locked, the row is gone, or a strict call failed.
Fails(d) ==
  /\ desk[d].calls = <<>> /\ desk[d].then \notin {"idle", "create"}
  /\ \/ ~Writable \/ (desk[d].failed /\ desk[d].then \in Strict)
     \/ account = None /\ desk[d].then \in {"reset", "delete", "signup"}
     \/ user # None /\ desk[d].then = "invite"
     \/ domain = None /\ desk[d].then = "delete_domain"
  /\ desk' = [desk EXCEPT ![d] = Idle]
  /\ torn' = (torn \/ desk[d].then = "delete_domain")
  /\ UNCHANGED <<domain, remote, local, cache, mem, browser, access, push, asked, solo>>

-----------------------------------------------------------------------------
(* Domains *)

CreateDomain(d) ==
  /\ domain = None /\ Writable
  /\ domain' = [active |-> TRUE, complete |-> FALSE]
  /\ Asks(d, <<"discover">>, None, "over")
  /\ UNCHANGED <<remote, local, cache, mem, browser, access, push>>

\* create_domain of the provisioning API, which serves a domain that exists as well.
ProvisionDomain(d) ==
  /\ Writable
  /\ IF domain # None THEN UNCHANGED domain
     ELSE \E c \in BOOLEAN : domain' = [active |-> TRUE, complete |-> c]
  /\ Asks(d, <<"add_domain">>, None, "over")
  /\ UNCHANGED <<remote, local, cache, mem, browser, access, push>>

ToggleDomain(d) ==
  /\ domain # None /\ Writable
  /\ domain' = [domain EXCEPT !.active = ~@]
  /\ Asks(d, Synced(domain'), None, "over")
  /\ UNCHANGED <<remote, local, cache, mem, browser, access, push>>

\* setup, of a server without an administrator
Setup(d) ==
  /\ domain = None /\ asked = 0
  /\ domain' = [active |-> TRUE, complete |-> TRUE]
  /\ Asks(d, <<"add_domain">>, None, "over")
  /\ UNCHANGED <<remote, local, cache, mem, browser, access, push>>

Resynced(d, outcomes) ==
  /\ domain # None /\ Writable
  /\ \E c \in outcomes : domain' = [domain EXCEPT !.complete = c]
  /\ Asks(d, Synced(domain'), None, "over")
  /\ UNCHANGED <<remote, local, cache, mem, browser, access, push>>

\* The forms of update_domain and review_domain can leave a field empty, that
\* of save_mail_config cannot, and save_mail_api_config has none that counts.
UpdateDomain(d) == Resynced(d, BOOLEAN)
ReviewDomain(d) == Resynced(d, BOOLEAN)
SaveMailConfig(d) == Resynced(d, {domain.complete, TRUE})
SaveMailApiConfig(d) == Resynced(d, {domain.complete})

DeleteDomain(d) ==
  /\ domain # None
  /\ Asks(d, <<"remove_domain">>, None, "delete_domain")
  /\ UNCHANGED <<domain, remote, local, cache, mem, browser, access, push>>

DomainDeleted(d) ==
  /\ Done(d, "delete_domain") /\ domain # None /\ Writable
  /\ domain' = None
  /\ account' = None
  /\ user' = IF account # None THEN None ELSE user
  /\ UNCHANGED <<remote, cache>> /\ Quiet

-----------------------------------------------------------------------------
(* Customers *)

\* create_customer with a password: the rows are written, the mail API is
\* asked, and then they are committed or undone.
CreateCustomer(d) ==
  /\ domain # None /\ user = None /\ Writable
  /\ \E p \in Passwords : Asks(d, <<"add_user">>, p, "create")
  /\ UNCHANGED <<domain, remote, local, cache, mem, browser, access, push>>

Created(d) ==
  /\ Done(d, "create")
  /\ IF desk[d].failed THEN UNCHANGED local
     ELSE user' = NewUser /\ account' = NewAccount
  /\ UNCHANGED <<domain, remote, cache>> /\ Quiet

\* create_customer of an external mailbox
CreateExternal ==
  /\ domain # None /\ user = None /\ Writable
  /\ user' = NewUser /\ account' = NewAccount
  /\ AsksOnly
  /\ UNCHANGED <<domain, remote, cache, mem, browser, access, push>>

\* create_customer with an invitation, for a mailbox that does not exist
InviteCustomer(d) ==
  /\ domain # None /\ user = None
  /\ Asks(d, <<"check_user">>, None, "invite")
  /\ UNCHANGED <<domain, remote, local, cache, mem, browser, access, push>>

\* The domain may be gone by now.
Invited(d) ==
  /\ Done(d, "invite") /\ ~desk[d].failed /\ user = None /\ Writable
  /\ user' = NewUser /\ account' = [NewAccount EXCEPT !.link = TRUE]
  /\ UNCHANGED <<domain, remote, cache>> /\ Quiet

\* A manager's customer has no account before the first login.
ManagerCreates ==
  /\ user = None /\ Writable
  /\ user' = NewUser
  /\ AsksOnly
  /\ UNCHANGED <<domain, remote, account, cache, mem, browser, access, push>>

\* signup: for an account that has not been logged in to.
Signup(d) ==
  /\ account # None /\ account.link /\ account.secret = None
  /\ \E p \in Passwords : Asks(d, <<"add_user">>, p, "signup")
  /\ UNCHANGED <<domain, remote, local, cache, mem, browser, access, push>>

SignedUp(d) ==
  /\ Done(d, "signup") /\ account # None /\ Writable
  /\ account' = [account EXCEPT !.link = FALSE]
  /\ UNCHANGED <<domain, remote, user, cache>> /\ Quiet

\* reset_customer_password
ResetLink ==
  /\ account # None /\ Writable
  /\ account' = [account EXCEPT !.link = TRUE]
  /\ AsksOnly
  /\ UNCHANGED <<domain, remote, user, cache, mem, browser, access, push>>

\* account_login_link, from the page of the domain
LoginLink == domain # None /\ ResetLink

\* What both ways to set a password change in app.db.
Reset ==
  /\ account' = Purged([account EXCEPT !.link = FALSE, !.wrapped = None])
  /\ cache' = CacheAfterPurge

\* set_customer_password: app.db first
SetPassword(d) ==
  /\ account # None /\ Writable /\ Reset
  /\ \E p \in Passwords : Asks(d, <<"upsert_user">>, p, "over")
  /\ UNCHANGED <<domain, remote, user, mem, browser, access, push>>

\* account_reset_password: the mail API first
ResetPassword(d) ==
  /\ account # None /\ domain # None
  /\ \E p \in Passwords : Asks(d, <<"upsert_user">>, p, "reset")
  /\ UNCHANGED <<domain, remote, local, cache, mem, browser, access, push>>

PasswordReset(d) ==
  /\ Done(d, "reset") /\ account # None /\ Writable /\ Reset
  /\ UNCHANGED <<domain, remote, user>> /\ Quiet

\* toggle_customer_external: an external mailbox has no link.
ToggleExternal ==
  /\ user # None /\ Writable
  /\ \/ account # None
        /\ account' \in {[account EXCEPT !.link = FALSE], account}
     \/ account = None /\ domain # None
        /\ account' = NewAccount
  /\ AsksOnly
  /\ UNCHANGED <<domain, remote, user, cache, mem, browser, access, push>>

ToggleCustomer ==
  /\ user # None /\ Writable
  /\ user' = [user EXCEPT !.active = ~@]
  /\ AsksOnly
  /\ UNCHANGED <<domain, remote, account, cache, mem, browser, access, push>>

PurgeCustomer ==
  /\ account # None /\ Writable
  /\ account' = Purged(account) /\ cache' = CacheAfterPurge
  /\ AsksOnly
  /\ UNCHANGED <<domain, remote, user, mem, browser, access, push>>

ManagerToggles == ToggleCustomer
ManagerPurges == PurgeCustomer

\* account_delete; the mailbox goes only where the domain is self-hosted.
DeleteAccount(d) ==
  /\ account # None /\ domain # None
  /\ \E calls \in {<<>>, <<"remove_user">>} : Asks(d, calls, None, "delete")
  /\ UNCHANGED <<domain, remote, local, cache, mem, browser, access, push>>

AccountDeleted(d) ==
  /\ Done(d, "delete") /\ account # None /\ Writable
  /\ cache' = CacheAfterPurge
  /\ account' = None /\ user' = None
  /\ UNCHANGED <<domain, remote>> /\ Quiet

\* sync_apply: the account is made for a mailbox, or switched off with none.
SyncLocally ==
  /\ domain # None /\ Writable
  /\ \/ /\ account = None
        /\ user' = IF user = None THEN [NewUser EXCEPT !.active = FALSE] ELSE user
        /\ account' = NewAccount
     \/ /\ account # None
        /\ account' = [account EXCEPT !.active = FALSE]
        /\ UNCHANGED user
  /\ AsksOnly
  /\ UNCHANGED <<domain, remote, cache, mem, browser, access, push>>

\* sync_apply: a mailbox is made for the account, with a password nobody is told.
SyncRemotely(d) ==
  /\ domain # None
  /\ Asks(d, <<"add_user">>, MaxPw, "sync")
  /\ UNCHANGED <<domain, remote, local, cache, mem, browser, access, push>>

SyncedRemotely(d) ==
  /\ Done(d, "sync") /\ ~desk[d].failed /\ Writable
  /\ account' = IF account = None THEN account ELSE [account EXCEPT !.active = TRUE]
  /\ UNCHANGED <<domain, remote, user, cache>> /\ Quiet

-----------------------------------------------------------------------------
(* The provisioning API's mailboxes *)

ProvisionMailbox(d) ==
  /\ \E p \in Passwords : \E calls \in {<<"add_user">>, <<"add_domain", "add_user">>} :
       Asks(d, calls, p, "provision")
  /\ UNCHANGED <<domain, remote, local, cache, mem, browser, access, push>>

Provisioned(d) ==
  /\ Done(d, "provision") /\ ~desk[d].failed /\ Writable
  /\ IF user # None THEN UNCHANGED local
     ELSE /\ user' = NewUser
          /\ account' = IF domain # None /\ account = None THEN NewAccount ELSE account
  /\ UNCHANGED <<domain, remote, cache>> /\ Quiet

\* delete_mailbox, which leaves the customer
ProvisionDelete(d) ==
  /\ Asks(d, <<"remove_user">>, None, "over")
  /\ UNCHANGED <<domain, remote, local, cache, mem, browser, access, push>>

\* update_password, which leaves the account
ProvisionPassword(d) ==
  /\ \E p \in Passwords : Asks(d, <<"set_password">>, p, "over")
  /\ UNCHANGED <<domain, remote, local, cache, mem, browser, access, push>>

-----------------------------------------------------------------------------
Customer ==
  \/ \E b \in Browsers :
       \/ LoginImap(b) \/ LoginFinish(b) \/ LoginEnds(b)
       \/ TwofaAbort(b) \/ TwofaVerify(b) \/ Logout(b) \/ Expired(b)
       \/ TwofaEnable(b) \/ TwofaConfirm(b) \/ TwofaSettings(b)
       \/ TwofaDisable(b) \/ TwofaRevokeDevice(b) \/ TwofaRevokeAllDevices(b)
       \/ ApiEnable(b) \/ ApiDisable(b) \/ CreateToken(b) \/ Authorize(b)
       \/ Subscribe(b) \/ Unsubscribe(b) \/ PushDeviceRemove(b)
  \/ RevokeToken \/ ApiRevokeToken \/ Token

Office ==
  \/ \E d \in Desks :
       \/ Serve(d) \/ Refuse(d) \/ CheckUser(d) \/ Discover(d) \/ Fails(d)
       \/ Setup(d) \/ CreateDomain(d) \/ ProvisionDomain(d) \/ ToggleDomain(d)
       \/ UpdateDomain(d) \/ ReviewDomain(d) \/ SaveMailConfig(d) \/ SaveMailApiConfig(d)
       \/ DeleteDomain(d) \/ DomainDeleted(d)
       \/ CreateCustomer(d) \/ Created(d) \/ InviteCustomer(d) \/ Invited(d)
       \/ Signup(d) \/ SignedUp(d) \/ SetPassword(d) \/ ResetPassword(d) \/ PasswordReset(d)
       \/ DeleteAccount(d) \/ AccountDeleted(d) \/ SyncRemotely(d) \/ SyncedRemotely(d)
       \/ ProvisionMailbox(d) \/ Provisioned(d) \/ ProvisionDelete(d) \/ ProvisionPassword(d)
  \/ CreateExternal \/ ManagerCreates \/ ResetLink \/ LoginLink \/ ToggleExternal
  \/ ToggleCustomer \/ PurgeCustomer \/ ManagerToggles \/ ManagerPurges
  \/ SyncLocally \/ DisableCustomer2fa

Server == ArmPush \/ OpenCache \/ SyncAccount \/ PushGone \/ CodeExpires \/ Restart

Next == Customer \/ Office \/ Server

Spec == Init /\ [][Next]_vars

-----------------------------------------------------------------------------
(* Properties *)

\* The keys kept for the customer: in memory, in sessions, tokens and the push
\* key store, wrapped in the account, and of the cache file.
Custody ==
  ({mem, push.stored, cache} \union tokens \union grants
     \union {sess[b].key : b \in Browsers}
     \union (IF account = None \/ account.wrapped = None THEN {} ELSE {account.wrapped.dek}))
  \ {None}

\* Every key that is kept anywhere opens the account's secret, unless it was
\* got with a password other than the one in that secret: enabling and
\* disabling API access, OAuth, push, restarts and resets leave no token, session
\* or cache with a key that the customer's password no longer leads to.
KeysOpen ==
  account # None /\ account.secret # None =>
    \A k \in Custody :
      k = account.secret.key \/ \E p \in Passwords \ {account.secret.pw} : k = Cred(p)

\* With no request under way, a domain that is on and complete is served by
\* Postfix, if the last call about it was answered and overlapped with no other.
LiveIsServed == (\A d \in Desks : desk[d] = Idle) /\ ~torn /\ Live => served

=============================================================================
