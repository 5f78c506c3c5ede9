--------------------------- MODULE AccountsProof ---------------------------
(***************************************************************************)
(* KeysOpen and LiveIsServed hold in every state of Accounts, for any      *)
(* browsers, passwords, requests of administrators and bounds.             *)
(*                                                                         *)
(* KeysOpen: every key that is kept anywhere was derived from a password,  *)
(* and the account's secret is under the key of the password it holds      *)
(* (SecretOK). That is more than KeysOpen says and what login, API access  *)
(* and OAuth hand on to each other: ensure_api_enabled wraps the key that  *)
(* it was given, under itself, and only if that key opens the secret.      *)
(*                                                                         *)
(* LiveIsServed: a call about the domain is told what the row says when it *)
(* begins, and whatever changes the row begins a call of its own, which    *)
(* then overlaps. So a call that overlaps with none ends with the row as   *)
(* it began (Heading). A deletion is the exception: its call ends before   *)
(* the row goes (Leaving).                                                 *)
(***************************************************************************)
EXTENDS Accounts, TLAPS

-----------------------------------------------------------------------------
(* The inductive invariant *)

\* Keys derived from a password.
Creds == {Cred(p) : p \in Passwords}
Held == Creds \union {None}

\* The secret is under the key of its password, the wrapped DEK under itself.
SecretOK(s) == s # None => s = [pw |-> s.pw, key |-> s.key] /\ s.pw \in Passwords /\ s.key = Cred(s.pw)
WrapOK(w) == w # None => w.dek \in Creds /\ w.under = w.dek

AccountOK ==
  account # None =>
    /\ account = [active |-> account.active, secret |-> account.secret, path |-> account.path,
                  wrapped |-> account.wrapped, api |-> account.api, link |-> account.link]
    /\ SecretOK(account.secret) /\ WrapOK(account.wrapped)

\* What is kept are such keys.
KeptOK ==
  /\ mem \in Held /\ cache \in Held
  /\ tokens \subseteq Held /\ grants \subseteq Held
  /\ push = [sub |-> push.sub, stored |-> push.stored] /\ push.stored \in Held
  /\ sess = [b \in Browsers |-> sess[b]]
  /\ \A b \in Browsers : sess[b] = [stage |-> sess[b].stage, key |-> sess[b].key] /\ sess[b].key \in Held

\* Mailboxes and logins have passwords, and requests that tell one.
Plain == {<<>>, <<"discover">>, <<"check_user">>, <<"add_domain">>, <<"remove_domain">>, <<"remove_user">>}
Telling == {<<"add_user">>, <<"add_domain", "add_user">>, <<"upsert_user">>, <<"set_password">>}

DeskOK(r) ==
  /\ r = [calls |-> r.calls, pw |-> r.pw, then |-> r.then, failed |-> r.failed]
  /\ r.calls \in Plain \/ (r.calls \in Telling /\ r.pw \in Passwords)
  /\ r.then = "delete_domain" => r.calls \in {<<>>, <<"remove_domain">>}

PasswordsOK ==
  /\ mailbox \in Passwords \union {None}
  /\ login \in [Browsers -> Passwords \union {None}]
  /\ desk = [d \in Desks |-> desk[d]] /\ \A d \in Desks : DeskOK(desk[d])

KeysInv == AccountOK /\ KeptOK /\ PasswordsOK

\* A request that has a call about the domain under way, and one whose call is
\* over and whose row is not gone yet.
Calling(d) == AboutDomain(desk[d].calls)
Leaving(d) == desk[d].then = "delete_domain" /\ desk[d].calls = <<>>

\* The call that overlaps with none goes where the row is.
Heading ==
  \A d \in Desks : solo = d =>
    Calling(d) /\ (desk[d].then # "delete_domain" /\ Live => Head(desk[d].calls) = "add_domain")

\* Any other call has met one.
Overlaps == \A d \in Desks : Calling(d) => solo = d \/ (torn /\ solo = None)

\* Between calls the domain is served as its row says.
Settled == ~torn /\ (\A d \in Desks : ~Calling(d) /\ ~Leaving(d)) /\ Live => served

ServedInv ==
  /\ torn \in BOOLEAN /\ served \in BOOLEAN
  /\ Heading /\ Overlaps /\ Settled

IInv == KeysInv /\ ServedInv

-----------------------------------------------------------------------------
(* Calls *)

\* The sequences of calls that requests have, and what is left of them.
LEMMA Sequels ==
  ASSUME NEW r, DeskOK(r), r.calls # <<>>, NEW ok \in BOOLEAN
  PROVE  /\ Tail(r.calls) = <<>> \/ (r.calls = <<"add_domain", "add_user">> /\ Tail(r.calls) = <<"add_user">>)
         /\ Head(r.calls) # "check_user" =>
              /\ After(r.calls, ok) \in {<<>>, <<"add_user">>, <<"set_password">>}
              /\ After(r.calls, ok) # <<>> => r.pw \in Passwords
              /\ Head(r.calls) \in DomainCalls => After(r.calls, ok) = Tail(r.calls)
         /\ Head(r.calls) \in {"add_user", "upsert_user", "set_password"} => r.pw \in Passwords
<1>1. CASE r.calls = <<"add_domain", "add_user">>
  <2>1. Head(r.calls) = "add_domain" /\ Tail(r.calls) = <<"add_user">> BY <1>1
  <2> QED BY <1>1, <2>1 DEF After, DeskOK, Plain, Telling, DomainCalls
<1>2. CASE r.calls = <<"upsert_user">>
  <2>1. Head(r.calls) = "upsert_user" /\ Tail(r.calls) = <<>> BY <1>2
  <2>2. <<"set_password">> \o Tail(r.calls) = <<"set_password">>
    <3>1. <<"set_password">> \o <<>> = <<"set_password">> OBVIOUS
    <3> QED BY <2>1, <3>1
  <2>3. r.pw \in Passwords BY <1>2 DEF DeskOK, Plain, Telling
  <2> QED BY <2>1, <2>2, <2>3 DEF After, DomainCalls
<1>3. ASSUME NEW c, r.calls = <<c>>, c # "upsert_user"
      PROVE  Head(r.calls) = c /\ Tail(r.calls) = <<>> /\ After(r.calls, ok) = <<>>
  <2>1. Head(r.calls) = c /\ Tail(r.calls) = <<>> BY <1>3
  <2> QED BY <1>3, <2>1 DEF After
<1>4. CASE r.calls \in Plain
  <2>1. PICK c \in {"discover", "check_user", "add_domain", "remove_domain", "remove_user"} : r.calls = <<c>>
    BY <1>4 DEF Plain
  <2> QED BY <1>3, <2>1
<1>5. CASE r.calls \in {<<"add_user">>, <<"set_password">>}
  <2>1. PICK c \in {"add_user", "set_password"} : r.calls = <<c>> BY <1>5
  <2>2. r.pw \in Passwords BY <1>5 DEF DeskOK, Plain, Telling
  <2> QED BY <1>3, <2>1, <2>2
<1> QED BY <1>1, <1>2, <1>4, <1>5 DEF DeskOK, Telling

\* Which of them are about the domain.
LEMMA About ==
  /\ \A c \in {<<>>, <<"discover">>, <<"check_user">>, <<"remove_user">>} \union (Telling \ {<<"add_domain", "add_user">>}) :
       ~AboutDomain(c)
  /\ AboutDomain(<<"add_domain", "add_user">>) /\ AboutDomain(<<"add_domain">>) /\ AboutDomain(<<"remove_domain">>)
  /\ Head(<<"add_domain", "add_user">>) = "add_domain" /\ Head(<<"add_domain">>) = "add_domain"
BY DEF AboutDomain, DomainCalls, Telling

-----------------------------------------------------------------------------
(* The domain *)

\* A request begins calls, or goes on to some.
LEMMA BeginsServed ==
  ASSUME ServedInv, desk = [d \in Desks |-> desk[d]], NEW d \in Desks, NEW r,
         ~Calling(d), ~Leaving(d), desk' = [desk EXCEPT ![d] = r], Begins(d, r.calls), served' = served,
         AboutDomain(r.calls) /\ r.then # "delete_domain" /\ Live' => Head(r.calls) = "add_domain",
         ~AboutDomain(r.calls) => (Live' => Live)
  PROVE  ServedInv'
<1>0. None \notin Desks BY AccountsAssumption
<1>1. \A e \in Desks : desk'[e] = IF e = d THEN r ELSE desk[e] OBVIOUS
<1>2. \A e \in Desks \ {d} : (Calling(e)' <=> Calling(e)) /\ (Leaving(e)' <=> Leaving(e)) BY <1>1 DEF Calling, Leaving
<1>3. Calling(d)' <=> AboutDomain(r.calls) BY <1>1 DEF Calling
<1>4. CASE AboutDomain(r.calls)
  <2>1. /\ solo' = IF InFlight(d) THEN None ELSE d
        /\ torn' = (torn \/ InFlight(d))
    BY <1>4 DEF Begins
  <2>2. InFlight(d) <=> \E e \in Desks \ {d} : Calling(e) BY DEF InFlight, Calling
  <2>3. Heading' BY <1>0, <1>1, <1>3, <1>4, <2>1 DEF Heading
  <2>4. Overlaps' BY <1>2, <2>1, <2>2 DEF Overlaps, ServedInv
  <2>5. Settled' BY <1>3, <1>4 DEF Settled
  <2> QED BY <2>1, <2>3, <2>4, <2>5 DEF ServedInv, InFlight
<1>5. CASE ~AboutDomain(r.calls)
  <2>1. solo' = solo /\ torn' = torn BY <1>5 DEF Begins
  <2>2. Heading'
    <3> SUFFICES ASSUME NEW e \in Desks, solo = e
                 PROVE  Calling(e)' /\ (desk'[e].then # "delete_domain" /\ Live' => Head(desk'[e].calls) = "add_domain")
      BY <2>1 DEF Heading
    <3>1. Calling(e) /\ (desk[e].then # "delete_domain" /\ Live => Head(desk[e].calls) = "add_domain")
      BY DEF ServedInv, Heading
    <3>2. e # d BY <3>1
    <3> QED BY <1>1, <1>2, <1>5, <3>1, <3>2
  <2>3. Overlaps' BY <1>2, <1>3, <1>5, <2>1 DEF Overlaps, ServedInv
  <2>4. Settled' BY <1>2, <1>5, <2>1 DEF Settled, ServedInv
  <2> QED BY <2>1, <2>2, <2>3, <2>4 DEF ServedInv
<1> QED BY <1>4, <1>5

\* What leaves the domain, its service and the requests alone.
LEMMA StillServed ==
  ASSUME ServedInv, UNCHANGED <<domain, served, desk, torn, solo>>
  PROVE  ServedInv'
BY DEF ServedInv, Heading, Overlaps, Settled, Calling, Leaving, Live

\* A call ends: carried out or not, answered or not.
LEMMA EndsServed ==
  ASSUME ServedInv, PasswordsOK, NEW d \in Desks, Asking(d), NEW ok \in BOOLEAN, Answered(d, ok), Ends(d, ok),
         domain' = domain, served \in BOOLEAN, served' \in BOOLEAN,
         ~Calling(d) => served' = served,
         ok /\ Head(desk[d].calls) = "add_domain" => served'
  PROVE  ServedInv'
<1>0. None \notin Desks BY AccountsAssumption
<1>1. desk = [e \in Desks |-> desk[e]] /\ DeskOK(desk[d]) BY DEF PasswordsOK
<1> DEFINE r == desk[d]
           s == desk'[d]
<1>2. r.calls # <<>> /\ Head(r.calls) # "check_user" BY DEF Asking
<1>3. \A e \in Desks \ {d} : desk'[e] = desk[e] BY <1>1 DEF Answered
<1>4. s.calls \in {<<>>, <<"add_user">>, <<"set_password">>} /\ s.then \in {r.then, "idle"}
  <2>1. After(r.calls, ok) \in {<<>>, <<"add_user">>, <<"set_password">>} BY <1>1, <1>2, Sequels
  <2>2. Idle.calls = <<>> /\ Idle.then = "idle" BY DEF Idle
  <2>3. PICK rest \in {<<>>, <<"add_user">>, <<"set_password">>}, failed \in BOOLEAN :
          s = Idle \/ s = [r EXCEPT !.calls = rest, !.failed = failed]
    BY <1>1, <2>1 DEF Answered
  <2> HIDE DEF s
  <2>4. r = [calls |-> r.calls, pw |-> r.pw, then |-> r.then, failed |-> r.failed] BY <1>1 DEF DeskOK
  <2> HIDE DEF r
  <2>5. s = [r EXCEPT !.calls = rest, !.failed = failed] => s.calls = rest /\ s.then = r.then BY <2>4
  <2> QED BY <2>2, <2>3, <2>5
<1>5. ~Calling(d)' BY <1>4, About DEF Calling, Telling
<1>6. \A e \in Desks \ {d} : (Calling(e)' <=> Calling(e)) /\ (Leaving(e)' <=> Leaving(e)) BY <1>3 DEF Calling, Leaving
<1>7. Live' = Live BY DEF Live
<1>8. CASE Calling(d)
  <2>1. solo' = None /\ torn' = ~(ok /\ solo = d) BY <1>8 DEF Ends, Calling
  <2>2. Heading' BY <1>0, <2>1 DEF Heading
  <2>3. Overlaps' BY <1>0, <1>5, <1>6, <2>1 DEF Overlaps, ServedInv
  <2>4. Settled'
    <3> SUFFICES ASSUME ok, solo = d, ~Leaving(d)', Live PROVE served' BY <1>7, <2>1 DEF Settled
    <3>1. r.then # "delete_domain"
      <4> SUFFICES ASSUME r.then = "delete_domain" PROVE FALSE OBVIOUS
      <4>1. r.calls = <<"remove_domain">> BY <1>1, <1>2 DEF DeskOK
      <4>2. Tail(r.calls) = <<>> /\ After(r.calls, ok) = <<>> BY <4>1 DEF After
      <4>3. s = [r EXCEPT !.calls = <<>>, !.failed = FALSE] BY <1>1, <4>2 DEF Answered, Strict
      <4>4. s.calls = <<>> /\ s.then = "delete_domain"
        <5>1. r = [calls |-> r.calls, pw |-> r.pw, then |-> r.then, failed |-> r.failed] BY <1>1 DEF DeskOK
        <5> QED BY <4>3, <5>1
      <4> QED BY <4>4 DEF Leaving
    <3>2. Head(r.calls) = "add_domain" BY <3>1 DEF ServedInv, Heading
    <3> QED BY <3>2
  <2> QED BY <2>1, <2>2, <2>3, <2>4 DEF ServedInv
<1>9. CASE ~Calling(d)
  <2>1. solo' = solo /\ torn' = torn /\ served' = served BY <1>9 DEF Ends, Calling
  <2>2. Heading' BY <1>3, <1>6, <1>7, <1>9, <2>1 DEF Heading, ServedInv
  <2>3. Overlaps' BY <1>5, <1>6, <2>1 DEF Overlaps, ServedInv
  <2>4. ~Leaving(d) BY <1>2 DEF Leaving
  <2>5. Settled' BY <1>6, <1>7, <1>9, <2>1, <2>4 DEF Settled, ServedInv
  <2> QED BY <2>1, <2>2, <2>3, <2>5 DEF ServedInv
<1> QED BY <1>8, <1>9

\* A request is asked for.
LEMMA AsksServed ==
  ASSUME ServedInv, PasswordsOK, NEW d \in Desks, NEW calls, NEW p, NEW then, Asks(d, calls, p, then), served' = served,
         AboutDomain(calls) /\ then # "delete_domain" /\ Live' => Head(calls) = "add_domain",
         ~AboutDomain(calls) => (Live' => Live)
  PROVE  ServedInv'
<1> DEFINE r == [calls |-> calls, pw |-> p, then |-> then, failed |-> FALSE]
<1>1. desk[d] = Idle /\ desk' = [desk EXCEPT ![d] = r] /\ Begins(d, calls) BY DEF Asks
<1>2. Idle.calls = <<>> /\ Idle.then = "idle" BY DEF Idle
<1>3. ~Calling(d) /\ ~Leaving(d) BY <1>1, <1>2 DEF Calling, Leaving, AboutDomain
<1>4. r.calls = calls /\ r.then = then OBVIOUS
<1> HIDE DEF r
<1> QED BY <1>1, <1>3, <1>4, BeginsServed DEF PasswordsOK

\* What Synced tells is what the row says.
LEMMA SyncedTells ==
  /\ AboutDomain(Synced(domain')) /\ (Live' => Head(Synced(domain')) = "add_domain")
  /\ Synced(domain') \in {<<"add_domain">>, <<"remove_domain">>}
<1>1. Synced(domain') = IF domain'.active /\ domain'.complete THEN <<"add_domain">> ELSE <<"remove_domain">> BY DEF Synced
<1> QED BY <1>1, About DEF Live

\* Requests about the domain.
LEMMA DomainServed ==
  ASSUME ServedInv, PasswordsOK, NEW d \in Desks,
         \/ Setup(d) \/ CreateDomain(d) \/ ProvisionDomain(d) \/ ToggleDomain(d) \/ UpdateDomain(d)
         \/ ReviewDomain(d) \/ SaveMailConfig(d) \/ SaveMailApiConfig(d) \/ DeleteDomain(d)
  PROVE  ServedInv'
<1>1. CASE Setup(d) \/ ProvisionDomain(d)
  <2>1. Asks(d, <<"add_domain">>, None, "over") /\ served' = served BY <1>1 DEF Setup, ProvisionDomain, remote
  <2> QED BY <2>1, AsksServed, About
<1>2. CASE CreateDomain(d)
  <2>1. Asks(d, <<"discover">>, None, "over") /\ served' = served BY <1>2 DEF CreateDomain, remote
  <2>2. ~Live' BY <1>2 DEF CreateDomain, Live
  <2> QED BY <2>1, <2>2, AsksServed, About
<1>3. CASE ToggleDomain(d) \/ UpdateDomain(d) \/ ReviewDomain(d) \/ SaveMailConfig(d) \/ SaveMailApiConfig(d)
  <2>1. Asks(d, Synced(domain'), None, "over") /\ served' = served
    BY <1>3 DEF ToggleDomain, UpdateDomain, ReviewDomain, SaveMailConfig, SaveMailApiConfig, Resynced, remote
  <2> QED BY <2>1, AsksServed, SyncedTells
<1>4. CASE DeleteDomain(d)
  <2>1. Asks(d, <<"remove_domain">>, None, "delete_domain") /\ served' = served BY <1>4 DEF DeleteDomain, remote
  <2> QED BY <2>1, AsksServed, About
<1> QED BY <1>1, <1>2, <1>3, <1>4

\* Requests about customers and mailboxes.
LEMMA CustomersServed ==
  ASSUME ServedInv, PasswordsOK, NEW d \in Desks,
         \/ CreateCustomer(d) \/ InviteCustomer(d) \/ Signup(d) \/ SetPassword(d) \/ ResetPassword(d)
         \/ DeleteAccount(d) \/ SyncRemotely(d) \/ ProvisionMailbox(d) \/ ProvisionDelete(d) \/ ProvisionPassword(d)
  PROVE  ServedInv'
<1>1. served' = served /\ domain' = domain
  BY DEF CreateCustomer, InviteCustomer, Signup, SetPassword, ResetPassword, DeleteAccount, SyncRemotely,
         ProvisionMailbox, ProvisionDelete, ProvisionPassword, remote
<1>2. PICK calls \in {<<>>, <<"check_user">>, <<"remove_user">>, <<"add_domain", "add_user">>} \union Telling,
           p \in Passwords \union {None},
           then \in {"create", "invite", "signup", "over", "reset", "delete", "sync", "provision"} :
        Asks(d, calls, p, then)
  <2>1. CASE CreateCustomer(d) \/ Signup(d) \/ SyncRemotely(d)
    BY <2>1, AccountsAssumption DEF CreateCustomer, Signup, SyncRemotely, Telling, Passwords
  <2>2. CASE InviteCustomer(d) \/ DeleteAccount(d) \/ ProvisionDelete(d)
    BY <2>2 DEF InviteCustomer, DeleteAccount, ProvisionDelete
  <2>3. CASE SetPassword(d) \/ ResetPassword(d) \/ ProvisionPassword(d)
    BY <2>3 DEF SetPassword, ResetPassword, ProvisionPassword, Telling
  <2>4. CASE ProvisionMailbox(d)
    BY <2>4 DEF ProvisionMailbox, Telling
  <2> QED BY <2>1, <2>2, <2>3, <2>4
<1>3. (Live' => Live) /\ (AboutDomain(calls) => Head(calls) = "add_domain") BY <1>1, About DEF Live
<1> QED BY <1>1, <1>2, <1>3, AsksServed

\* Requests that commit after their calls, or cannot.
LEMMA CommitsServed ==
  ASSUME ServedInv, PasswordsOK, NEW d \in Desks,
         \/ Created(d) \/ Invited(d) \/ SignedUp(d) \/ PasswordReset(d) \/ AccountDeleted(d)
         \/ SyncedRemotely(d) \/ Provisioned(d) \/ DomainDeleted(d) \/ Fails(d)
  PROVE  ServedInv'
<1>1. served' = served /\ solo' = solo /\ desk[d].calls = <<>> /\ desk' = [desk EXCEPT ![d] = Idle]
  BY DEF Created, Invited, SignedUp, PasswordReset, AccountDeleted, SyncedRemotely, Provisioned, DomainDeleted, Fails,
         Done, Quiet, remote
<1>2. Idle.calls = <<>> /\ Idle.then = "idle" BY DEF Idle
<1>3. ~Calling(d) /\ ~AboutDomain(Idle.calls) BY <1>1, <1>2 DEF Calling, AboutDomain
<1>4. CASE torn' = torn /\ domain' = domain /\ desk[d].then # "delete_domain"
  <2>1. ~Leaving(d) /\ Begins(d, Idle.calls) /\ Live' = Live BY <1>1, <1>3, <1>4 DEF Leaving, Begins, Live
  <2> HIDE DEF Idle
  <2> QED BY <1>1, <1>3, <2>1, BeginsServed DEF PasswordsOK
<1>5. CASE torn' \/ ~Live'
  <2>1. torn' \in BOOLEAN /\ (torn => torn') /\ (Live' => Live)
    BY DEF ServedInv, Created, Invited, SignedUp, PasswordReset, AccountDeleted, SyncedRemotely, Provisioned,
           DomainDeleted, Fails, Done, Quiet, Live
  <2>2. \A e \in Desks : desk'[e] = IF e = d THEN Idle ELSE desk[e] BY <1>1 DEF PasswordsOK
  <2>3. \A e \in Desks : Calling(e)' <=> Calling(e) BY <1>2, <1>3, <2>2 DEF Calling
  <2>4. Heading' BY <1>1, <1>3, <2>1, <2>2, <2>3 DEF Heading, ServedInv
  <2>5. Overlaps' BY <1>1, <2>1, <2>3 DEF Overlaps, ServedInv
  <2>6. Settled' BY <1>5 DEF Settled
  <2> QED BY <1>1, <2>1, <2>4, <2>5, <2>6 DEF ServedInv
<1>6. CASE Fails(d)
  <2>1. domain' = domain /\ torn' = (torn \/ desk[d].then = "delete_domain") BY <1>6 DEF Fails
  <2>2. torn \in BOOLEAN BY DEF ServedInv
  <2> QED BY <1>4, <1>5, <2>1, <2>2
<1>7. CASE DomainDeleted(d)
  <2>1. ~Live' BY <1>7 DEF DomainDeleted, Live
  <2> QED BY <1>5, <2>1
<1>8. CASE Created(d) \/ Invited(d) \/ SignedUp(d) \/ PasswordReset(d) \/ AccountDeleted(d)
           \/ SyncedRemotely(d) \/ Provisioned(d)
  <2>1. torn' = torn /\ domain' = domain /\ desk[d].then # "delete_domain"
    BY <1>8 DEF Created, Invited, SignedUp, PasswordReset, AccountDeleted, SyncedRemotely, Provisioned, Done, Quiet
  <2> QED BY <1>4, <2>1
<1> QED BY <1>6, <1>7, <1>8

\* The calls of a request.
LEMMA CallsServed ==
  ASSUME ServedInv, PasswordsOK, NEW d \in Desks, Serve(d) \/ Refuse(d) \/ CheckUser(d) \/ Discover(d)
  PROVE  ServedInv'
<1> DEFINE r == desk[d]
<1>1. DeskOK(r) /\ desk = [e \in Desks |-> desk[e]] BY DEF PasswordsOK
<1>2. r = [calls |-> r.calls, pw |-> r.pw, then |-> r.then, failed |-> r.failed] BY <1>1 DEF DeskOK
<1>3. served \in BOOLEAN BY DEF ServedInv
<1>4. CASE Serve(d)
  <2>1. PICK ok \in BOOLEAN : Answered(d, ok) /\ Ends(d, ok) BY <1>4 DEF Serve
  <2>2. Asking(d) /\ domain' = domain /\ Performs(Head(r.calls), r.pw) BY <1>4 DEF Serve
  <2>3. /\ served' \in BOOLEAN
        /\ Head(r.calls) \notin DomainCalls => served' = served
        /\ Head(r.calls) = "add_domain" => served'
    BY <1>3, <2>2 DEF Performs, AddDomain, RemoveDomain, AddUser, RemoveUser, ChangePassword, DomainCalls
  <2>4. ~Calling(d) => served' = served BY <2>2, <2>3 DEF Calling, AboutDomain, Asking
  <2> QED BY <1>3, <2>1, <2>2, <2>3, <2>4, EndsServed
<1>5. CASE Refuse(d)
  <2>1. Asking(d) /\ domain' = domain /\ served' = served /\ Answered(d, FALSE) /\ Ends(d, FALSE) BY <1>5 DEF Refuse, remote
  <2> QED BY <1>3, <2>1, EndsServed
<1>6. CASE CheckUser(d)
  <2>1. PICK failed : desk' = [desk EXCEPT ![d].calls = Tail(@), ![d].failed = failed] BY <1>6 DEF CheckUser
  <2> DEFINE s == [r EXCEPT !.calls = Tail(@), !.failed = failed]
  <2>2. desk' = [desk EXCEPT ![d] = s] BY <1>1, <2>1
  <2>3. r.calls # <<>> /\ Head(r.calls) = "check_user" BY <1>6 DEF CheckUser
  <2>4. s.calls = Tail(r.calls) BY <1>2
  <2>5. Tail(r.calls) = <<>>
    <3>1. r.calls # <<"add_domain", "add_user">> BY <2>3, About
    <3> QED BY <1>1, <2>3, <3>1, Sequels
  <2>6. ~AboutDomain(s.calls) BY <2>4, <2>5 DEF AboutDomain
  <2> HIDE DEF s
  <2>7. ~Calling(d) /\ ~Leaving(d) BY <2>3 DEF Calling, Leaving, AboutDomain, DomainCalls
  <2>8. served' = served /\ Begins(d, s.calls) /\ Live' = Live BY <1>6, <2>6 DEF CheckUser, Begins, remote, Live
  <2> QED BY <1>1, <2>2, <2>6, <2>7, <2>8, BeginsServed
<1>7. CASE Discover(d)
  <2>1. r.calls # <<>> /\ Head(r.calls) = "discover" /\ served' = served BY <1>7 DEF Discover, remote
  <2>2. ~Calling(d) /\ ~Leaving(d) BY <2>1 DEF Calling, Leaving, AboutDomain, DomainCalls
  <2>3. CASE domain = None
    <3>1. desk' = [desk EXCEPT ![d] = Idle] /\ UNCHANGED <<domain, torn, solo>> BY <1>7, <2>3 DEF Discover
    <3>2. Idle.calls = <<>> /\ ~AboutDomain(Idle.calls) BY DEF Idle, AboutDomain
    <3>3. Begins(d, Idle.calls) /\ Live' = Live BY <3>1, <3>2 DEF Begins, Live
    <3> QED BY <1>1, <2>1, <2>2, <3>1, <3>2, <3>3, BeginsServed
  <2>4. CASE domain # None
    <3> DEFINE s == [r EXCEPT !.calls = Synced(domain')]
    <3>1. desk' = [desk EXCEPT ![d] = s] /\ Begins(d, Synced(domain')) BY <1>1, <1>7, <2>4 DEF Discover
    <3>2. s.calls = Synced(domain') BY <1>2
    <3> HIDE DEF s
    <3> QED BY <1>1, <2>1, <2>2, <3>1, <3>2, SyncedTells, BeginsServed
  <2> QED BY <2>3, <2>4
<1> QED BY <1>4, <1>5, <1>6, <1>7

\* Everything else is not about the domain.
LEMMA OthersServed ==
  ASSUME ServedInv,
         \/ Customer \/ CreateExternal \/ ManagerCreates \/ ResetLink \/ LoginLink \/ ToggleExternal
         \/ ToggleCustomer \/ PurgeCustomer \/ ManagerToggles \/ ManagerPurges \/ SyncLocally
         \/ DisableCustomer2fa \/ ArmPush \/ OpenCache \/ SyncAccount \/ PushGone \/ CodeExpires \/ UNCHANGED vars
  PROVE  ServedInv'
<1>1. CASE Customer
  <2>1. UNCHANGED <<domain, served, desk, torn, solo>>
    BY <1>1 DEF Customer, LoginImap, LoginFinish, LoginEnds, TwofaAbort, TwofaVerify, Logout, Expired, TwofaEnable,
                TwofaConfirm, TwofaSettings, TwofaDisable, NoSecondFactor, TwofaRevokeDevice, TwofaRevokeAllDevices,
                ApiEnable, ApiDisable, CreateToken, Authorize, Subscribe, Unsubscribe, PushDeviceRemove, RevokeToken,
                ApiRevokeToken, Token, remote, office
  <2> QED BY <2>1, StillServed
<1>2. CASE CreateExternal \/ ManagerCreates \/ ResetLink \/ LoginLink \/ ToggleExternal \/ ToggleCustomer
           \/ PurgeCustomer \/ ManagerToggles \/ ManagerPurges \/ SyncLocally
  <2>1. UNCHANGED <<domain, served, desk, torn, solo>>
    BY <1>2 DEF CreateExternal, ManagerCreates, ResetLink, LoginLink, ToggleExternal, ToggleCustomer, PurgeCustomer,
                ManagerToggles, ManagerPurges, SyncLocally, AsksOnly, remote
  <2> QED BY <2>1, StillServed
<1>3. CASE DisableCustomer2fa \/ ArmPush \/ OpenCache \/ SyncAccount \/ PushGone \/ CodeExpires \/ UNCHANGED vars
  <2>1. UNCHANGED <<domain, served, desk, torn, solo>>
    BY <1>3 DEF DisableCustomer2fa, NoSecondFactor, ArmPush, OpenCache, SyncAccount, PushGone, CodeExpires, vars,
                remote, office
  <2> QED BY <2>1, StillServed
<1> QED BY <1>1, <1>2, <1>3

\* The process ends and starts again.
LEMMA RestartServed == ASSUME ServedInv, PasswordsOK, Restart PROVE ServedInv'
<1>1. /\ domain' = domain /\ served' = served /\ solo' = None /\ desk' = [d \in Desks |-> Idle]
      /\ torn' = (torn \/ \E d \in Desks : desk[d] # Idle)
  BY DEF Restart, remote
<1>2. Idle.calls = <<>> /\ Idle.then = "idle" BY DEF Idle
<1>3. \A d \in Desks : ~Calling(d)' BY <1>1, <1>2 DEF Calling, AboutDomain
<1>4. Heading' /\ Overlaps' BY <1>1, <1>3, AccountsAssumption DEF Heading, Overlaps
<1>5. Settled'
  <2> SUFFICES ASSUME ~torn', Live PROVE served BY <1>1 DEF Settled, Live
  <2>1. ~torn /\ \A d \in Desks : desk[d] = Idle BY <1>1
  <2>2. \A d \in Desks : ~Calling(d) /\ ~Leaving(d) BY <1>2, <2>1 DEF Calling, Leaving, AboutDomain
  <2> QED BY <2>1, <2>2 DEF ServedInv, Settled
<1> QED BY <1>1, <1>4, <1>5 DEF ServedInv

\* Every step.
LEMMA NextServed == ASSUME IInv, [Next]_vars PROVE ServedInv'
<1>1. ServedInv /\ PasswordsOK BY DEF IInv, KeysInv
<1>2. CASE Office
  <2>1. ASSUME NEW d \in Desks, Serve(d) \/ Refuse(d) \/ CheckUser(d) \/ Discover(d) PROVE ServedInv'
    BY <1>1, <2>1, CallsServed
  <2> QED BY <1>1, <1>2, <2>1, DomainServed, CustomersServed, CommitsServed, OthersServed DEF Office
<1>3. CASE Customer BY <1>1, <1>3, OthersServed
<1>4. CASE Server BY <1>1, <1>4, OthersServed, RestartServed DEF Server
<1>5. CASE UNCHANGED vars BY <1>1, <1>5, OthersServed
<1> QED BY <1>2, <1>3, <1>4, <1>5 DEF Next

-----------------------------------------------------------------------------
(* Passwords *)

\* A request is asked for, with a password if it is to tell one.
LEMMA AsksPasswords ==
  ASSUME PasswordsOK, NEW d \in Desks, NEW calls, NEW p, NEW then, Asks(d, calls, p, then),
         calls \in Plain \/ (calls \in Telling /\ p \in Passwords),
         then = "delete_domain" => calls = <<"remove_domain">>,
         UNCHANGED <<mailbox, login>>
  PROVE  PasswordsOK'
<1> DEFINE r == [calls |-> calls, pw |-> p, then |-> then, failed |-> FALSE]
<1>1. desk' = [desk EXCEPT ![d] = r] BY DEF Asks
<1>2. DeskOK(r) BY DEF DeskOK
<1> HIDE DEF r
<1> QED BY <1>1, <1>2 DEF PasswordsOK

\* A request goes on, ends, or begins again.
LEMMA DeskPasswords ==
  ASSUME PasswordsOK, NEW d \in Desks, NEW r, DeskOK(r), desk' = [desk EXCEPT ![d] = r],
         mailbox' \in Passwords \union {None}, login' = login
  PROVE  PasswordsOK'
BY DEF PasswordsOK

\* No request.
LEMMA IdleOK == DeskOK(Idle)
BY DEF DeskOK, Idle, Plain

\* What is asked for.
LEMMA AskedPasswords ==
  ASSUME PasswordsOK, NEW d \in Desks,
         \/ Setup(d) \/ CreateDomain(d) \/ ProvisionDomain(d) \/ ToggleDomain(d) \/ UpdateDomain(d)
         \/ ReviewDomain(d) \/ SaveMailConfig(d) \/ SaveMailApiConfig(d) \/ DeleteDomain(d)
         \/ CreateCustomer(d) \/ InviteCustomer(d) \/ Signup(d) \/ SetPassword(d) \/ ResetPassword(d)
         \/ DeleteAccount(d) \/ SyncRemotely(d) \/ ProvisionMailbox(d) \/ ProvisionDelete(d) \/ ProvisionPassword(d)
  PROVE  PasswordsOK'
<1>1. UNCHANGED <<mailbox, login>>
  BY DEF Setup, CreateDomain, ProvisionDomain, ToggleDomain, UpdateDomain, ReviewDomain, SaveMailConfig,
         SaveMailApiConfig, Resynced, DeleteDomain, CreateCustomer, InviteCustomer, Signup, SetPassword, ResetPassword,
         DeleteAccount, SyncRemotely, ProvisionMailbox, ProvisionDelete, ProvisionPassword, remote, browser
<1>2. CASE \/ Setup(d) \/ CreateDomain(d) \/ ProvisionDomain(d) \/ ToggleDomain(d) \/ UpdateDomain(d)
           \/ ReviewDomain(d) \/ SaveMailConfig(d) \/ SaveMailApiConfig(d)
  <2>1. PICK calls \in {<<"add_domain">>, <<"remove_domain">>, <<"discover">>} : Asks(d, calls, None, "over")
    BY <1>2, SyncedTells
    DEF Setup, CreateDomain, ProvisionDomain, ToggleDomain, UpdateDomain, ReviewDomain, SaveMailConfig,
        SaveMailApiConfig, Resynced
  <2> QED BY <1>1, <2>1, AsksPasswords DEF Plain
<1>3. CASE DeleteDomain(d)
  <2>1. Asks(d, <<"remove_domain">>, None, "delete_domain") BY <1>3 DEF DeleteDomain
  <2> QED BY <1>1, <2>1, AsksPasswords DEF Plain
<1>4. CASE InviteCustomer(d) \/ DeleteAccount(d) \/ ProvisionDelete(d)
  <2>1. PICK calls \in {<<>>, <<"check_user">>, <<"remove_user">>}, then \in {"invite", "delete", "over"} :
          Asks(d, calls, None, then)
    BY <1>4 DEF InviteCustomer, DeleteAccount, ProvisionDelete
  <2> QED BY <1>1, <2>1, AsksPasswords DEF Plain
<1>5. CASE CreateCustomer(d) \/ Signup(d) \/ SyncRemotely(d) \/ SetPassword(d) \/ ResetPassword(d)
           \/ ProvisionPassword(d) \/ ProvisionMailbox(d)
  <2>1. PICK calls \in Telling, p \in Passwords, then \in {"create", "signup", "sync", "over", "reset", "provision"} :
          Asks(d, calls, p, then)
    <3>1. MaxPw \in Passwords BY AccountsAssumption DEF Passwords
    <3>2. CASE CreateCustomer(d) \/ Signup(d) \/ SyncRemotely(d)
      BY <3>1, <3>2 DEF CreateCustomer, Signup, SyncRemotely, Telling
    <3>3. CASE SetPassword(d) \/ ResetPassword(d) \/ ProvisionPassword(d) \/ ProvisionMailbox(d)
      BY <3>3 DEF SetPassword, ResetPassword, ProvisionPassword, ProvisionMailbox, Telling
    <3> QED BY <1>5, <3>2, <3>3
  <2> QED BY <1>1, <2>1, AsksPasswords
<1> QED BY <1>2, <1>3, <1>4, <1>5

\* A request goes on with its calls.
LEMMA GoesOn ==
  ASSUME NEW r, DeskOK(r), NEW calls \in {<<>>, <<"add_user">>, <<"set_password">>}, NEW no,
         calls # <<>> => r.pw \in Passwords, r.then = "delete_domain" => calls = <<>>
  PROVE  DeskOK([r EXCEPT !.calls = calls, !.failed = no])
<1>1. PICK p, name, before, past : r = [calls |-> before, pw |-> p, then |-> name, failed |-> past] BY DEF DeskOK
<1>2. PICK s : s = [r EXCEPT !.calls = calls, !.failed = no] OBVIOUS
<1>3. s.calls = calls /\ s.pw = r.pw /\ s.then = r.then /\ s.failed = no BY <1>1, <1>2
<1>4. s = [calls |-> s.calls, pw |-> s.pw, then |-> s.then, failed |-> s.failed] BY <1>1, <1>2
<1>5. DeskOK(s) BY <1>3, <1>4 DEF DeskOK, Plain, Telling
<1> QED BY <1>2, <1>5

\* What requests do with the answers of the mail API.
LEMMA AnsweredPasswords ==
  ASSUME PasswordsOK, NEW d \in Desks,
         \/ Serve(d) \/ Refuse(d) \/ CheckUser(d) \/ Discover(d) \/ Fails(d)
         \/ Created(d) \/ Invited(d) \/ SignedUp(d) \/ PasswordReset(d) \/ AccountDeleted(d)
         \/ SyncedRemotely(d) \/ Provisioned(d) \/ DomainDeleted(d)
  PROVE  PasswordsOK'
<1> DEFINE r == desk[d]
<1>1. DeskOK(r) /\ desk = [e \in Desks |-> desk[e]] /\ mailbox \in Passwords \union {None} BY DEF PasswordsOK
<1>2. r = [calls |-> r.calls, pw |-> r.pw, then |-> r.then, failed |-> r.failed] BY <1>1 DEF DeskOK
<1>3. login' = login
  BY DEF Serve, Refuse, CheckUser, Discover, Fails, Created, Invited, SignedUp, PasswordReset, AccountDeleted,
         SyncedRemotely, Provisioned, DomainDeleted, Quiet, browser
<1>5. ASSUME NEW ok \in BOOLEAN, Asking(d), Answered(d, ok), mailbox' \in Passwords \union {None} PROVE PasswordsOK'
  <2>1. r.calls # <<>> /\ Head(r.calls) # "check_user" BY <1>5 DEF Asking
  <2>2. After(r.calls, ok) \in {<<>>, <<"add_user">>, <<"set_password">>}
        /\ (After(r.calls, ok) # <<>> => r.pw \in Passwords)
    BY <1>1, <2>1, Sequels
  <2>3. r.then = "delete_domain" => After(r.calls, ok) = <<>>
    <3> SUFFICES ASSUME r.then = "delete_domain" PROVE After(r.calls, ok) = <<>> OBVIOUS
    <3>1. r.calls = <<"remove_domain">> BY <1>1, <2>1 DEF DeskOK
    <3> QED BY <3>1 DEF After
  <2> DEFINE strict == r.then \in Strict
             rest == IF ok \/ ~strict THEN After(r.calls, ok) ELSE <<>>
             failed == ~ok /\ strict
  <2>4. \/ desk' = [desk EXCEPT ![d] = Idle]
        \/ desk' = [desk EXCEPT ![d] = [r EXCEPT !.calls = rest, !.failed = failed]]
    BY <1>5 DEF Answered
  <2>5. /\ rest \in {<<>>, <<"add_user">>, <<"set_password">>}
        /\ rest # <<>> => r.pw \in Passwords
        /\ r.then = "delete_domain" => rest = <<>>
    BY <2>2, <2>3
  <2> HIDE DEF rest, failed
  <2>6. DeskOK([r EXCEPT !.calls = rest, !.failed = failed]) BY <1>1, <2>5, GoesOn
  <2> QED BY <1>3, <1>5, <2>4, <2>6, IdleOK, DeskPasswords
<1>6. CASE Serve(d)
  <2>1. Asking(d) /\ Performs(Head(r.calls), r.pw) BY <1>6 DEF Serve
  <2>2. Head(r.calls) \in {"add_user", "upsert_user", "set_password"} => r.pw \in Passwords
    BY <1>1, <2>1, Sequels DEF Asking
  <2>3. mailbox' \in Passwords \union {None}
    BY <1>1, <2>1, <2>2 DEF Performs, AddDomain, RemoveDomain, AddUser, RemoveUser, ChangePassword
  <2>4. PICK ok \in BOOLEAN : Answered(d, ok) BY <1>6 DEF Serve
  <2> QED BY <1>5, <2>1, <2>3, <2>4
<1>7. CASE Refuse(d) BY <1>1, <1>5, <1>7 DEF Refuse, remote
<1>8. CASE CheckUser(d)
  <2>1. PICK failed : desk' = [desk EXCEPT ![d].calls = Tail(@), ![d].failed = failed] BY <1>8 DEF CheckUser
  <2>2. desk' = [desk EXCEPT ![d] = [r EXCEPT !.calls = Tail(r.calls), !.failed = failed]] BY <1>1, <2>1
  <2>3. r.calls # <<>> /\ Head(r.calls) = "check_user" BY <1>8 DEF CheckUser
  <2>4. Tail(r.calls) = <<>>
    <3>1. r.calls # <<"add_domain", "add_user">> BY <2>3, About
    <3> QED BY <1>1, <2>3, <3>1, Sequels
  <2>5. DeskOK([r EXCEPT !.calls = <<>>, !.failed = failed]) BY <1>1, GoesOn
  <2>6. mailbox' = mailbox BY <1>8 DEF CheckUser, remote
  <2> QED BY <1>1, <1>3, <2>2, <2>4, <2>5, <2>6, DeskPasswords
<1>9. CASE Discover(d)
  <2>1. mailbox' = mailbox BY <1>9 DEF Discover, remote
  <2>2. CASE domain = None
    <3>1. desk' = [desk EXCEPT ![d] = Idle] BY <1>9, <2>2 DEF Discover
    <3> QED BY <1>1, <1>3, <2>1, <3>1, IdleOK, DeskPasswords
  <2>3. CASE domain # None
    <3> DEFINE s == [r EXCEPT !.calls = Synced(domain')]
    <3>1. desk' = [desk EXCEPT ![d] = s] BY <1>1, <1>9, <2>3 DEF Discover
    <3>2. s.calls = Synced(domain') /\ s.then = r.then
          /\ s = [calls |-> s.calls, pw |-> s.pw, then |-> s.then, failed |-> s.failed] BY <1>2
    <3>3. r.then # "delete_domain"
      <4>1. Head(r.calls) = "discover" /\ r.calls # <<>> BY <1>9 DEF Discover
      <4>2. r.calls # <<"remove_domain">> BY <4>1
      <4> QED BY <1>1, <4>1, <4>2 DEF DeskOK
    <3> HIDE DEF s
    <3>4. DeskOK(s) BY <3>2, <3>3, SyncedTells DEF DeskOK, Plain
    <3> QED BY <1>1, <1>3, <2>1, <3>1, <3>4, DeskPasswords
  <2> QED BY <2>2, <2>3
<1>10. CASE \/ Fails(d) \/ Created(d) \/ Invited(d) \/ SignedUp(d) \/ PasswordReset(d) \/ AccountDeleted(d)
            \/ SyncedRemotely(d) \/ Provisioned(d) \/ DomainDeleted(d)
  <2>1. desk' = [desk EXCEPT ![d] = Idle] /\ mailbox' = mailbox
    BY <1>10 DEF Fails, Created, Invited, SignedUp, PasswordReset, AccountDeleted, SyncedRemotely, Provisioned,
                 DomainDeleted, Done, remote
  <2> QED BY <1>1, <1>3, <2>1, IdleOK, DeskPasswords
<1> QED BY <1>6, <1>7, <1>8, <1>9, <1>10

\* Logins, and a restart.
LEMMA LoginPasswords ==
  ASSUME PasswordsOK, Restart \/ \E b \in Browsers : LoginImap(b) \/ LoginFinish(b) \/ LoginEnds(b)
  PROVE  PasswordsOK'
<1>1. CASE Restart BY <1>1, IdleOK DEF Restart, PasswordsOK, remote
<1>2. ASSUME NEW b \in Browsers, LoginImap(b) \/ LoginFinish(b) \/ LoginEnds(b) PROVE PasswordsOK'
  <2>1. mailbox' = mailbox /\ desk' = desk BY <1>2 DEF LoginImap, LoginFinish, LoginEnds, remote, office
  <2>2. login' \in [Browsers -> Passwords \union {None}]
    BY <1>2 DEF LoginImap, LoginFinish, LoginEnds, PasswordsOK
  <2> QED BY <2>1, <2>2 DEF PasswordsOK
<1> QED BY <1>1, <1>2

\* Everything else.
LEMMA OthersPasswords ==
  ASSUME PasswordsOK, UNCHANGED <<mailbox, login, desk>>
  PROVE  PasswordsOK'
BY DEF PasswordsOK

\* Requests of administrators.
LEMMA OfficePasswords == ASSUME PasswordsOK, Office PROVE PasswordsOK'
<1>1. CASE \/ CreateExternal \/ ManagerCreates \/ ResetLink \/ LoginLink \/ ToggleExternal
           \/ ToggleCustomer \/ PurgeCustomer \/ ManagerToggles \/ ManagerPurges
           \/ SyncLocally \/ DisableCustomer2fa
  <2>1. UNCHANGED <<mailbox, login, desk>>
    BY <1>1 DEF CreateExternal, ManagerCreates, ResetLink, LoginLink, ToggleExternal, ToggleCustomer, PurgeCustomer,
                ManagerToggles, ManagerPurges, SyncLocally, DisableCustomer2fa, NoSecondFactor, AsksOnly,
                remote, browser, office
  <2> QED BY <2>1, OthersPasswords
<1> QED BY <1>1, AskedPasswords, AnsweredPasswords DEF Office

-----------------------------------------------------------------------------
(* Keys *)

\* The fields of an account, as a change of it leaves them.
Fields(a) == a = [active |-> a.active, secret |-> a.secret, path |-> a.path,
                  wrapped |-> a.wrapped, api |-> a.api, link |-> a.link]

\* An account that is new, and one that is changed.
LEMMA NewAccountOK ==
  Fields(NewAccount) /\ NewAccount.secret = None /\ NewAccount.wrapped = None
BY DEF Fields, NewAccount

\* An account whose secret and wrapped DEK are as they were, or are no more.
LEMMA SameAccount ==
  ASSUME AccountOK, NEW a, account' = a, Fields(a),
         a.secret = None \/ (account # None /\ a.secret = account.secret),
         a.wrapped = None \/ (account # None /\ a.wrapped = account.wrapped)
  PROVE  AccountOK'
BY DEF AccountOK, Fields, SecretOK, WrapOK

\* What requests of administrators, and syncs, make of an account.
LEMMA Changes ==
  ASSUME AccountOK, account # None, NEW v
  PROVE  LET As == {[account EXCEPT !.link = v], [account EXCEPT !.active = v], [account EXCEPT !.path = v],
                    Purged(account), Purged([account EXCEPT !.link = FALSE, !.wrapped = None]),
                    Purged([account EXCEPT !.api = FALSE, !.wrapped = None])}
         IN  \A a \in As : Fields(a) /\ a.secret = account.secret /\ a.wrapped \in {account.wrapped, None}
<1>1. PICK act, sec, path, wrap, api, link :
        account = [active |-> act, secret |-> sec, path |-> path, wrapped |-> wrap, api |-> api, link |-> link]
  BY DEF AccountOK
<1>2. ASSUME NEW a, \/ a = [account EXCEPT !.link = v] \/ a = [account EXCEPT !.active = v]
                    \/ a = [account EXCEPT !.path = v] \/ a = Purged(account)
      PROVE  Fields(a) /\ a.secret = account.secret /\ a.wrapped = account.wrapped
  BY <1>1, <1>2 DEF Fields, Purged
<1>3. ASSUME NEW a, \/ a = Purged([account EXCEPT !.link = FALSE, !.wrapped = None])
                    \/ a = Purged([account EXCEPT !.api = FALSE, !.wrapped = None])
      PROVE  Fields(a) /\ a.secret = account.secret /\ a.wrapped = None
  <2>1. PICK x : /\ \/ x = [account EXCEPT !.link = FALSE, !.wrapped = None]
                    \/ x = [account EXCEPT !.api = FALSE, !.wrapped = None]
                 /\ a = Purged(x)
    BY <1>3
  <2>2. Fields(x) /\ x.secret = account.secret /\ x.wrapped = None BY <1>1, <2>1 DEF Fields
  <2>3. PICK act1, sec1, path1, wrap1, api1, link1 :
          x = [active |-> act1, secret |-> sec1, path |-> path1, wrapped |-> wrap1, api |-> api1, link |-> link1]
    BY <2>2 DEF Fields
  <2>4. a = [x EXCEPT !.path = FALSE] BY <2>1 DEF Purged
  <2>5. Fields(a) /\ a.secret = x.secret /\ a.wrapped = x.wrapped BY <2>3, <2>4 DEF Fields
  <2> QED BY <2>2, <2>5
<1> QED BY <1>2, <1>3

\* What a request of an administrator makes of the account and its keys.
OfficeTouches ==
  /\ UNCHANGED <<mem, tokens, grants, push, sess>> /\ cache' \in {cache, None}
  /\ \/ account' \in {account, None, NewAccount}
     \/ account # None /\ \E v \in BOOLEAN : account' \in {[account EXCEPT !.link = v], [account EXCEPT !.active = v]}
     \/ account # None /\ account' = Purged(account)
     \/ account # None /\ account' = Purged([account EXCEPT !.link = FALSE, !.wrapped = None])
     \/ account' = [NewAccount EXCEPT !.link = TRUE]

\* Every request does one of these.
LEMMA OfficeOK == ASSUME Office PROVE OfficeTouches
<1>1. ASSUME NEW d \in Desks,
             \/ Serve(d) \/ Refuse(d) \/ CheckUser(d) \/ Discover(d) \/ Fails(d)
             \/ Setup(d) \/ CreateDomain(d) \/ ProvisionDomain(d) \/ ToggleDomain(d)
             \/ UpdateDomain(d) \/ ReviewDomain(d) \/ SaveMailConfig(d) \/ SaveMailApiConfig(d) \/ DeleteDomain(d)
      PROVE  OfficeTouches
  BY <1>1 DEF OfficeTouches, Serve, Refuse, CheckUser, Discover, Fails, Setup, CreateDomain, ProvisionDomain,
              ToggleDomain, UpdateDomain, ReviewDomain, SaveMailConfig, SaveMailApiConfig, Resynced, DeleteDomain,
              local, browser, access
<1>2. ASSUME NEW d \in Desks,
             \/ CreateCustomer(d) \/ InviteCustomer(d) \/ Signup(d) \/ ResetPassword(d)
             \/ DeleteAccount(d) \/ SyncRemotely(d) \/ ProvisionMailbox(d) \/ ProvisionDelete(d) \/ ProvisionPassword(d)
      PROVE  OfficeTouches
  BY <1>2 DEF OfficeTouches, CreateCustomer, InviteCustomer, Signup, ResetPassword, DeleteAccount, SyncRemotely,
              ProvisionMailbox, ProvisionDelete, ProvisionPassword, local, browser, access
<1>3. ASSUME NEW d \in Desks,
             DomainDeleted(d) \/ Created(d) \/ Invited(d) \/ AccountDeleted(d) \/ Provisioned(d)
      PROVE  OfficeTouches
  BY <1>3 DEF OfficeTouches, DomainDeleted, Created, Invited, AccountDeleted, Provisioned, CacheAfterPurge, Quiet,
              local, browser, access
<1>4. ASSUME NEW d \in Desks, SignedUp(d) \/ SetPassword(d) \/ PasswordReset(d) \/ SyncedRemotely(d)
      PROVE  OfficeTouches
  BY <1>4 DEF OfficeTouches, SignedUp, SetPassword, PasswordReset, Reset, SyncedRemotely, CacheAfterPurge, Quiet,
              browser, access
<1>5. CASE \/ CreateExternal \/ ManagerCreates \/ ResetLink \/ LoginLink \/ ToggleExternal
           \/ ToggleCustomer \/ ManagerToggles
  BY <1>5 DEF OfficeTouches, CreateExternal, ManagerCreates, ResetLink, LoginLink, ToggleExternal, ToggleCustomer,
              ManagerToggles, browser, access
<1>6. CASE PurgeCustomer \/ ManagerPurges \/ SyncLocally \/ DisableCustomer2fa
  BY <1>6 DEF OfficeTouches, PurgeCustomer, ManagerPurges, SyncLocally, DisableCustomer2fa, NoSecondFactor,
              CacheAfterPurge, browser, access
<1> QED BY <1>1, <1>2, <1>3, <1>4, <1>5, <1>6 DEF Office

\* The requests of administrators.
LEMMA OfficeKeys ==
  ASSUME KeysInv, Office
  PROVE  AccountOK' /\ KeptOK'
<1>1. AccountOK /\ KeptOK BY DEF KeysInv
<1>2. OfficeTouches BY OfficeOK
<1>3. KeptOK' BY <1>1, <1>2 DEF OfficeTouches, KeptOK, Held
<1>4. \/ account' \in {account, None, NewAccount}
      \/ account # None /\ \E v \in BOOLEAN : account' = [account EXCEPT !.link = v] \/ account' = [account EXCEPT !.active = v]
      \/ account # None /\ account' = Purged(account)
      \/ account # None /\ account' = Purged([account EXCEPT !.link = FALSE, !.wrapped = None])
      \/ account' = [NewAccount EXCEPT !.link = TRUE]
  BY <1>2 DEF OfficeTouches
<1>5. ASSUME account' \in {account, None} PROVE AccountOK'
  <2>1. CASE account' = None BY <2>1 DEF AccountOK
  <2>2. CASE account' = account BY <1>1, <2>2 DEF AccountOK
  <2> QED BY <1>5, <2>1, <2>2
<1>6. ASSUME account' = NewAccount PROVE AccountOK'
  <2>1. PICK a : a = NewAccount OBVIOUS
  <2> QED BY <1>1, <1>6, <2>1, NewAccountOK, SameAccount
<1>7. ASSUME account' = [NewAccount EXCEPT !.link = TRUE] PROVE AccountOK'
  <2>1. PICK a : a = account' OBVIOUS
  <2>2. Fields(a) /\ a.secret = None /\ a.wrapped = None BY <1>7, <2>1 DEF NewAccount, Fields
  <2> QED BY <1>1, <2>1, <2>2, SameAccount
<1>8. ASSUME account # None, NEW v, account' = [account EXCEPT !.link = v] \/ account' = [account EXCEPT !.active = v]
      PROVE  AccountOK'
  BY <1>1, <1>8, Changes, SameAccount
<1>9. ASSUME account # None, \/ account' = Purged(account)
                             \/ account' = Purged([account EXCEPT !.link = FALSE, !.wrapped = None])
      PROVE  AccountOK'
  <2>1. PICK a : a = account' OBVIOUS
  <2>2. Fields(a) /\ a.secret = account.secret /\ a.wrapped \in {account.wrapped, None} BY <1>1, <1>9, <2>1, Changes
  <2> QED BY <1>1, <1>9, <2>1, <2>2, SameAccount
<1> QED BY <1>3, <1>4, <1>5, <1>6, <1>7, <1>8, <1>9

\* A login derives the key anew, and finds it wrapped under itself if at all.
LEMMA LoginKeys ==
  ASSUME KeysInv, NEW b \in Browsers, LoginFinish(b)
  PROVE  AccountOK' /\ KeptOK'
<1> DEFINE p == login[b]
           a == IF account = None THEN NewAccount ELSE account
           k == LoginKey(a, p)
<1>1. p \in Passwords BY DEF LoginFinish, KeysInv, PasswordsOK
<1>2. Fields(a) /\ WrapOK(a.wrapped) BY NewAccountOK DEF KeysInv, AccountOK, Fields, WrapOK
<1>3. k = Cred(p) /\ k \in Creds BY <1>1, <1>2 DEF LoginKey, WrapOK, Creds
<1>4. account' = [a EXCEPT !.path = TRUE, !.secret = [pw |-> p, key |-> k]] BY DEF LoginFinish
<1>5. mem' = k /\ cache' = cache /\ UNCHANGED <<tokens, grants>> BY DEF LoginFinish, access
<1>6. PICK st : sess' = [sess EXCEPT ![b] = [stage |-> st, key |-> k]] BY DEF LoginFinish
<1>7. push' = push \/ push' = [push EXCEPT !.stored = k] BY DEF LoginFinish, Rearmed
<1> HIDE DEF a, k
<1>8. AccountOK'
  <2>1. PICK act, sec, path, wrap, api, link :
          a = [active |-> act, secret |-> sec, path |-> path, wrapped |-> wrap, api |-> api, link |-> link]
    BY <1>2 DEF Fields
  <2>2. PICK x : x = account' OBVIOUS
  <2>3. Fields(x) /\ x.secret = [pw |-> p, key |-> k] /\ x.wrapped = a.wrapped BY <1>4, <2>1, <2>2 DEF Fields
  <2>4. x.secret.pw = p /\ x.secret.key = k BY <2>3
  <2> QED BY <1>1, <1>2, <1>3, <2>2, <2>3, <2>4 DEF AccountOK, Fields, SecretOK
<1>9. KeptOK' BY <1>3, <1>5, <1>6, <1>7 DEF KeysInv, KeptOK, Held
<1> QED BY <1>8, <1>9

\* ensure_api_enabled with the key of the secret, or where it has nothing to do.
LEMMA EnsuredKeys ==
  ASSUME AccountOK, KeptOK, NEW k \in Creds, CanEnable(k), Ensured(k)
  PROVE  AccountOK' /\ mem' \in Held /\ cache' \in Held
<1>1. mem' = k /\ cache' \in {cache, None} BY DEF Ensured, CacheAfterPurge
<1>2. CASE ~Active \/ (account.api /\ account.wrapped # None)
  <2>1. account' = account BY <1>2 DEF Ensured
  <2> QED BY <1>1, <2>1 DEF AccountOK, KeptOK, Held
<1>3. CASE ~(~Active \/ (account.api /\ account.wrapped # None))
  <2>1. account # None /\ (account.secret = None \/ account.secret.key = k) BY <1>3 DEF CanEnable, Active
  <2>2. SecretOK(account.secret) BY <2>1 DEF AccountOK
  <2>3. PICK act, sec, path, wrap, api, link :
          account = [active |-> act, secret |-> sec, path |-> path, wrapped |-> wrap, api |-> api, link |-> link]
    BY <2>1 DEF AccountOK
  <2>4. PICK x : x = [account EXCEPT !.api = TRUE, !.wrapped = [dek |-> k, under |-> k],
                                     !.secret = IF @ = None THEN None ELSE [@ EXCEPT !.key = k]]
    OBVIOUS
  <2>5. account' = [x EXCEPT !.path = FALSE] BY <1>3, <2>4 DEF Ensured, Purged
  <2>6. /\ Fields(x) /\ x.wrapped = [dek |-> k, under |-> k]
        /\ x.secret = IF sec = None THEN None ELSE [sec EXCEPT !.key = k]
    BY <2>3, <2>4 DEF Fields
  <2>7. x.secret = account.secret
    <3>1. CASE sec = None BY <2>3, <2>6, <3>1
    <3>2. CASE sec # None
      <4>1. sec = [pw |-> sec.pw, key |-> sec.key] /\ sec.key = k BY <2>1, <2>2, <2>3, <3>2 DEF SecretOK
      <4>2. [sec EXCEPT !.key = k] = sec BY <4>1
      <4> QED BY <2>3, <2>6, <3>2, <4>2
    <3> QED BY <3>1, <3>2
  <2>8. PICK act1, sec1, path1, wrap1, api1, link1 :
          x = [active |-> act1, secret |-> sec1, path |-> path1, wrapped |-> wrap1, api |-> api1, link |-> link1]
    BY <2>6 DEF Fields
  <2>9. PICK y : y = account' OBVIOUS
  <2>10. Fields(y) /\ y.secret = account.secret /\ y.wrapped = [dek |-> k, under |-> k]
    BY <2>5, <2>6, <2>7, <2>8, <2>9 DEF Fields
  <2>11. WrapOK(y.wrapped)
    <3>1. y.wrapped.dek = k /\ y.wrapped.under = k BY <2>10
    <3> QED BY <3>1 DEF WrapOK
  <2>12. AccountOK' BY <2>2, <2>9, <2>10, <2>11 DEF AccountOK, Fields
  <2> QED BY <1>1, <2>12 DEF KeptOK, Held
<1> QED BY <1>2, <1>3

\* The other steps of the customer.
LEMMA CustomerKeys ==
  ASSUME KeysInv, NEW b \in Browsers,
         \/ LoginImap(b) \/ LoginEnds(b)
         \/ TwofaAbort(b) \/ TwofaVerify(b) \/ Logout(b) \/ Expired(b)
         \/ TwofaEnable(b) \/ TwofaConfirm(b) \/ TwofaSettings(b)
         \/ TwofaDisable(b) \/ TwofaRevokeDevice(b) \/ TwofaRevokeAllDevices(b)
         \/ CreateToken(b) \/ Subscribe(b) \/ Unsubscribe(b) \/ PushDeviceRemove(b)
         \/ RevokeToken \/ ApiRevokeToken \/ Token
  PROVE  AccountOK' /\ KeptOK'
<1>1. AccountOK /\ KeptOK BY DEF KeysInv
<1>2. UNCHANGED <<account, cache>>
  BY DEF LoginImap, LoginEnds, TwofaAbort, TwofaVerify, Logout, Expired, TwofaEnable, TwofaConfirm, TwofaSettings,
         TwofaDisable, NoSecondFactor, TwofaRevokeDevice, TwofaRevokeAllDevices, CreateToken, Subscribe, Unsubscribe,
         PushDeviceRemove, RevokeToken, ApiRevokeToken, Token, local
<1>3. AccountOK' BY <1>1, <1>2 DEF AccountOK
<1>4. mem' \in {mem, None, push'.stored}
  BY DEF LoginImap, LoginEnds, TwofaAbort, TwofaVerify, Logout, Expired, TwofaEnable, TwofaConfirm, TwofaSettings,
         TwofaDisable, NoSecondFactor, TwofaRevokeDevice, TwofaRevokeAllDevices, CreateToken, Subscribe, Loaded, Unsubscribe,
         PushDeviceRemove, RevokeToken, ApiRevokeToken, Token
<1>5. tokens' \subseteq tokens \union {mem} /\ grants' \subseteq grants \union {mem}
  BY DEF LoginImap, LoginEnds, TwofaAbort, TwofaVerify, Logout, Expired, TwofaEnable, TwofaConfirm, TwofaSettings,
         TwofaDisable, NoSecondFactor, TwofaRevokeDevice, TwofaRevokeAllDevices, CreateToken, Subscribe, Unsubscribe,
         PushDeviceRemove, RevokeToken, ApiRevokeToken, Token, access
<1>6. push' = [sub |-> push'.sub, stored |-> push'.stored] /\ push'.stored \in {push.stored, mem, None}
  <2>1. \/ push' = push \/ push' = [push EXCEPT !.stored = mem] \/ push' = [sub |-> "none", stored |-> None]
        \/ push' = [sub |-> "on", stored |-> IF mem # None THEN mem ELSE push.stored]
    BY DEF LoginImap, LoginEnds, TwofaAbort, TwofaVerify, Rearmed, Logout, Expired, TwofaEnable, TwofaConfirm,
           TwofaSettings, TwofaDisable, NoSecondFactor, TwofaRevokeDevice, TwofaRevokeAllDevices, CreateToken, Subscribe,
           Unsubscribe, PushDeviceRemove, RevokeToken, ApiRevokeToken, Token
  <2>2. push = [sub |-> push.sub, stored |-> push.stored] BY <1>1 DEF KeptOK
  <2> QED BY <2>1, <2>2
<1>7. sess' = sess \/ sess' = [sess EXCEPT ![b] = Out] \/ sess' = [sess EXCEPT ![b].stage = "in"]
  BY DEF LoginImap, LoginEnds, TwofaAbort, TwofaVerify, Logout, Expired, Leaves, TwofaEnable, TwofaConfirm, TwofaSettings,
         TwofaDisable, NoSecondFactor, TwofaRevokeDevice, TwofaRevokeAllDevices, CreateToken, Subscribe, Unsubscribe,
         PushDeviceRemove, RevokeToken, ApiRevokeToken, Token, browser
<1>8. /\ sess' = [e \in Browsers |-> sess'[e]]
      /\ \A e \in Browsers : sess'[e] = [stage |-> sess'[e].stage, key |-> sess'[e].key] /\ sess'[e].key \in Held
  <2>1. /\ sess = [e \in Browsers |-> sess[e]]
        /\ \A e \in Browsers : sess[e] = [stage |-> sess[e].stage, key |-> sess[e].key] /\ sess[e].key \in Held
    BY <1>1 DEF KeptOK
  <2>2. CASE sess' = sess BY <2>1, <2>2
  <2>3. CASE sess' = [sess EXCEPT ![b] = Out]
    BY <2>1, <2>3 DEF Out, Held
  <2>4. CASE sess' = [sess EXCEPT ![b].stage = "in"]
    <3>1. PICK s : s = [sess[b] EXCEPT !.stage = "in"] OBVIOUS
    <3>2. s = [stage |-> "in", key |-> sess[b].key] BY <2>1, <3>1
    <3>3. sess' = [sess EXCEPT ![b] = s] BY <2>4, <3>1
    <3> QED BY <2>1, <3>2, <3>3
  <2> QED BY <1>7, <2>2, <2>3, <2>4
<1>9. KeptOK' BY <1>1, <1>2, <1>4, <1>5, <1>6, <1>8 DEF KeptOK, Held
<1> QED BY <1>3, <1>9

\* API access, which is enabled with a key that opens the secret, and OAuth.
LEMMA AccessKeys ==
  ASSUME KeysInv, NEW b \in Browsers, ApiEnable(b) \/ ApiDisable(b) \/ Authorize(b)
  PROVE  AccountOK' /\ KeptOK'
<1>1. AccountOK /\ KeptOK BY DEF KeysInv
<1>2. tokens' \subseteq tokens /\ UNCHANGED <<grants, push>> BY DEF ApiEnable, ApiDisable, Authorize, access
<1>3. /\ sess' = [e \in Browsers |-> sess'[e]]
      /\ \A e \in Browsers : sess'[e] = [stage |-> sess'[e].stage, key |-> sess'[e].key] /\ sess'[e].key \in Held
  <2>1. /\ sess = [e \in Browsers |-> sess[e]]
        /\ \A e \in Browsers : sess[e] = [stage |-> sess[e].stage, key |-> sess[e].key] /\ sess[e].key \in Held
    BY <1>1 DEF KeptOK
  <2>2. sess' = sess \/ sess' = [sess EXCEPT ![b] = Out] BY DEF ApiEnable, ApiDisable, Authorize, Leaves, browser
  <2> QED BY <2>1, <2>2 DEF Out, Held
<1>4. ASSUME AccountOK', mem' \in Held, cache' \in Held PROVE AccountOK' /\ KeptOK'
  BY <1>1, <1>2, <1>3, <1>4 DEF KeptOK
<1>5. ASSUME UNCHANGED account PROVE AccountOK' BY <1>1, <1>5 DEF AccountOK
<1>6. CASE ApiEnable(b)
  <2>1. mem \in Creds /\ CanEnable(mem) /\ Ensured(mem) BY <1>1, <1>6 DEF ApiEnable, CanEnable, KeptOK, Held
  <2> QED BY <1>1, <1>4, <2>1, EnsuredKeys
<1>7. CASE ApiDisable(b)
  <2>1. mem' = mem /\ cache' \in {cache, None} BY <1>7 DEF ApiDisable, CacheAfterPurge
  <2>2. CASE Active
    <3>1. PICK a : a = Purged([account EXCEPT !.api = FALSE, !.wrapped = None]) OBVIOUS
    <3>2. account # None /\ account' = a BY <1>7, <2>2, <3>1 DEF ApiDisable, Active
    <3>3. Fields(a) /\ a.secret = account.secret /\ a.wrapped \in {account.wrapped, None} BY <1>1, <3>1, <3>2, Changes
    <3>4. AccountOK' BY <1>1, <3>2, <3>3, SameAccount
    <3> QED BY <1>1, <1>4, <2>1, <3>4 DEF KeptOK, Held
  <2>3. CASE ~Active
    <3>1. UNCHANGED account BY <1>7, <2>3 DEF ApiDisable
    <3> QED BY <1>1, <1>4, <1>5, <2>1, <3>1 DEF KeptOK, Held
  <2> QED BY <2>2, <2>3
<1>8. CASE Authorize(b)
  <2> DEFINE k == IF mem # None THEN mem ELSE sess[b].key
  <2>1. k \in Held BY <1>1 DEF KeptOK
  <2>2. CASE k = None
    <3>1. UNCHANGED <<account, cache, mem>> BY <1>8, <2>2 DEF Authorize
    <3> QED BY <1>1, <1>4, <1>5, <3>1 DEF KeptOK
  <2>3. CASE k # None /\ CanEnable(k)
    <3>1. k \in Creds /\ Ensured(k) BY <1>8, <2>1, <2>3 DEF Authorize, Held
    <3> HIDE DEF k
    <3> QED BY <1>1, <1>4, <2>3, <3>1, EnsuredKeys
  <2>4. CASE k # None /\ ~CanEnable(k)
    <3>1. mem' = k /\ UNCHANGED <<account, cache>> BY <1>8, <2>4 DEF Authorize
    <3> QED BY <1>1, <1>4, <1>5, <2>1, <3>1 DEF KeptOK
  <2> QED BY <2>2, <2>3, <2>4
<1> QED BY <1>6, <1>7, <1>8

\* The server's own steps.
LEMMA ServerKeys ==
  ASSUME KeysInv, Server
  PROVE  AccountOK' /\ KeptOK'
<1>1. AccountOK /\ KeptOK BY DEF KeysInv
<1>2. UNCHANGED <<tokens, grants, sess>> /\ mem' \in {mem, None, push.stored} /\ cache' \in {cache, mem}
  BY DEF Server, ArmPush, OpenCache, Opened, SyncAccount, PushGone, CodeExpires, Restart, access, browser
<1>3. push' = push \/ push' = [push EXCEPT !.sub = "off"]
  BY DEF Server, ArmPush, OpenCache, SyncAccount, PushGone, CodeExpires, Restart
<1>4. push' = [sub |-> push'.sub, stored |-> push'.stored] /\ push'.stored = push.stored
  <2>1. push = [sub |-> push.sub, stored |-> push.stored] BY <1>1 DEF KeptOK
  <2> QED BY <1>3, <2>1
<1>5. KeptOK' BY <1>1, <1>2, <1>4 DEF KeptOK, Held
<1>6. account' = account \/ (account # None /\ account' = [account EXCEPT !.path = TRUE])
  BY DEF Server, ArmPush, OpenCache, SyncAccount, Active, PushGone, CodeExpires, Restart, local
<1>7. CASE account' = account BY <1>1, <1>5, <1>7 DEF AccountOK
<1>8. CASE account # None /\ account' = [account EXCEPT !.path = TRUE]
  <2>1. PICK a : a = [account EXCEPT !.path = TRUE] OBVIOUS
  <2>2. Fields(a) /\ a.secret = account.secret /\ a.wrapped \in {account.wrapped, None} BY <1>1, <1>8, <2>1, Changes
  <2>3. AccountOK' BY <1>1, <1>8, <2>1, <2>2, SameAccount
  <2> QED BY <1>5, <2>3
<1> QED BY <1>6, <1>7, <1>8

\* Every step keeps what is said of keys and passwords.
LEMMA NextKeys == ASSUME KeysInv, [Next]_vars PROVE KeysInv'
<1>1. AccountOK /\ KeptOK /\ PasswordsOK BY DEF KeysInv
<1>2. ASSUME NEW b \in Browsers, LoginFinish(b) PROVE KeysInv'
  BY <1>1, <1>2, LoginKeys, LoginPasswords DEF KeysInv
<1>3. ASSUME NEW b \in Browsers, LoginImap(b) \/ LoginEnds(b) PROVE KeysInv'
  BY <1>1, <1>3, CustomerKeys, LoginPasswords DEF KeysInv
<1>4. ASSUME NEW b \in Browsers,
             \/ TwofaAbort(b) \/ TwofaVerify(b) \/ Logout(b) \/ Expired(b)
             \/ TwofaEnable(b) \/ TwofaConfirm(b) \/ TwofaSettings(b)
             \/ TwofaDisable(b) \/ TwofaRevokeDevice(b) \/ TwofaRevokeAllDevices(b)
             \/ CreateToken(b) \/ Subscribe(b) \/ Unsubscribe(b) \/ PushDeviceRemove(b)
      PROVE  KeysInv'
  <2>1. UNCHANGED <<mailbox, login, desk>>
    BY <1>4 DEF TwofaAbort, TwofaVerify, Logout, Expired, Leaves, TwofaEnable, TwofaConfirm, TwofaSettings,
         TwofaDisable, NoSecondFactor, TwofaRevokeDevice, TwofaRevokeAllDevices, CreateToken, Subscribe, Unsubscribe,
         PushDeviceRemove, remote, browser, office
  <2> QED BY <1>1, <1>4, <2>1, CustomerKeys, OthersPasswords DEF KeysInv
<1>5. ASSUME NEW b \in Browsers, ApiEnable(b) \/ ApiDisable(b) \/ Authorize(b) PROVE KeysInv'
  <2>1. UNCHANGED <<mailbox, login, desk>> BY <1>5 DEF ApiEnable, ApiDisable, Authorize, Leaves, remote, browser, office
  <2> QED BY <1>1, <1>5, <2>1, AccessKeys, OthersPasswords DEF KeysInv
<1>6. CASE RevokeToken \/ ApiRevokeToken \/ Token
  <2>1. UNCHANGED <<mailbox, login, desk, mem, cache, push, sess, account>>
    BY <1>6 DEF RevokeToken, ApiRevokeToken, Token, remote, local, browser, office
  <2>2. tokens' \subseteq tokens \union {mem} /\ grants' \subseteq grants \union {mem}
    BY <1>6 DEF RevokeToken, ApiRevokeToken, Token
  <2>3. AccountOK' BY <1>1, <2>1 DEF AccountOK
  <2>4. KeptOK' BY <1>1, <2>1, <2>2 DEF KeptOK
  <2> QED BY <1>1, <2>1, <2>3, <2>4, OthersPasswords DEF KeysInv
<1>7. CASE Office BY <1>1, <1>7, OfficeKeys, OfficePasswords DEF KeysInv
<1>8. CASE Server
  <2>1. CASE Restart BY <1>1, <1>8, <2>1, ServerKeys, LoginPasswords DEF KeysInv
  <2>2. CASE ArmPush \/ OpenCache \/ SyncAccount \/ PushGone \/ CodeExpires
    <3>1. UNCHANGED <<mailbox, login, desk>>
      BY <2>2 DEF ArmPush, OpenCache, SyncAccount, PushGone, CodeExpires, remote, browser, office
    <3> QED BY <1>1, <1>8, <3>1, ServerKeys, OthersPasswords DEF KeysInv
  <2> QED BY <1>8, <2>1, <2>2 DEF Server
<1>9. CASE UNCHANGED vars
  BY <1>1, <1>9, OthersPasswords DEF KeysInv, AccountOK, KeptOK, vars, remote, local, browser, access, office
<1> QED BY <1>2, <1>3, <1>4, <1>5, <1>6, <1>7, <1>8, <1>9 DEF Next, Customer

-----------------------------------------------------------------------------
(* The theorems *)

\* The initial states.
LEMMA InitInv == Init => IInv
<1> SUFFICES ASSUME Init PROVE IInv OBVIOUS
<1>1. mailbox \in Passwords \union {None} /\ desk = [d \in Desks |-> Idle] /\ login = [b \in Browsers |-> None]
  BY AccountsAssumption DEF Init, Passwords
<1>2. PasswordsOK BY <1>1, IdleOK DEF PasswordsOK
<1>3. KeptOK BY DEF Init, KeptOK, Held, Out
<1>4. AccountOK
  <2>1. CASE account = None BY <2>1 DEF AccountOK
  <2>2. CASE account = [NewAccount EXCEPT !.link = TRUE]
    <3>1. PICK a : a = account OBVIOUS
    <3>2. Fields(a) /\ a.secret = None /\ a.wrapped = None BY <2>2, <3>1 DEF NewAccount, Fields
    <3> QED BY <3>1, <3>2 DEF AccountOK, Fields, SecretOK, WrapOK
  <2> QED BY <2>1, <2>2 DEF Init
<1>5. \A d \in Desks : ~Calling(d) /\ ~Leaving(d) BY <1>1, About DEF Calling, Leaving, Idle
<1>6. ServedInv
  <2>1. torn = FALSE /\ solo = None /\ served = (domain # None /\ domain.active) BY DEF Init
  <2>2. domain = None \/ \E on \in BOOLEAN : domain = [active |-> on, complete |-> TRUE] BY DEF Init
  <2>3. served \in BOOLEAN BY <2>1, <2>2
  <2>4. Heading BY <2>1, AccountsAssumption DEF Heading
  <2>5. Overlaps BY <1>5 DEF Overlaps
  <2>6. Settled BY <2>1, <2>2 DEF Settled, Live
  <2> QED BY <2>1, <2>3, <2>4, <2>5, <2>6 DEF ServedInv
<1> QED BY <1>2, <1>3, <1>4, <1>6 DEF IInv, KeysInv

\* The inductive invariant holds in every state.
LEMMA Invariance == Spec => []IInv
<1>1. IInv /\ [Next]_vars => IInv' BY NextKeys, NextServed DEF IInv
<1> QED BY <1>1, InitInv, PTL DEF Spec

\* Every key that is kept anywhere, in memory, sessions, tokens, the push key
\* store and the cache, opens the account's secret or was derived from another
\* password than the one in it, whatever logins, resets, restarts, API access
\* and OAuth do in between.
THEOREM KeysAlwaysOpen == Spec => []KeysOpen
<1>1. IInv => KeysOpen
  <2> SUFFICES ASSUME IInv, account # None, account.secret # None, NEW k \in Custody
               PROVE  k = account.secret.key \/ \E p \in Passwords \ {account.secret.pw} : k = Cred(p)
    BY DEF KeysOpen
  <2>1. AccountOK /\ KeptOK BY DEF IInv, KeysInv
  <2>2. account.secret.key = Cred(account.secret.pw) /\ WrapOK(account.wrapped) BY <2>1 DEF AccountOK, SecretOK
  <2>3. k \in Creds BY <2>1, <2>2 DEF Custody, KeptOK, Held, WrapOK
  <2>4. PICK p \in Passwords : k = Cred(p) BY <2>3 DEF Creds
  <2> QED BY <2>2, <2>4
<1> QED BY <1>1, Invariance, PTL

\* With no request of an administrator under way, a domain that is on and
\* complete is served by Postfix, unless the last call of the mail API about
\* it failed or overlapped with another.
THEOREM LiveDomainsServed == Spec => []LiveIsServed
<1>1. IInv => LiveIsServed
  <2> SUFFICES ASSUME IInv, \A d \in Desks : desk[d] = Idle, ~torn, Live PROVE served BY DEF LiveIsServed
  <2>1. \A d \in Desks : ~Calling(d) /\ ~Leaving(d) BY About DEF Calling, Leaving, Idle
  <2> QED BY <2>1 DEF IInv, ServedInv, Settled
<1> QED BY <1>1, Invariance, PTL

=============================================================================
