------------------------------ MODULE Transport ------------------------------
(***************************************************************************)
(* How a request of kumulo reaches a cloud: the HTTP clients of the seven  *)
(* services, with their tokens, retries, timeouts and permits, and what    *)
(* their errors say.  The other modules take a request as one step that    *)
(* may fail; this one is about that step.                                  *)
(* Sources: the transports, the auth modules and the error modules of      *)
(* openstack, ovh, upcloud, hetzner, godaddy and bunny.                    *)
(*                                                                         *)
(* A service is external: it refuses, is busy, fails before or after it    *)
(* did what was asked, or does not answer.  Waiting times are left out.    *)
(***************************************************************************)
EXTENDS Naturals, FiniteSets

CONSTANTS
  Fibers,         \* the fibers of the run that send requests
  Methods,        \* the methods they use
  MaxPermits,     \* requests the OpenStack client has in flight at once (8)
  MaxRetries,     \* transportMaxRetries, hcloudMaxRetries (5)
  MaxRevocations  \* bound: tokens revoked before their time

ASSUME TransportAssumption ==
  /\ IsFiniteSet(Fibers)
  /\ Methods \subseteq {"GET", "POST", "PUT", "PATCH", "DELETE"}
  /\ MaxPermits \in Nat \ {0}
  /\ MaxRetries \in Nat
  /\ MaxRevocations \in Nat

Clients == {"openstack", "ovh", "upcloud", "hcloud", "hetznerdns", "godaddy", "bunny"}

\* Clients that fetch a token and keep it; the others are given one.
Tokened == {"openstack", "ovh"}
\* Clients that give up on an answer after 30 seconds.
Timed == {"openstack", "upcloud"}

NoToken == 0
Tokens  == 1..(Cardinality(Fibers) + 1)

VARIABLES
  client,   \* the client of this run
  permits,  \* maxConcurrentRequests of it
  calls,    \* what each fiber's request has come to
  cache,    \* the cached token
  alive,    \* tokens the service accepts
  expired,  \* tokens past expiresAtMs, which lies a minute before they end
  revocations

wireVars == <<client, permits, calls, cache, alive, expired, revocations>>

\* Answers that say the request was not carried out, and those that do not say.
Refusals == {"403", "404", "409", "413", "423", "quota", "plan"}
Doubtful == {"408", "429", "5xx"}
Statuses == {"2xx", "401", "lost"} \union Refusals \union Doubtful

NoCall == [pc |-> "idle", method |-> "none", token |-> NoToken, tries |-> 0,
           renewed |-> FALSE, ran |-> 0]

WireInit ==
  /\ client \in Clients
  /\ permits \in IF client = "openstack" THEN 1..MaxPermits ELSE {MaxPermits}
  /\ calls = [f \in Fibers |-> NoCall]
  /\ cache = NoToken
  /\ alive = {}
  /\ expired = {}
  /\ revocations = 0

-----------------------------------------------------------------------------
(* Policies                                                                *)

\* Methods retried on a server error, as each client lists them; the two of
\* Hetzner retry them all.
OpenStackRepeatable == {"GET", "PUT", "DELETE"}
UpcloudRepeatable   == {"GET", "PUT", "PATCH", "DELETE"}
GodaddyRepeatable   == {"GET", "PUT", "DELETE"}
BunnyRepeatable     == {"GET", "DELETE"}

Repeatable(c) ==
  CASE c = "openstack" -> OpenStackRepeatable
    [] c = "upcloud"   -> UpcloudRepeatable
    [] c = "godaddy"   -> GodaddyRepeatable
    [] c = "bunny"     -> BunnyRepeatable
    [] c = "ovh"       -> {}
    [] OTHER           -> Methods

\* Mutant of IsRetryable: a POST is as repeatable as a PUT.
IsRetryableAny(m, s) ==
  /\ client # "ovh"
  /\ \/ s = "429"
     \/ s = "5xx"
     \/ s = "409" /\ client = "openstack"
     \/ s = "408" /\ client = "hcloud"

\* _isRetryable, _shouldRetry, _isRetryableStatus
IsRetryable(m, s) ==
  \/ s = "429" /\ client # "ovh"
  \/ s = "5xx" /\ m \in Repeatable(client)
  \/ s = "409" /\ client = "openstack" /\ m \in Repeatable(client)
  \/ s = "408" /\ client = "hcloud"

\* What the error modules make of an answer: the statuses each error stands for,
\* a status named by none being a ProviderApiError.
OpenStackErrors ==
  [AuthenticationFailed |-> {"401", "403"}, ResourceNotFound |-> {"404"},
   ResourceConflict |-> {"409"}, QuotaExceeded |-> {"quota"},
   RateLimited |-> {"413", "429"}, CapabilityMissing |-> {},
   HttpTransportError |-> {"lost"}, Done |-> {"2xx"}]

\* The volumes of OpenStack and OVH's clusters and buckets have copies of it.
CinderErrors     == OpenStackErrors
MksErrors        == OpenStackErrors
OvhStorageErrors == OpenStackErrors

\* A refusal that names a quota is one for want of rights here.
OvhDnsErrors ==
  [OpenStackErrors EXCEPT !.AuthenticationFailed = @ \union {"quota"},
                          !.QuotaExceeded = {}]

UpcloudErrors == [OpenStackErrors EXCEPT !.RateLimited = {"429"}]

HcloudErrors ==
  [OpenStackErrors EXCEPT !.ResourceConflict = {"409", "423"},
                          !.RateLimited = {"429"}]

\* What it cannot name it calls a conflict.
HetznerDnsErrors ==
  [OpenStackErrors EXCEPT
     !.AuthenticationFailed = @ \union {"quota"},
     !.ResourceConflict = Statuses \ {"401", "403", "404", "quota", "2xx"},
     !.QuotaExceeded = {}, !.RateLimited = {}, !.HttpTransportError = {}]

GodaddyErrors == [OvhDnsErrors EXCEPT !.RateLimited = {"429"}]

BunnyErrors == [GodaddyErrors EXCEPT !.CapabilityMissing = {"plan"}]

BunnyDnsErrors == [BunnyErrors EXCEPT !.CapabilityMissing = {}]

Errors ==
  [openstack |-> OpenStackErrors, cinder |-> CinderErrors, mks |-> MksErrors,
   ovhstorage |-> OvhStorageErrors, ovhdns |-> OvhDnsErrors,
   upcloud |-> UpcloudErrors, hcloud |-> HcloudErrors,
   hetznerdns |-> HetznerDnsErrors, godaddy |-> GodaddyErrors,
   bunny |-> BunnyErrors, bunnydns |-> BunnyDnsErrors]

\* The error modules of the providers that send requests through a client.
Voices(c) ==
  CASE c = "openstack" -> {"openstack", "cinder"}
    [] c = "ovh"       -> {"mks", "ovhstorage", "ovhdns"}
    [] c = "bunny"     -> {"bunny", "bunnydns"}
    [] OTHER           -> {c}

Says ==
  [v \in DOMAIN Errors |-> [s \in Statuses |->
     LET named == {e \in DOMAIN Errors[v] : s \in Errors[v][e]}
     IN IF named = {} THEN "ProviderApiError" ELSE CHOOSE e \in named : TRUE]]

\* retryableByTag: the errors kumulo calls worth another run.
IsWorthRetrying(e) ==
  e \in {"HttpTransportError", "RateLimited", "ProviderApiError", "ResourceConflict"}

-----------------------------------------------------------------------------
(* Tokens                                                                  *)

Held == {cache} \union {calls[f].token : f \in Fibers}

\* Of a token that nobody holds any more nothing is known.
TokensDropped ==
  /\ alive' = alive \intersect Held'
  /\ expired' = expired \intersect Held'

\* The cached token is good for another minute, by kumulo's clock.
Current == cache # NoToken /\ cache \notin expired

\* expiresAtMs is reached.
Expire(t) ==
  /\ t = cache
  /\ Current
  /\ expired' = expired \union {t}
  /\ UNCHANGED <<client, permits, calls, cache, alive, revocations>>

\* The token ends.  A request of the OpenStack client takes half a minute at
\* most and was sent when the token was good for a minute.
Die(t) ==
  /\ t \in expired \intersect alive
  /\ client = "openstack" => \A f \in Fibers : calls[f].token # t
  /\ alive' = alive \ {t}
  /\ UNCHANGED <<client, permits, calls, cache, expired, revocations>>

\* A token is revoked before its time.
Revoke(t) ==
  /\ t \in alive \intersect Held
  /\ revocations < MaxRevocations
  /\ revocations' = revocations + 1
  /\ alive' = alive \ {t}
  /\ UNCHANGED <<client, permits, calls, cache, expired>>

-----------------------------------------------------------------------------
(* One request                                                             *)

Busy == {f \in Fibers : calls[f].pc \in {"ready", "issuing", "storing", "sent"}}

\* Only the OpenStack client counts permits.
Free == client = "openstack" => Cardinality(Busy) < permits

Goes(f, call) == calls' = [calls EXCEPT ![f] = call]

Call(f, m) ==
  /\ calls[f].pc = "idle"
  /\ Goes(f, [NoCall EXCEPT !.pc = "waiting", !.method = m])
  /\ UNCHANGED <<client, permits, cache, alive, expired, revocations>>

\* semaphore.withPermit; the permit is kept over the retries.
Acquire(f) ==
  /\ calls[f].pc = "waiting"
  /\ Free
  /\ Goes(f, [calls[f] EXCEPT !.pc = "ready"])
  /\ UNCHANGED <<client, permits, cache, alive, expired, revocations>>

\* attempt: the token of the cache, or one to be fetched.  Two fibers may
\* fetch at the same time.
Attempt(f) ==
  /\ calls[f].pc = "ready"
  /\ IF client \notin Tokened THEN Goes(f, [calls[f] EXCEPT !.pc = "sent"])
     ELSE IF Current THEN Goes(f, [calls[f] EXCEPT !.pc = "sent", !.token = cache])
     ELSE Goes(f, [calls[f] EXCEPT !.pc = "issuing"])
  /\ UNCHANGED <<client, permits, cache, alive, expired, revocations>>

\* _issueToken, _requestToken: the service makes a token.
Issue(f) ==
  /\ calls[f].pc = "issuing"
  /\ LET t == CHOOSE u \in Tokens : u \notin Held
     IN /\ Goes(f, [calls[f] EXCEPT !.pc = "storing", !.token = t])
        /\ alive' = alive \union {t}
        /\ expired' = expired \ {t}
  /\ UNCHANGED <<client, permits, cache, revocations>>

\* Ref.set of the cache, over whatever is there by now.
Store(f) ==
  /\ calls[f].pc = "storing"
  /\ cache' = calls[f].token
  /\ Goes(f, [calls[f] EXCEPT !.pc = "sent"])
  /\ UNCHANGED <<client, permits, revocations>>
  /\ TokensDropped

\* The provider has its answer, and may send its next request.
Answered(f) == Goes(f, NoCall)

\* No token is to be had: the request fails as one that was not sent.
IssueFails(f) ==
  /\ calls[f].pc = "issuing"
  /\ Answered(f)
  /\ UNCHANGED <<client, permits, cache, revocations>>
  /\ TokensDropped

\* What the service may answer to a request it has carried out n times, and
\* how often it has then: a repeated PUT or DELETE changes nothing more.
Answers(m, n) ==
  LET once == IF m = "GET" THEN 0
              ELSE IF m = "POST" THEN IF n < 2 THEN n + 1 ELSE n ELSE 1
  IN {<<s, n>> : s \in Refusals \union Doubtful} \union
     {<<s, once>> : s \in {"2xx", "408", "5xx"}}

Authorised(f) == client \in Tokened => calls[f].token \in alive

Responses(f) ==
  IF calls[f].pc # "sent" THEN {}
  ELSE IF Authorised(f) THEN Answers(calls[f].method, calls[f].ran)
  ELSE {<<"401", calls[f].ran>>}

\* Mutant of Renew: the token stays in the cache.
RenewKeeping(f) ==
  /\ <<"401", calls[f].ran>> \in Responses(f)
  /\ client = "openstack"
  /\ ~calls[f].renewed
  /\ Goes(f, [calls[f] EXCEPT !.pc = "ready", !.token = NoToken, !.renewed = TRUE])
  /\ UNCHANGED <<client, permits, cache, revocations>>
  /\ TokensDropped

\* withReauth: the cache is emptied, whosever token it holds, and the attempt
\* made once more.
Renew(f) ==
  /\ <<"401", calls[f].ran>> \in Responses(f)
  /\ client = "openstack"
  /\ ~calls[f].renewed
  /\ cache' = NoToken
  /\ Goes(f, [calls[f] EXCEPT !.pc = "ready", !.token = NoToken, !.renewed = TRUE])
  /\ UNCHANGED <<client, permits, revocations>>
  /\ TokensDropped

\* Mutant of Repeats: retried for as long as the service is busy.
RepeatsForever(f, s) == IsRetryable(calls[f].method, s)

Repeats(f, s) == IsRetryable(calls[f].method, s) /\ calls[f].tries < MaxRetries

Retry(f, s, n) ==
  /\ <<s, n>> \in Responses(f)
  /\ Repeats(f, s)
  /\ Goes(f, [calls[f] EXCEPT !.pc = "ready", !.token = NoToken, !.renewed = FALSE,
                 !.ran = n, !.tries = IF @ < MaxRetries THEN @ + 1 ELSE @])
  /\ UNCHANGED <<client, permits, cache, revocations>>
  /\ TokensDropped

\* The answer that ends the request.
IsLast(f, s) ==
  /\ ~Repeats(f, s)
  /\ s = "401" /\ client = "openstack" => calls[f].renewed

Return(f, s, n) ==
  /\ <<s, n>> \in Responses(f)
  /\ IsLast(f, s)
  /\ Answered(f)
  /\ UNCHANGED <<client, permits, cache, revocations>>
  /\ TokensDropped

\* The connection breaks or nobody answers: no retry, and no telling whether
\* the service did what was asked.
Unanswered(f) ==
  /\ calls[f].pc = "sent"
  /\ Answered(f)
  /\ UNCHANGED <<client, permits, cache, revocations>>
  /\ TokensDropped

TimeOut(f) == client \in Timed /\ Unanswered(f)

-----------------------------------------------------------------------------
ServiceAnswers(f) ==
  \E a \in Responses(f) : Retry(f, a[1], a[2]) \/ Return(f, a[1], a[2])

WireNext ==
  \/ \E f \in Fibers :
       \/ \E m \in Methods : Call(f, m)
       \/ Acquire(f) \/ Attempt(f) \/ Issue(f) \/ Store(f) \/ IssueFails(f)
       \/ Renew(f) \/ ServiceAnswers(f) \/ Unanswered(f)
  \/ \E t \in Tokens : Expire(t) \/ Die(t) \/ Revoke(t)

\* The process runs, timeouts fire, a permit comes to whoever waits for it,
\* and Keystone answers.  That the service itself answers is not assumed.
WireFairness ==
  \A f \in Fibers :
    /\ SF_wireVars(Acquire(f))
    /\ WF_wireVars(Attempt(f) \/ Issue(f) \/ Store(f))
    /\ WF_wireVars(TimeOut(f))

WireSpec == WireInit /\ [][WireNext]_wireVars /\ WireFairness

-----------------------------------------------------------------------------
CallRecords ==
  [pc : {"idle", "waiting", "ready", "issuing", "storing", "sent"},
   method : Methods \union {"none"}, token : Tokens \union {NoToken},
   tries : 0..MaxRetries, renewed : BOOLEAN, ran : 0..2]

WireTypeOK ==
  /\ client \in Clients
  /\ permits \in 1..MaxPermits
  /\ calls \in [Fibers -> CallRecords]
  /\ cache \in Tokens \union {NoToken}
  /\ alive \subseteq Tokens
  /\ expired \subseteq Tokens
  /\ revocations \in 0..MaxRevocations

\* Clients that hold back a POST: all but those of Hetzner.
Careful == Clients \ {"hcloud", "hetznerdns"}

\* A provider that creates something is told the truth (http-client.ts:9 of
\* openstack, "a retried POST /servers would double-provision"): over retries,
\* renewed tokens and lost answers the POST is carried out at most once, once
\* if it is said to be done, and never if it is said to be refused or the error
\* is one kumulo calls not worth another try (retryable.ts).  And one
\* token that ends too early fails no request of the OpenStack client, whatever
\* other fibers do to the cache in between.
Truthful(f, s, n) ==
  /\ calls[f].method = "POST" /\ client \in Careful =>
       /\ n <= 1
       /\ s = "2xx" => n = 1
       /\ \A v \in Voices(client) :
            /\ s # "2xx" /\ n # 0 => IsWorthRetrying(Says[v][s])
            /\ Says[v][s] \in {"ResourceConflict", "RateLimited"} => n = 0
  /\ client = "openstack" /\ revocations <= 1 => s # "401"

AnswerIsTrue ==
  \A f \in Fibers : \A a \in Responses(f) :
    IsLast(f, a[1]) => Truthful(f, a[1], a[2])

\* A request of a client that times out is answered, however the service
\* behaves, and its permit comes back for the others that wait.
EveryCallAnswered ==
  client \in Timed =>
    \A f \in Fibers : calls[f].pc = "waiting" ~> calls[f].pc = "idle"
=============================================================================
