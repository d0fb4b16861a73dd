----------------------------- MODULE ModelCalls -----------------------------
(***************************************************************************)
(* Calls of the language models: the judge's, and the drawings'.           *)
(*                                                                         *)
(* A drawing (a sprite sheet for a seat, an image for a session, a preview *)
(* for an account) takes a permit of the image queue, at once if there is  *)
(* one and nobody waits, else in turn or not at all; it holds the permit   *)
(* for all of the call.  A call goes round the pool of providers from      *)
(* where a shared cursor points, and on to the next one after a failure;   *)
(* a drawing goes round again, after a pause, while all of them failed.    *)
(* Providers on Vertex AI need a token, which all calls share, and fetch   *)
(* without holding its lock.  A request whose client is gone is dropped    *)
(* where it stands, with the permit it holds.                              *)
(***************************************************************************)
EXTENDS Naturals, Sequences, FiniteSets, SequencesExt

CONSTANTS
  Job,           \* requests that may be under way
  Permits,       \* image_job_max_concurrency
  Retries,       \* MAX_RETRIES of a drawing
  Environment    \* the provider entries the server may be started with

ASSUME JobAssumption     == IsFiniteSet(Job)
ASSUME PermitsAssumption == Permits \in Nat \ {0}
ASSUME RetriesAssumption == Retries \in Nat

VARIABLES
  pool,      \* the providers of each role, as resolved at the start
  cursor,    \* the index the next round begins at, modulo the pool's size
  token,     \* the cached Vertex token
  queue,     \* who waits for a permit
  creation,  \* the session images are asked for is in character creation
  job

vars == <<pool, cursor, token, queue, creation, job>>

-----------------------------------------------------------------------------
Role   == {"judge", "image"}
Kind   == {"judge", "sheet", "image", "preview"}
Entry  == {"vertex", "key", "keyless"}
RoleOf(kind) == IF kind = "judge" THEN "judge" ELSE "image"

ASSUME EnvironmentAssumption == \A e \in Environment, r \in Role : e[r] \in Seq(Entry)

(* An entry of kind api_key without a key in the environment is left out.  *)
Usable(entry) == entry # "keyless"
Resolved(es)  ==
  LET upto[n \in 0..Len(es)] ==
        IF n = 0 THEN <<>>
        ELSE IF Usable(es[n]) THEN Append(upto[n - 1], es[n]) ELSE upto[n - 1]
  IN upto[Len(es)]
(* Vertex AI needs a project and a location, or the server does not start. *)
Loads(e) == (\E r \in Role : \E i \in DOMAIN e[r] : e[r][i] = "vertex") => e.project

NoCall  == [stage |-> "idle", kind |-> "none", start |-> 0, tried |-> {}, asked |-> 0,
            round |-> 0, answer |-> "none"]
InCall  == {"asking", "fetching", "calling", "pausing"}
Holders == {j \in Job : job[j].kind # "judge" /\ job[j].stage \in InCall \cup {"granted"}}
Free    == Permits - Cardinality(Holders)

Providers(j) == pool[RoleOf(job[j].kind)]
ProviderNow(j) ==      \* variant: from where the cursor is by now
  ((cursor[RoleOf(job[j].kind)] + job[j].asked) % Len(Providers(j))) + 1
(* provider_attempt_indices, from the index the round drew.                *)
ProviderOf(j)  == ((job[j].start + job[j].asked) % Len(Providers(j))) + 1
OnVertex(j) == Providers(j)[ProviderOf(j)] = "vertex"

(* What the model says, and what a request to Vertex AI does with it: the  *)
(* global location is asked when the region's is limited or down, and not  *)
(* after a refusal or an answer without content.                           *)
Said     == {"content", "empty"}
Failed   == {"limited", "down", "refused"}
KeyReply == Said \cup Failed
VertexReply(regional, global) == IF regional \in {"limited", "down"} THEN global ELSE regional
VertexReplies == {VertexReply(r, g) : r \in KeyReply, g \in KeyReply}
Replies(j) == IF OnVertex(j) THEN VertexReplies ELSE KeyReply

(* The judge's answer must be about the dragons of the bundle, in order,   *)
(* or the next provider is asked; a drawing is taken as it comes.          *)
Taken(kind, reply, fits) == reply = "content" /\ (kind = "judge" => fits)
(* A sheet is cut in four once it is drawn: one that is no picture, or too *)
(* small, ends the call.                                                   *)
EndOf(kind, fits) == IF kind # "image" /\ ~fits THEN "uncut" ELSE "content"

(* Where a token comes from: the environment, the credentials of a service *)
(* account, those of a user, who may stand in for a service account, or    *)
(* the metadata server.                                                    *)
Outcome       == {"good", "failed"}
AccountToken  == Outcome
UserToken     == Outcome
StandIn(user) == IF user = "good" THEN Outcome ELSE {"failed"}
FromCredentials == AccountToken \cup UserToken \cup UNION {StandIn(u) : u \in UserToken}
Source   == {"environment", "credentials", "metadata"}
TokenOf(source) == CASE source = "environment" -> {"good"}
                     [] source = "credentials" -> FromCredentials
                     [] source = "metadata"    -> Outcome

(* What the caller makes of the end of a call.  The judge falls back on    *)
(* the local rules, a sprite sheet on the placeholder.                     *)
Answer(kind, end) ==
  CASE end = "content"      -> "content"
    [] end = "conflict"     -> "conflict"
    [] kind = "judge"       -> "local"
    [] kind = "sheet"       -> "placeholder"
    [] kind = "preview"     -> "busy"
    [] OTHER                -> "error"
Ended(j, end) == [job[j] EXCEPT !.stage = "done",
                    !.answer = [says |-> Answer(job[j].kind, end), why |-> end]]
Finish(j, end) == job' = [job EXCEPT ![j] = Ended(j, end)]

-----------------------------------------------------------------------------
Init ==
  /\ pool \in {[r \in Role |-> Resolved(e[r])] : e \in {f \in Environment : Loads(f)}}
  /\ cursor = [r \in Role |-> 0]
  /\ token = "none"
  /\ queue = <<>>
  /\ creation = TRUE
  /\ job = [j \in Job |-> NoCall]

(* try_acquire fails while others wait, even if a permit is free.          *)
Ask(j, kind) ==
  /\ job[j].stage = "idle"
  /\ kind = "image" => creation
  /\ LET now == kind = "judge" \/ (queue = <<>> /\ Free > 0)
         stage == IF now THEN "granted" ELSE "waiting" IN
     /\ job' = [job EXCEPT ![j] = [NoCall EXCEPT !.kind = kind, !.stage = stage]]
     /\ queue' = IF now THEN queue ELSE Append(queue, j)
  /\ UNCHANGED <<pool, cursor, token, creation>>

Grant(j) ==
  /\ queue # <<>> /\ Head(queue) = j /\ Free > 0
  /\ queue' = Tail(queue)
  /\ job' = [job EXCEPT ![j].stage = "granted"]
  /\ UNCHANGED <<pool, cursor, token, creation>>

(* The queue without j, wherever in it j waits.                            *)
Without(q, j) ==
  IF j \in ToSet(q) THEN RemoveAt(q, CHOOSE i \in DOMAIN q : q[i] = j) ELSE q

(* sprite_queue_timeout has passed.                                        *)
TimeOut(j) ==
  /\ job[j].stage = "waiting"
  /\ queue' = Without(queue, j)
  /\ Finish(j, "timeout")
  /\ UNCHANGED <<pool, cursor, token, creation>>

StartRound(j, round) ==
  LET r == RoleOf(job[j].kind) IN
  /\ job' = [job EXCEPT ![j] = [job[j] EXCEPT !.stage = "asking", !.start = cursor[r],
                                              !.asked = 0, !.tried = {}, !.round = round]]
  /\ cursor' = [cursor EXCEPT ![r] = (@ + 1) % Len(pool[r])]

(* The session is looked at again after the wait; without providers there  *)
(* is nothing to ask.                                                      *)
Begin(j) ==
  /\ job[j].stage = "granted"
  /\ IF job[j].kind = "image" /\ ~creation THEN Finish(j, "conflict") /\ UNCHANGED cursor
     ELSE IF Providers(j) = <<>> THEN Finish(j, "unconfigured") /\ UNCHANGED cursor
     ELSE StartRound(j, 0)
  /\ UNCHANGED <<pool, token, queue, creation>>

(* A token is used while it has more than 30 seconds to live.              *)
Call(j) ==
  /\ job[j].stage = "asking"
  /\ LET next  == IF OnVertex(j) /\ token # "good" THEN "fetching" ELSE "calling"
         tried == job[j].tried \cup {ProviderOf(j)} IN
     job' = [job EXCEPT ![j] = [job[j] EXCEPT !.stage = next, !.tried = tried]]
  /\ UNCHANGED <<pool, cursor, token, queue, creation>>

(* Once all have failed, a drawing pauses and goes round again.            *)
Paused(j)     == [job[j] EXCEPT !.stage = "pausing"]
Exhausted(j)  == IF job[j].kind # "judge" /\ job[j].round < Retries
                 THEN Paused(j) ELSE Ended(j, "exhausted")
FailOver(j) ==
  LET asked == job[j].asked + 1 IN
  job' = [job EXCEPT ![j] = IF asked < Len(Providers(j))
                            THEN [job[j] EXCEPT !.stage = "asking", !.asked = asked]
                            ELSE Exhausted(j)]

(* A failure to get one counts as the provider's.                          *)
FetchToken(j) ==
  /\ job[j].stage = "fetching"
  /\ \E source \in Source : \E outcome \in TokenOf(source) :
       IF outcome = "good"
       THEN token' = "good" /\ job' = [job EXCEPT ![j].stage = "calling"]
       ELSE FailOver(j) /\ UNCHANGED token
  /\ UNCHANGED <<pool, cursor, queue, creation>>

GetReply(j) ==
  /\ job[j].stage = "calling"
  /\ \E reply \in Replies(j), fits \in BOOLEAN :
       IF Taken(job[j].kind, reply, fits) THEN Finish(j, EndOf(job[j].kind, fits))
       ELSE FailOver(j)
  /\ UNCHANGED <<pool, cursor, token, queue, creation>>

GoRoundUncounted(j) ==    \* variant: every round is the first
  /\ job[j].stage = "pausing"
  /\ StartRound(j, 0)
  /\ UNCHANGED <<pool, token, queue, creation>>

GoRoundAgain(j) ==
  /\ job[j].stage = "pausing"
  /\ StartRound(j, job[j].round + 1)
  /\ UNCHANGED <<pool, token, queue, creation>>

Deliver(j) ==
  /\ job[j].stage = "done"
  /\ job' = [job EXCEPT ![j] = NoCall]
  /\ UNCHANGED <<pool, cursor, token, queue, creation>>

(* A handler that draws, or that judges at a request, is dropped with its  *)
(* client; the judge that a command begins runs in a task nobody drops.    *)
HangUp(j) ==
  /\ job[j].stage # "idle"
  /\ queue' = Without(queue, j)
  /\ job' = [job EXCEPT ![j] = NoCall]
  /\ UNCHANGED <<pool, cursor, token, creation>>

TokenExpires ==
  /\ token = "good" /\ token' = "stale"
  /\ UNCHANGED <<pool, cursor, queue, creation, job>>

(* The workshop is reset or deleted; none enters this phase any more.      *)
LeaveCreation ==
  /\ creation /\ creation' = FALSE
  /\ UNCHANGED <<pool, cursor, token, queue, job>>

Proceed(j) == Grant(j) \/ TimeOut(j) \/ Begin(j) \/ Call(j) \/ FetchToken(j)
              \/ GetReply(j) \/ GoRoundAgain(j) \/ Deliver(j)
Next == \/ \E j \in Job : Proceed(j) \/ HangUp(j) \/ \E kind \in Kind : Ask(j, kind)
        \/ TokenExpires \/ LeaveCreation

(* Requests to providers, the pauses and the wait for a permit are timed.  *)
Fairness == \A j \in Job : WF_vars(Proceed(j))

-----------------------------------------------------------------------------
TypeOK ==
  /\ \A r \in Role : /\ \A i \in DOMAIN pool[r] : pool[r][i] \in Entry \ {"keyless"}
                     /\ cursor[r] \in 0..Len(pool[r])
  /\ token \in {"none", "good", "stale"} /\ creation \in BOOLEAN
  /\ Free \in 0..Permits
  /\ ToSet(queue) = {j \in Job : job[j].stage = "waiting"} /\ IsInjective(queue)
  /\ \A j \in Job :
       /\ job[j].stage \in InCall \cup {"idle", "waiting", "granted", "done"}
       /\ job[j].stage \in InCall => ProviderOf(j) \in DOMAIN Providers(j)

(* A call is given up for failures only after every provider has failed,   *)
(* and a drawing's only after as many rounds as are allowed, however many  *)
(* calls move the cursor meanwhile.                                        *)
GivenUpAfterAll ==
  \A j \in Job : job[j].stage = "done" /\ job[j].answer.why = "exhausted" =>
    /\ job[j].tried = DOMAIN Providers(j)
    /\ job[j].kind # "judge" => job[j].round = Retries

(* Whoever asks gets an answer, unless they hang up: nobody waits for a    *)
(* permit, a token or a provider for ever.                                 *)
EveryCallEnds == \A j \in Job : job[j].stage # "idle" ~> job[j].stage = "idle"
=============================================================================
