------------------------------- MODULE GroupOps -------------------------------
(***************************************************************************)
(* The requests of internal/gateway/group.go that change a group: creating *)
(* it, adding participants a few at a time, removing and promoting them,   *)
(* deciding requests to join.  Each asks WhatsApp in one or several calls  *)
(* and answers with a status for every participant.  Whether a group may   *)
(* be created is up to GroupCooldown.                                      *)
(*                                                                         *)
(* A participant a list names is an entry: the list and the account.       *)
(* "refused" stands for the statuses invited, exists and failed with a     *)
(* code, "ok" for added, removed, promoted, demoted, approved, rejected.   *)
(* Numbers that cannot be parsed are answered as failed and take no part.  *)
(***************************************************************************)
EXTENDS GroupCooldown, Sequences, FiniteSets, SequencesExt

CONSTANTS
    Requests,
    Accounts,                \* phone accounts
    Phones,                  \* how numbers are written in a request
    AccountOf,               \* the account a number is parsed to, or NoAccount
    NoAccount,
    Inputs,                  \* pairs of lists of numbers; the second to reject
    participantAddBatchLen,
    maxGroupParticipants

ASSUME GroupAssumption ==
    /\ NoAccount \notin Accounts
    /\ AccountOf \in [Phones -> Accounts \cup {NoAccount}]
    /\ Inputs \subseteq Seq(Phones) \X Seq(Phones)
    /\ participantAddBatchLen \in Nat \ {0}
    /\ maxGroupParticipants \in Nat

VARIABLES
    req         \* the requests in progress

groupVars == <<cooldownVars, req>>

Kinds == {"create", "add", "change", "decide"}
Steps == {"check", "create", "add", "change", "decide", "pause", "wrap", "answer"}
Entries == {1, 2} \X Accounts

NoRequest ==
    [step |-> "idle", kind |-> "none", object |-> NoObject, input |-> <<<<>>, <<>>>>,
     todo |-> <<>>, status |-> <<>>, cancelled |-> FALSE, failed |-> FALSE,
     asked |-> <<>>, limit |-> -1, taken |-> {}, unsure |-> {}, unnamed |-> {}]

Init ==
    /\ CooldownInit
    /\ req = [r \in Requests |-> NoRequest]

-------------------------------------------------------------------------------
(***************************************************************************)
(* Lists of numbers.                                                       *)
(***************************************************************************)

\* The entries of list l that come from some of its numbers, in their order.
Pick(l, phones, places) ==
    LET Rank(i) == Cardinality({j \in places : j <= i})
    IN  [k \in 1 .. Cardinality(places) |->
            <<l, AccountOf[phones[CHOOSE i \in places : Rank(i) = k]]>>]

\* Where an account is first named.
FirstNamed(phones) ==
    {i \in DOMAIN phones :
        /\ AccountOf[phones[i]] # NoAccount
        /\ \A j \in 1 .. i - 1 : AccountOf[phones[j]] # AccountOf[phones[i]]}

\* resolveParticipants and resolveRequesters: each account once.
resolve(l, phones) == Pick(l, phones, FirstNamed(phones))

Lists == [input \in Inputs |-> <<resolve(1, input[1]), resolve(2, input[2])>>]

Resolved == [input \in Inputs |-> Lists[input][1] \o Lists[input][2]]

\* The number an entry was made from, its field Phone.
PhoneOf(e, phones) ==
    phones[CHOOSE i \in FirstNamed(phones) : AccountOf[phones[i]] = e[2]]

\* Where the number of an entry stands, the first time.
Listed(l, phones) ==
    {i \in DOMAIN phones :
        /\ AccountOf[phones[i]] # NoAccount
        /\ PhoneOf(<<l, AccountOf[phones[i]]>>, phones) = phones[i]
        /\ \A j \in 1 .. i - 1 : phones[j] # phones[i]}

\* Entries in the order of the numbers they were made from, each once.
statusList(l, phones) == Pick(l, phones, Listed(l, phones))

Answers == [input \in Inputs |-> statusList(1, input[1]) \o statusList(2, input[2])]

markPending(status, batch) ==
    [e \in DOMAIN status |->
        IF e \in batch /\ status[e] = "pending" THEN "failed" ELSE status[e]]

\* What WhatsApp answered of those it named, under a number that is known.
Named(status, named, refused) ==
    [e \in DOMAIN status |->
        IF e \notin named THEN status[e] ELSE IF e \in refused THEN "refused" ELSE "ok"]

\* applyParticipantResults and the end of decideJoinRequests: those not named
\* are taken to have succeeded.
applyResults(status, batch, named, refused) ==
    LET told == Named(status, named, refused)
    IN  [e \in DOMAIN status |->
            IF e \in batch /\ told[e] = "pending" THEN "ok" ELSE told[e]]

-------------------------------------------------------------------------------
(***************************************************************************)
(* A request.                                                              *)
(***************************************************************************)

In(r, step) == req[r].step = step
Upd(r, q) == req' = [req EXCEPT ![r] = q]

FirstStep(kind, todo) ==
    CASE kind = "create" -> "check"
      [] kind = "change" -> "change"
      [] OTHER -> IF todo = <<>> THEN "answer" ELSE kind

\* The session is taken from the map, must be logged in, and the lists are read.
Begin(r, kind, input) ==
    LET todo == Resolved[input] IN
    /\ In(r, "idle")
    /\ cur # NoObject /\ cur \in loggedIn
    /\ input[1] \o input[2] # <<>>
    /\ kind # "decide" => input[1] # <<>> /\ input[2] = <<>>
    /\ kind \in {"create", "add"} => Len(input[1]) <= maxGroupParticipants
    /\ Upd(r, [NoRequest EXCEPT
                !.step = FirstStep(kind, todo),
                !.kind = kind, !.object = cur, !.input = input, !.todo = todo,
                !.status = [e \in ToSet(todo) |-> "pending"]])
    /\ UNCHANGED cooldownVars

\* The client hangs up, or the five minutes of the handler are over.
Cancel(r) ==
    /\ req[r].step \notin {"idle", "answer"}
    /\ ~req[r].cancelled
    /\ Upd(r, [req[r] EXCEPT !.cancelled = TRUE])
    /\ UNCHANGED cooldownVars

Check(r) ==
    /\ In(r, "check")
    /\ checkGroupCooldown(req[r].object)
    /\ Upd(r, [req[r] EXCEPT !.step = "create"])

Refuse(r) ==
    /\ In(r, "check")
    /\ ~mayCreate(req[r].object)
    /\ Upd(r, [req[r] EXCEPT !.step = "answer", !.failed = TRUE])
    /\ UNCHANGED cooldownVars

\* The participants of the next call: a few of those to add, all of those to
\* change, one list of a decision.
Batch(q) ==
    CASE q.step = "change" -> q.todo
      [] q.step = "decide" -> Lists[q.input][q.todo[1][1]]
      [] OTHER -> IF Len(q.todo) <= participantAddBatchLen THEN q.todo
                  ELSE SubSeq(q.todo, 1, participantAddBatchLen)

\* Mutant: the window moves on by one participant less.
Rest_Overlap(q) ==
    LET n == Len(Batch(q))
    IN  SubSeq(q.todo, IF n = Len(q.todo) THEN n + 1 ELSE n, Len(q.todo))

Rest(q) == SubSeq(q.todo, Len(Batch(q)) + 1, Len(q.todo))

\* A request that has nobody left: CreateGroup goes on to the topic and the link.
LastStep(q) == IF q.kind = "create" THEN "wrap" ELSE "answer"

\* After the creation the next batch follows at once, later ones after a pause.
NextStep(q) ==
    CASE Rest(q) = <<>> -> LastStep(q)
      [] Rest(q) # <<>> /\ q.step = "create" -> "add"
      [] Rest(q) # <<>> /\ q.step = "add" -> "pause"
      [] OTHER -> "decide"

\* What every call leaves behind.
Called(q) == [q EXCEPT !.asked = @ \o Batch(q)]

-------------------------------------------------------------------------------
(***************************************************************************)
(* Calls to WhatsApp, of a client that is logged in unless they are lost.  *)
(***************************************************************************)

InCall(r) == req[r].step \in {"create", "add", "change", "decide"}

\* An answer: some of the batch are refused, some are not named in it, or by an
\* @lid without a number.
Answered(r) ==
    /\ InCall(r)
    /\ req[r].object \in loggedIn
    /\ LET batch == ToSet(Batch(req[r])) IN
       \E refused, unnamed \in SUBSET batch :
        LET named == batch \ unnamed
        IN  Upd(r, [Called(req[r]) EXCEPT
                     !.status = IF In(r, "change")
                                THEN Named(@, named, refused)
                                ELSE applyResults(@, batch, named, refused),
                     !.todo = Rest(req[r]),
                     !.step = NextStep(req[r]),
                     !.taken = @ \cup (batch \ refused),
                     !.unnamed = @ \cup unnamed])
    /\ UNCHANGED cooldownVars

\* 429: nobody was taken.  Additions stop there, the rest are marked with the
\* reason; any other request fails.
Limited(r) ==
    /\ InCall(r)
    /\ req[r].object \in loggedIn
    /\ Upd(r, [Called(req[r]) EXCEPT
                !.limit = Len(req[r].asked \o Batch(req[r])),
                !.status = IF In(r, "add") THEN markPending(@, ToSet(req[r].todo)) ELSE @,
                !.failed = ~In(r, "add"),
                !.step = IF In(r, "add") THEN LastStep(req[r]) ELSE "answer"])
    /\ UNCHANGED cooldownVars

\* Any other error, a timeout included: WhatsApp may have done part of it.
\* Additions go on with the next batch.
Lost(r) ==
    /\ InCall(r)
    /\ \E taken \in SUBSET ToSet(Batch(req[r])) :
        /\ req[r].object \notin loggedIn => taken = {}
        /\ Upd(r, [Called(req[r]) EXCEPT
                    !.status = IF In(r, "add") THEN markPending(@, ToSet(Batch(req[r]))) ELSE @,
                    !.todo = IF In(r, "add") THEN Rest(req[r]) ELSE @,
                    !.failed = ~In(r, "add"),
                    !.step = IF In(r, "add") THEN NextStep(req[r]) ELSE "answer",
                    !.taken = @ \cup taken,
                    !.unsure = @ \cup ToSet(Batch(req[r]))])
    /\ UNCHANGED cooldownVars

\* The pause between two batches ends; when the request is cancelled just then,
\* either may win.
Continue(r) ==
    /\ In(r, "pause")
    /\ Upd(r, [req[r] EXCEPT !.step = "add"])
    /\ UNCHANGED cooldownVars

\* Mutant: the batch that was to come is left as it is.
Cut_Silent(r) ==
    /\ In(r, "pause")
    /\ req[r].cancelled
    /\ Upd(r, [req[r] EXCEPT !.step = LastStep(req[r])])
    /\ UNCHANGED cooldownVars

\* A cancelled request marks the batch that was to come, not those after it.
Cut(r) ==
    /\ In(r, "pause")
    /\ req[r].cancelled
    /\ Upd(r, [req[r] EXCEPT
                !.status = markPending(@, ToSet(Batch(req[r]))),
                !.step = LastStep(req[r])])
    /\ UNCHANGED cooldownVars

\* SetGroupTopic and GetGroupInviteLink: their errors are logged.
Wrap(r) ==
    /\ In(r, "wrap")
    /\ Upd(r, [req[r] EXCEPT !.step = "answer"])
    /\ UNCHANGED cooldownVars

Answer(r) ==
    /\ In(r, "answer")
    /\ Upd(r, NoRequest)
    /\ UNCHANGED cooldownVars

-------------------------------------------------------------------------------
(***************************************************************************)
(* The session under the requests.                                         *)
(***************************************************************************)

Held(o) == \E r \in Requests : req[r].object = o

Replace ==
    /\ \E o \in Objects : ~Held(o) /\ restartPairing(o)
    /\ UNCHANGED req

ExitAll ==
    /\ Exit
    /\ req' = [r \in Requests |-> NoRequest]

SessionStep ==
    /\ \/ \E w \in writes : recordGroupCreated(w)
       \/ \E o \in Objects : bindJID(o) \/ PairNoted(o) \/ Start(o)
       \/ Pair \/ Logout \/ LoggedOut \/ Tick
    /\ UNCHANGED req

Next ==
    \/ \E r \in Requests :
        \/ \E kind \in Kinds, input \in Inputs : Begin(r, kind, input)
        \/ Cancel(r) \/ Check(r) \/ Refuse(r)
        \/ Answered(r) \/ Limited(r) \/ Lost(r)
        \/ Continue(r) \/ Cut(r) \/ Wrap(r) \/ Answer(r)
    \/ Replace \/ ExitAll \/ SessionStep

Spec == Init /\ [][Next]_groupVars

-------------------------------------------------------------------------------
RequestOK(q) ==
    /\ DOMAIN q = DOMAIN NoRequest
    /\ q.step \in Steps \cup {"idle"}
    /\ q.kind \in Kinds \cup {"none"}
    /\ q.object \in Objects \cup {NoObject}
    /\ q.todo \in Seq(Entries) /\ q.asked \in Seq(Entries)
    /\ DOMAIN q.status \subseteq Entries
    /\ \A e \in DOMAIN q.status : q.status[e] \in {"pending", "ok", "refused", "failed"}
    /\ q.cancelled \in BOOLEAN /\ q.failed \in BOOLEAN

TypeOK ==
    /\ CooldownTypeOK
    /\ req = [r \in Requests |-> req[r]]
    /\ \A r \in Requests : RequestOK(req[r])

(***************************************************************************)
(* A request asks WhatsApp about a participant once, however its number is *)
(* written and repeated, and about nobody once WhatsApp has answered 429:  *)
(* more calls are what gets a device removed.                              *)
(***************************************************************************)
AskedOnce ==
    \A r \in Requests :
        /\ IsInjective(req[r].asked)
        /\ req[r].limit \in {-1, Len(req[r].asked)}

\* The answer of a request that failed as a whole.
FailureTrue(q) ==
    \A e \in q.taken \ q.unsure : q.kind = "decide" /\ e[1] = 1

\* The answer with a status for everyone; rest are those after the next batch.
ListTrue(q, rest) ==
    LET list == Answers[q.input]
    IN  /\ IsInjective(list) /\ ToSet(list) = DOMAIN q.status
        /\ \A e \in DOMAIN q.status \ q.unnamed :
            /\ q.status[e] = "ok" => e \in q.taken
            /\ e \in q.taken => q.status[e] = "ok" \/ e \in q.unsure
            /\ q.status[e] = "pending" => q.cancelled /\ e \in rest

(***************************************************************************)
(* The answer is true of every participant and lists each once: whoever is *)
(* said to be in was taken, whoever was taken is said to be in, nobody is  *)
(* left pending; and a request that fails as a whole has done nothing.     *)
(* Excused are calls whose answer was lost, participants an answer does    *)
(* not name under a number, those after the batch at which a cancelled     *)
(* request ended, and the first list of a decision whose second one fails. *)
(***************************************************************************)
AnswerTrue ==
    \A r \in Requests : In(r, "answer") =>
        IF req[r].failed THEN FailureTrue(req[r]) ELSE ListTrue(req[r], ToSet(Rest(req[r])))

-------------------------------------------------------------------------------
(***************************************************************************)
(* The inductive invariant behind the properties above.                    *)
(***************************************************************************)

\* Steps of a request that may still ask about somebody.
Ahead == {"check", "create", "add", "change", "decide", "pause"}

\* Those asked about and those to come are the participants, in order.
OrderInv(q) ==
    /\ q.input \in Inputs
    /\ DOMAIN q.status = ToSet(Resolved[q.input])
    /\ IsInjective(q.asked) /\ q.limit \in {-1, Len(q.asked)}
    /\ q.step \in Ahead => q.asked \o q.todo = Resolved[q.input] /\ q.limit = -1

\* What the step says of the request: additions never fail as a whole, the first
\* call of any other kind finds nobody taken, the second call of a decision has
\* the second list before it.
StepInv(q) ==
    /\ q.step \in {"check", "create"} => q.kind = "create"
    /\ q.step \in {"add", "pause"} => q.kind \in {"create", "add"}
    /\ q.step = "change" => q.kind = "change"
    /\ q.step \in {"check", "create", "change"} => q.taken = {}
    /\ q.step = "decide" =>
          /\ q.kind = "decide" /\ q.todo # <<>>
          /\ \/ q.asked = <<>> /\ q.taken = {}
             \/ q.todo = Lists[q.input][2] /\ \A e \in q.taken : e[1] = 1
    /\ q.step # "answer" => ~q.failed
    /\ q.object \in Objects

\* Nothing is known yet of a participant still to come.
AheadInv(q) ==
    q.step \in Ahead => \A e \in ToSet(q.todo) :
        q.status[e] = "pending" /\ e \notin q.taken \cup q.unsure \cup q.unnamed

\* The statuses are true at every step.
ToldInv(q) ==
    IF q.failed THEN FailureTrue(q)
    ELSE \A e \in DOMAIN q.status \ q.unnamed :
        /\ q.status[e] = "ok" => e \in q.taken
        /\ e \in q.taken => q.status[e] = "ok" \/ e \in q.unsure
        /\ q.status[e] = "pending" =>
              IF q.step \in Ahead THEN e \in ToSet(q.todo)
              ELSE q.cancelled /\ e \in ToSet(Rest(q))

RequestInv(q) ==
    IF q.step = "idle" THEN q = NoRequest
    ELSE OrderInv(q) /\ StepInv(q) /\ AheadInv(q) /\ ToldInv(q)

IInv == TypeOK /\ CooldownInv /\ \A r \in Requests : RequestInv(req[r])
===============================================================================
