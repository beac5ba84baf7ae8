----------------------------- MODULE AnchorOfframp -----------------------------
(***************************************************************************)
(* Cashing out through a Stellar anchor (offramp/stellar-anchor.ts).  A    *)
(* call picks an anchor from the registry, whose service URLs are read     *)
(* from the anchor's stellar.toml on first use and kept in a descriptor    *)
(* every call shares; proves its account (SEP-10); and asks for an         *)
(* interactive withdrawal (SEP-24), a price (SEP-38) or a direct payment   *)
(* (SEP-31).  Every request has a timeout, which ends the call and not     *)
(* what the anchor does with the request.                                  *)
(*                                                                         *)
(* An asset whose issuer is not verified is only warned of.                *)
(***************************************************************************)
EXTENDS Naturals, Sequences, FiniteSets

CONSTANTS
    OffCalls,       \* calls of initiate(), quote() and b2bPayout()
    Named,          \* the anchors a call may name, or NoAnchor
    DefaultAnchors, \* the anchors the registry is made with, in order
    CustomAnchor,   \* the one an operator may add()
    Serving,        \* the anchors that serve the corridor the calls ask for
    Publications,   \* what the stellar.toml files may declare: anchor -> services
    MaxChanges,     \* bound: how often they change
    NoAnchor

Kinds == {"withdraw", "quote", "payout"}
Services == {"sep24", "sep31", "sep38", "auth"}
OffAnchors == {DefaultAnchors[i] : i \in DOMAIN DefaultAnchors} \cup {CustomAnchor}

ASSUME OfframpAssumption ==
    /\ Publications \subseteq [OffAnchors -> SUBSET Services]
    /\ MaxChanges \in Nat /\ Named \subseteq OffAnchors \cup {NoAnchor}
    /\ Serving \subseteq OffAnchors /\ NoAnchor \notin OffAnchors
    /\ DefaultAnchors \in Seq({DefaultAnchors[i] : i \in DOMAIN DefaultAnchors})

VARIABLES
    published,  \* external: what each stellar.toml declares
    changes,    \* history: how often they changed
    registry,   \* the list of anchors
    urls,       \* serviceUrls of each descriptor; {} before it is hydrated
    listing,    \* corridorsCache of the agent kit: anchors, or {} for null
    off,        \* each call: where it is, its kind, the anchor it names or
                \* NoAnchor, the places in the registry of the candidates still to
                \* hydrate and of those it will choose from, the toml it has
                \* fetched, the anchor, whether the jwt is valid
    books       \* external: what each anchor has made of the requests it got

offrampVars == <<published, changes, registry, urls, listing, off, books>>

NotStarted == [at |-> "idle", kind |-> "quote", prefers |-> NoAnchor, todo |-> {},
               found |-> {}, read |-> {}, anchor |-> NoAnchor, jwt |-> FALSE]

Progress == {"idle", "hydrating", "fetched", "challenge", "token", "posting", "handle",
             "threw", "timedOut"}

OfframpTypeOK ==
    /\ published \in Publications /\ changes \in 0..MaxChanges
    /\ registry \in {DefaultAnchors, Append(DefaultAnchors, CustomAnchor)}
    /\ urls \in [OffAnchors -> SUBSET Services]
    /\ listing \subseteq OffAnchors
    /\ off \in [OffCalls ->
          [at : Progress, kind : Kinds, prefers : OffAnchors \cup {NoAnchor},
           todo : SUBSET DOMAIN registry, found : SUBSET DOMAIN registry,
           read : SUBSET Services, anchor : OffAnchors \cup {NoAnchor}, jwt : BOOLEAN]]
    /\ books \in [OffCalls -> {"none", "request", "made", "refused"}]

OfframpInit ==
    /\ published \in Publications /\ changes = 0
    /\ registry = DefaultAnchors
    /\ urls = [a \in OffAnchors |-> {}]
    /\ listing = {}
    /\ off = [c \in OffCalls |-> NotStarted]
    /\ books = [c \in OffCalls |-> "none"]

GoOff(c, at) == off' = [off EXCEPT ![c].at = at]

-------------------------------------------------------------------------------
(* Choosing an anchor.                                                     *)

\* byDomain() looks the anchor up whatever it serves; filter() keeps the ones
\* of the corridor, in the registry's order.  They are known by their places,
\* which stay theirs: anchors are only added, at the end.
Candidates(named) ==
    {i \in DOMAIN registry : IF named = NoAnchor THEN registry[i] \in Serving
                                                ELSE registry[i] = named}

Earliest(i, places) == i \in places /\ \A j \in places : i <= j

StartOff(c, kind, named) ==
    /\ off[c].at = "idle"
    /\ off' = [off EXCEPT ![c] =
          [NotStarted EXCEPT !.at = IF Candidates(named) = {} THEN "threw" ELSE "hydrating",
                             !.kind = kind, !.prefers = named,
                             !.todo = Candidates(named), !.found = Candidates(named)]]
    /\ UNCHANGED <<published, changes, registry, urls, listing, books>>

\* One without a transfer URL of either kind counts as not hydrated.
Hydrated(a) == urls[a] \cap {"sep24", "sep31"} # {}

\* hydrateServiceUrls(), one candidate after the other: all of them, though
\* only the first will be used, and a toml that cannot be read ends the call.
Hydrate(c) ==
    /\ off[c].at = "hydrating"
    /\ \E i \in off[c].todo :
        LET a == registry[i]
        IN /\ Earliest(i, off[c].todo)
           /\ \/ Hydrated(a) /\ off' = [off EXCEPT ![c].todo = @ \ {i}]
              \/ ~Hydrated(a) /\ off' = [off EXCEPT ![c].at = "fetched", ![c].read = published[a]]
              \/ ~Hydrated(a) /\ \E why \in {"threw", "timedOut"} : GoOff(c, why)
    /\ UNCHANGED <<published, changes, registry, urls, listing, books>>

\* The body is awaited and written over whatever was written meanwhile.
WriteUrls(c) ==
    /\ off[c].at = "fetched"
    /\ \E i \in off[c].todo :
        /\ Earliest(i, off[c].todo)
        /\ urls' = [urls EXCEPT ![registry[i]] = off[c].read]
        /\ off' = [off EXCEPT ![c].at = "hydrating", ![c].todo = @ \ {i}, ![c].read = {}]
    /\ UNCHANGED <<published, changes, registry, listing, books>>

Needs(kind) ==
    CASE kind = "withdraw" -> {"sep24", "auth"}
      [] kind = "quote" -> {"sep38", "auth"}
      [] OTHER -> {"sep31", "auth"}

\* selectAnchor() answers the first candidate, and the call ends there when
\* that one does not publish what it needs.
Select(c) ==
    /\ off[c].at = "hydrating" /\ off[c].todo = {}
    /\ \E i \in off[c].found :
        LET a == registry[i]
        IN /\ Earliest(i, off[c].found)
           /\ off' = [off EXCEPT ![c].anchor = a,
                                 ![c].at = IF Needs(off[c].kind) \subseteq urls[a]
                                           THEN "challenge" ELSE "threw"]
    /\ UNCHANGED <<published, changes, registry, urls, listing, books>>

-------------------------------------------------------------------------------
(* sep10Auth() and the request.                                            *)

Challenge(c) ==
    /\ off[c].at = "challenge" /\ "auth" \in urls[off[c].anchor]
    /\ GoOff(c, "token")
    /\ UNCHANGED <<published, changes, registry, urls, listing, books>>

\* The signed challenge is exchanged for a token, and the request is posted.
Token(c) ==
    /\ off[c].at = "token" /\ Needs(off[c].kind) \subseteq urls[off[c].anchor]
    /\ off' = [off EXCEPT ![c].at = "posting", ![c].jwt = TRUE]
    /\ books' = [books EXCEPT ![c] = "request"]
    /\ UNCHANGED <<published, changes, registry, urls, listing>>

\* The anchor refuses the challenge or the signature, is slow to answer, or a
\* URL is no longer there.
AuthFails(c) ==
    /\ off[c].at \in {"challenge", "token"}
    /\ \E why \in {"threw", "timedOut"} : GoOff(c, why)
    /\ UNCHANGED <<published, changes, registry, urls, listing, books>>

\* External: the anchor makes a transaction (or a price) of a request, or
\* refuses it, whether or not anybody waits.
AnchorDecides(c) ==
    /\ books[c] = "request"
    /\ \E answer \in {"made", "refused"} : books' = [books EXCEPT ![c] = answer]
    /\ UNCHANGED <<published, changes, registry, urls, listing, off>>

\* A slip the code avoids: the status of the answer is not looked at.
Bug_AnswerAnyStatus(c) ==
    /\ off[c].at = "posting" /\ books[c] \in {"made", "refused"}
    /\ GoOff(c, "handle")
    /\ UNCHANGED <<published, changes, registry, urls, listing, books>>

\* An answer that is not ok throws; the other gives the handle, or the price.
Answer(c) ==
    /\ off[c].at = "posting"
    /\ \/ books[c] = "made" /\ GoOff(c, "handle")
       \/ books[c] = "refused" /\ GoOff(c, "threw")
    /\ UNCHANGED <<published, changes, registry, urls, listing, books>>

\* fetchWithTimeout() aborts the wait.
TimeOut(c) ==
    /\ off[c].at = "posting"
    /\ GoOff(c, "timedOut")
    /\ UNCHANGED <<published, changes, registry, urls, listing, books>>

\* External: the token of a handle expires.
ExpireToken(c) ==
    /\ off[c].at = "handle" /\ off[c].jwt
    /\ off' = [off EXCEPT ![c].jwt = FALSE]
    /\ UNCHANGED <<published, changes, registry, urls, listing, books>>

\* pollStatus() asks the SEP-24 server for the transaction, of a direct
\* payment too; it answers for the ones it made, and while the token lasts.
StatusAnswers(c) ==
    /\ off[c].at = "handle" /\ off[c].jwt
    /\ "sep24" \in urls[off[c].anchor] /\ off[c].kind = "withdraw"

\* External: an anchor publishes another stellar.toml.
Republish ==
    /\ changes < MaxChanges
    /\ changes' = changes + 1
    /\ published' \in Publications \ {published}
    /\ UNCHANGED <<registry, urls, listing, off, books>>

-------------------------------------------------------------------------------
(* The registry and the agent kit.                                         *)

AddAnchor ==
    /\ registry = DefaultAnchors
    /\ registry' = Append(registry, CustomAnchor)
    /\ UNCHANGED <<published, changes, urls, listing, off, books>>

\* corridors(): what the first call lists is what every later call answers.
Corridors ==
    /\ listing' = IF listing # {} THEN listing ELSE {registry[i] : i \in DOMAIN registry}
    /\ UNCHANGED <<published, changes, registry, urls, off, books>>

OfframpNext ==
    \/ \E c \in OffCalls :
        \/ \E kind \in Kinds, named \in Named : StartOff(c, kind, named)
        \/ Hydrate(c) \/ WriteUrls(c) \/ Select(c)
        \/ Challenge(c) \/ Token(c) \/ AuthFails(c)
        \/ AnchorDecides(c) \/ Answer(c) \/ TimeOut(c) \/ ExpireToken(c)
    \/ AddAnchor \/ Corridors \/ Republish

OfframpSpec == OfframpInit /\ [][OfframpNext]_offrampVars

-------------------------------------------------------------------------------
\* A handle stands for a transaction the anchor made for that call, at an
\* anchor that serves the corridor or was named; a call that threw has left
\* nothing behind, unless it was its answer that did not come in time.  As long
\* as no stellar.toml changes under two overlapping reads, the calls that share
\* a descriptor leave each other the URLs they use, and a withdrawal can be
\* followed for as long as its token is good.
AnchorHolds ==
    \A c \in OffCalls :
        /\ off[c].at = "handle" =>
              /\ books[c] = "made"
              /\ off[c].anchor \in Serving \/ off[c].anchor = off[c].prefers
        /\ off[c].at = "threw" => books[c] \in {"none", "refused"}
        /\ changes = 0 /\ off[c].at \in {"challenge", "token", "posting", "handle"} =>
              Needs(off[c].kind) \subseteq urls[off[c].anchor]
        /\ changes = 0 /\ off[c].at = "handle" /\ off[c].jwt /\ off[c].kind = "withdraw" =>
              StatusAnswers(c)
===============================================================================
