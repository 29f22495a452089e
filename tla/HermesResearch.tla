---------------------------- MODULE HermesResearch ----------------------------
(***************************************************************************)
(* What the orchestrator asks Hermes of a plan cycle, which replies it     *)
(* takes for an answer, and what of an answer is kept: the checks of       *)
(* hermes-research.ts, and those the database makes again when it records. *)
(*                                                                         *)
(* A quote is its timestamp; digests are the values they are digests of.   *)
(***************************************************************************)
EXTENDS Integers, FiniteSets

CONSTANTS
    Symbols,          \* the research universe of the plan's agent version
    Cycles,           \* plan cycle identifiers
    QuoteWindow,      \* MAX_PUBLIC_QUOTE_AGE_MS
    Skew,             \* the clock skew let through: 5 s of a quote, 60 s of a reply
    ReplyWindow       \* MAX_RESPONSE_AGE_MS

\* A request asks about the quotes frozen for the cycle, as of its instant.
ValidRequest(request) ==
    /\ request.quotes # << >> /\ DOMAIN request.quotes \subseteq Symbols
    /\ \A s \in DOMAIN request.quotes :
          request.quotes[s] \in (request.asOf - QuoteWindow) .. (request.asOf + Skew)

\* What can come back: nothing that parses ("lost": no connection, an HTTP error,
\* no JSON, a body beyond its bound), or a completion.
Reply(request, text, now) ==
    [lost |-> FALSE, model |-> "treasury-bot", finish |-> "stop", created |-> now,
     requestId |-> request.cycle, symbols |-> DOMAIN request.quotes, text |-> text]

\* The replies a proxy, an overloaded model or another profile may send instead.
Deviations(reply) ==
    {[reply EXCEPT !.lost = TRUE], [reply EXCEPT !.model = "other"],
     [reply EXCEPT !.finish = "length"], [reply EXCEPT !.finish = "tool_calls"],
     [reply EXCEPT !.created = @ - ReplyWindow - 1]}
    \cup {[reply EXCEPT !.created = @ + d] : d \in {Skew, Skew + 1}}
    \cup {[reply EXCEPT !.requestId = c] : c \in Cycles}
    \cup {[reply EXCEPT !.symbols = @ \ {s}] : s \in reply.symbols}

InReplyWindow(created, received) == created \in (received - ReplyWindow) .. (received + Skew)

\* parseCompletionEnvelope and parseAnalysis: exactly the symbols asked about.
Answers(reply, request) ==
    /\ reply.model = "treasury-bot" /\ reply.finish = "stop"
    /\ reply.requestId = request.cycle
    /\ reply.symbols = DOMAIN request.quotes

Accepts(request, reply, received) ==
    /\ ~reply.lost
    /\ Answers(reply, request)
    /\ InReplyWindow(reply.created, received)

\* createSanitizedHermesResearchArtifact.  Its instants, which were compared when
\* the reply arrived, are left out.
Sanitized(request, reply) ==
    [requestId |-> reply.requestId, request |-> request, symbols |-> reply.symbols,
     text |-> reply.text]

\* parseSanitizedHermesResearchArtifact
ValidArtifact(artifact) == artifact.symbols # {} /\ artifact.symbols \subseteq Symbols

\* hermesResearchForSymbol
Represents(artifact, symbol) == ValidArtifact(artifact) /\ symbol \in artifact.symbols
=============================================================================
