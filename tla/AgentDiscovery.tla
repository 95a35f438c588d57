---------------------------- MODULE AgentDiscovery ----------------------------
(***************************************************************************)
(* How a prompt finds its agent: a server is built and registers           *)
(* (nats/server.go, nats/subject.go), a client discovers instances, checks *)
(* a request against the one it picked and publishes it (nats/client.go),  *)
(* and an instance that serves the subject decodes it (nats/wire.go,       *)
(* nats/request.go, nats/message.go).                                      *)
(*                                                                         *)
(* NATS is external: a registered instance answers a discovery, and a      *)
(* prompt goes to one of the instances on its subject.  Identifiers are    *)
(* sequences of words, which their "-" joins; sizes are small numbers.     *)
(***************************************************************************)
EXTENDS Integers, SequencesExt, TLC

CONSTANTS Configs,   \* servers: [agent, owner, name, session, cap, capSet, attachmentsOk]
          Foreign,   \* records of other SDKs: [service, version, agent, owner, session, subject, cap,
                     \* attachmentsOk]; their metadata need not say what their subject says
          Filters,   \* discover filters: [agent, owner, name, session], <<>> for any
          PromptRequests, \* what a caller may send: [prompt, size, attachments, header]
          Plain,     \* payloads of callers without an envelope
          ServerLimit, ClientLimit, \* what the two connections carry; 0 when the client's is not known
          MaxToken,  \* the longest token
          MaxServed  \* bound on the instances at once

VARIABLES
    served,   \* the instances that are registered: configurations and foreign records
    disc,     \* the discovery: its filter, whom it may hear, whom it heard
    found,    \* what Discover returned
    wire,     \* a message on its way, and history: what it was made of
    handled   \* what the instance that got it made of it

discoveryVars == <<served, disc, found, wire, handled>>

Idle == [at |-> "idle"]
NoMessage == [is |-> "none"]

DiscoveryInit ==
    /\ served = {}
    /\ disc = Idle /\ found = <<>>
    /\ wire = NoMessage /\ handled = NoMessage

-----------------------------------------------------------------------------
(* New *)

\* The words joined: where the name ends and the session starts is not to be seen.
InstanceName(name, session) == name \o session

\* ValidateSubjectToken: not empty, not too long, no separator and no wildcard.
ValidToken(words) ==
    /\ words # <<>> /\ Len(words) <= MaxToken
    /\ \A i \in DOMAIN words : words[i] \notin {".", "*", ">", " "}

ValidIdentity(c) ==
    /\ c.session # <<>> => ValidToken(c.session)
    /\ ValidToken(c.agent) /\ ValidToken(c.owner) /\ ValidToken(InstanceName(c.name, c.session))

Unit(u) == IF u = "B" THEN 1 ELSE 4

\* parseMaxPayload: a whole number and its unit; what follows the digits is not read.
ParseMaxPayload(cap) ==
    IF cap.unit \in {"B", "KB"} /\ cap.n >= 0 THEN [ok |-> TRUE, bytes |-> cap.n * Unit(cap.unit)]
    ELSE [ok |-> FALSE, bytes |-> 0]

\* reconcileMaxPayload: the default is lowered to what the connection carries; a cap
\* that was asked for is not.
Reconciled(c) ==
    IF ParseMaxPayload(c.cap).bytes <= ServerLimit \/ c.capSet THEN c.cap
    ELSE [n |-> ServerLimit, unit |-> "B"]

NewRefuses(c) ==
    IF c.owner = <<>> THEN "ErrEmptyOwner"
    ELSE IF c.name = <<>> THEN "ErrEmptyName"
    ELSE IF ~ValidIdentity(c) THEN "ErrInvalidSubjectToken"
    ELSE IF \/ ~ParseMaxPayload(c.cap).ok \/ ParseMaxPayload(c.cap).bytes <= 0
            \/ c.capSet /\ ParseMaxPayload(c.cap).bytes > ServerLimit THEN "ErrInvalidMaxPayload"
    ELSE "nil"

\* promptSubject, its tokens.
PromptSubject(c) == <<c.agent, c.owner, InstanceName(c.name, c.session)>>

\* The record of a registration: metadata, and the prompt endpoint's.
Registered(c) ==
    [service |-> "agents", version |-> <<0, 3>>, agent |-> c.agent, owner |-> c.owner,
     session |-> c.session, subject |-> PromptSubject(c), cap |-> Reconciled(c), attachmentsOk |-> c.attachmentsOk]

\* New, and Start; a server that New refuses is none.
Serve(c) ==
    /\ NewRefuses(c) = "nil" /\ Cardinality(served) < MaxServed
    /\ served' = served \cup {Registered(c)}
    /\ UNCHANGED <<disc, found, wire, handled>>

ServeForeign(r) ==
    /\ Cardinality(served) < MaxServed
    /\ served' = served \cup {r}
    /\ UNCHANGED <<disc, found, wire, handled>>

\* An instance is gone; another with its name may come.
StopServing(r) ==
    /\ served' = served \ {r}
    /\ UNCHANGED <<disc, found, wire, handled>>

-----------------------------------------------------------------------------
(* Discover *)

\* compatibleProtocol: <<>> is a version that has no major and minor number.
Compatible(version) ==
    version # <<>> /\ version[1] = 0 /\ version[2] = 3

\* parseAgentInfo: a record, as a handle; a cap that cannot be read is no cap.
Promptable(r) == r.service = "agents" /\ Compatible(r.version) /\ r.subject # <<>>

\* instanceNameFromSubject: the fifth token of "agents.prompt" and the subject's.
NameIn(subject) == IF Len(subject) >= 3 THEN subject[3] ELSE <<>>

\* Who it is, by its metadata; its name, by its prompt subject.
AgentInfo(r) ==
    [subject |-> r.subject, agent |-> r.agent, owner |-> r.owner, name |-> NameIn(r.subject),
     session |-> r.session, maxPayload |-> ParseMaxPayload(r.cap).bytes, attachmentsOk |-> r.attachmentsOk]

MatchFilter(info, filter) ==
    /\ filter.agent # <<>> => info.agent = filter.agent
    /\ filter.owner # <<>> => info.owner = filter.owner
    /\ filter.name # <<>> => info.name = filter.name
    /\ filter.session # <<>> => info.session = filter.session

StartDiscover ==
    /\ disc = Idle /\ wire = NoMessage
    /\ \E filter \in Filters :
           disc' = [at |-> "collects", filter |-> filter, asked |-> served, heard |-> {}]
    /\ UNCHANGED <<served, found, wire, handled>>

HearReply ==
    /\ disc.at = "collects"
    /\ \E r \in disc.asked \ disc.heard :
           /\ disc' = [disc EXCEPT !.heard = @ \cup {r}]
           /\ found' = IF Promptable(r) /\ MatchFilter(AgentInfo(r), disc.filter)
                       THEN Append(found, AgentInfo(r)) ELSE found
    /\ UNCHANGED <<served, wire, handled>>

\* No reply for a while, or the deadline; or the caller's context, which is an error
\* only when nobody was found.
StallOver ==
    /\ disc.at = "collects"
    /\ \E cancelled \in BOOLEAN :
           disc' = [disc EXCEPT !.at = IF found # <<>> THEN "found"
                                       ELSE IF cancelled THEN "ctx error" ELSE "ErrNoAgentsFound"]
    /\ UNCHANGED <<served, found, wire, handled>>

DiscoverAgain ==
    /\ disc.at \in {"found", "ctx error", "ErrNoAgentsFound"}
    /\ disc' = Idle /\ found' = <<>>
    /\ UNCHANGED <<served, wire, handled>>

-----------------------------------------------------------------------------
(* Send *)

\* Base64 makes four bytes of three.
EncodedSize(req) ==
    req.size + FoldSeq(LAMBDA a, sum : sum + ((a.size + 2) \div 3) * 4, 0, req.attachments)

\* Sizes and caps are numbers, versions major and minor ones.
ASSUME DiscoveryConstants ==
    /\ \A c \in Configs : c.cap.n \in Int
    /\ \A r \in Foreign : r.cap.n \in Int /\ (r.version = <<>> \/ r.version \in Nat \X Nat)
    /\ \A req \in PromptRequests :
           req.attachments \in Seq(ToSet(req.attachments)) /\ EncodedSize(req) \in Nat
    /\ ServerLimit \in Nat \ {0} /\ ClientLimit \in Nat

\* What json.Marshal makes of a text that is not UTF-8.
Encoded(text) == IF text = "bad utf8" THEN "repaired" ELSE text

\* Variant: the agent's cap is not looked at when the connection has one.
TooLarge_ConnOnly(info, req) == ClientLimit > 0 /\ EncodedSize(req) > ClientLimit

TooLarge(info, req) ==
    \/ info.maxPayload > 0 /\ EncodedSize(req) > info.maxPayload
    \/ ClientLimit > 0 /\ EncodedSize(req) > ClientLimit

Unnamed(attachment) == attachment.name = ""

\* requestMsg.
SendRefuses(info, req) ==
    IF req.prompt = "blank" THEN "ErrEmptyPrompt"
    ELSE IF req.attachments # <<>> /\ ~info.attachmentsOk THEN "ErrAttachmentsNotAllowed"
    ELSE IF \E i \in DOMAIN req.attachments : Unnamed(req.attachments[i]) THEN "ErrInvalidAttachment"
    ELSE IF TooLarge(info, req) THEN "ErrPayloadTooLarge"
    ELSE "nil"

Send ==
    /\ disc.at = "found" /\ wire = NoMessage /\ handled = NoMessage
    /\ \E i \in DOMAIN found, req \in PromptRequests :
           wire' = IF SendRefuses(found[i], req) # "nil"
                   THEN [is |-> "refused", err |-> SendRefuses(found[i], req), info |-> found[i], req |-> req]
                   ELSE [is |-> "envelope", info |-> found[i], subject |-> found[i].subject, req |-> req,
                         prompt |-> Encoded(req.prompt), attachments |-> req.attachments,
                         header |-> req.header, delivered |-> FALSE]
    /\ UNCHANGED <<served, disc, found, handled>>

\* A caller without an envelope, or with one of its own that is broken.
SendPlain ==
    /\ disc.at = "found" /\ wire = NoMessage /\ handled = NoMessage
    /\ \E i \in DOMAIN found, payload \in Plain :
           wire' = [is |-> "plain", info |-> found[i], subject |-> found[i].subject, payload |-> payload,
                    delivered |-> FALSE]
    /\ UNCHANGED <<served, disc, found, handled>>

-----------------------------------------------------------------------------
(* The instance that gets it: the endpoint up to the run *)

Malformed == {"", "blank", "{broken", "{no prompt}"}

\* decodeEnvelope: nothing, JSON, or the plain text that is the whole payload.
DecodeEnvelope(m) ==
    IF m.is = "envelope" THEN [ok |-> TRUE, prompt |-> m.prompt, attachments |-> m.attachments]
    ELSE IF m.payload \in Malformed THEN [ok |-> FALSE]
    ELSE [ok |-> TRUE, prompt |-> m.payload, attachments |-> <<>>]

\* envelopeToContentParts: the prompt, and one part per attachment, an image's or its name's.
ContentParts(env) ==
    <<[kind |-> "text", of |-> env.prompt]>> \o
    [i \in DOMAIN env.attachments |->
        [kind |-> IF env.attachments[i].image THEN "image" ELSE "text", of |-> env.attachments[i].name]]

BadRequest(r, code) == [is |-> "400", by |-> r, code |-> code]

Handle(r) ==
    LET env == DecodeEnvelope(wire) IN
    IF ~env.ok THEN BadRequest(r, "malformed_envelope")
    ELSE IF ~r.attachmentsOk /\ env.attachments # <<>> THEN BadRequest(r, "attachments_not_allowed")
    ELSE [is |-> "runs", by |-> r, prompt |-> env.prompt, attachments |-> env.attachments,
          parts |-> ContentParts(env), header |-> IF wire.is = "envelope" THEN wire.header ELSE <<>>]

\* One of those that serve the subject.
Deliver ==
    /\ wire.is \in {"envelope", "plain"} /\ ~wire.delivered
    /\ \E r \in served :
           /\ r.subject = wire.subject
           /\ handled' = Handle(r)
    /\ wire' = [wire EXCEPT !.delivered = TRUE]
    /\ UNCHANGED <<served, disc, found>>

\* Nobody serves it any more, or the caller has had its answer.
PromptOver ==
    /\ \/ wire.is = "refused"
       \/ wire.is \in {"envelope", "plain"} /\ (wire.delivered \/ \A r \in served : r.subject # wire.subject)
    /\ wire' = NoMessage /\ handled' = NoMessage
    /\ UNCHANGED <<served, disc, found>>

DiscoveryNext ==
    \/ \E c \in Configs : Serve(c)
    \/ \E r \in Foreign : ServeForeign(r)
    \/ \E r \in served : StopServing(r)
    \/ StartDiscover \/ HearReply \/ StallOver \/ DiscoverAgain
    \/ Send \/ SendPlain \/ Deliver \/ PromptOver

DiscoverySpec == DiscoveryInit /\ [][DiscoveryNext]_discoveryVars

-----------------------------------------------------------------------------
(* Properties *)

\* An instance that can be prompted and is what the filter asks for, by what it registered.
AskedFor(r, filter) ==
    /\ r.service = "agents" /\ r.version = <<0, 3>> /\ r.subject # <<>>
    /\ filter.agent \in {<<>>, r.agent} /\ filter.owner \in {<<>>, r.owner}
    /\ filter.session \in {<<>>, r.session} /\ filter.name \in {<<>>, NameIn(r.subject)}

\* Discover gives the caller the instances it asked for, all that were heard and no
\* other, and says that there are none only when none was heard.  What Send lets through
\* is within the agent's cap and its own connection's, and an instance that has the
\* settings the caller saw takes it whole, whichever of those on the subject it is:
\* prompt, attachments and headers, and the run gets the prompt and a part for each
\* attachment.  A server never advertises more than its connection carries
\* (nats/client.go, nats/server.go).
PromptsFindTheirAgent ==
    /\ disc.at # "idle" =>
           /\ \A i \in DOMAIN found : \E r \in disc.heard : AskedFor(r, disc.filter) /\ found[i] = AgentInfo(r)
           /\ \A r \in disc.heard : AskedFor(r, disc.filter) => \E i \in DOMAIN found : found[i] = AgentInfo(r)
           /\ disc.at = "ErrNoAgentsFound" => \A r \in disc.heard : ~AskedFor(r, disc.filter)
    /\ wire.is = "envelope" /\ wire.delivered =>
           LET r == handled.by
               request == wire.req
               limit == ParseMaxPayload(r.cap).bytes
           IN  AgentInfo(r) = wire.info =>
                   /\ handled.is = "runs"
                   /\ handled.prompt = Encoded(request.prompt) /\ handled.header = request.header
                   /\ handled.attachments = request.attachments
                   /\ Len(handled.parts) = 1 + Len(request.attachments)
                   /\ ClientLimit > 0 => EncodedSize(request) <= ClientLimit
                   /\ limit > 0 => EncodedSize(request) <= limit
    /\ \A r \in served \ Foreign : ParseMaxPayload(r.cap).bytes \in 1 .. ServerLimit
=============================================================================
