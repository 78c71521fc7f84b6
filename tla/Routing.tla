------------------------------- MODULE Routing -------------------------------
(***************************************************************************)
(* One route_ready_task call of the RoutingController                      *)
(* (pantheon-engine/src/routing.rs) over the pure rules of                 *)
(* pantheon-core/src/execution.rs, and the activation gate of              *)
(* pantheon-core/src/config/validate.rs that its configurations pass.      *)
(*                                                                         *)
(* The call captures one published configuration, resolves the eligible    *)
(* Agents, describes every backend, asks each for offers and selects one   *)
(* candidate.  Each call to a backend is a step of its own: meanwhile a    *)
(* configuration may be activated and a backend may change what it         *)
(* reports.                                                                *)
(*                                                                         *)
(* Names are numbers, in the order of the strings.  A digest is the value  *)
(* itself: two values with one digest are the same value.  What a backend  *)
(* reports is a row of FactSheets, named by its index; the order of the    *)
(* offers' digests is the order of these indices.                          *)
(***************************************************************************)
EXTENDS Integers, Sequences, SequencesExt

CONSTANTS
    Candidates,         \* the compiled configurations that may be submitted
    Task,               \* [type, competencies, effects, activation]
    Ports,              \* the backend ids, in the order of the port slice
    Safety,             \* backend id -> [guarantees, observational]
    FactSheets,         \* what a backend may report about itself
    MaxActivations,     \* activations
    MaxMoves            \* changes of a backend's descriptor

VARIABLES
    active,     \* the published snapshot: [sequence, configuration]
    backends,   \* backend id -> its current [revision, sheet]
    route,      \* the call in progress
    moves       \* changes of descriptors so far

vars == <<active, backends, route, moves>>

Sheets == 1 .. Len(FactSheets)
BackendIds == {Ports[i] : i \in 1 .. Len(Ports)}

----------------------------------------------------------------------------
(* Activation: cross_references.                                           *)

ControlPlaneActions == {"process.spawn", "shell.execute"}
ControlPlaneGuarantee == "isolation.control-plane"

Identity(a) == <<a.name, a.version>>

\* Every Agent's route policy and sandbox profile exist, the profile asserts
\* what the Agent requires, and shell access comes with a profile that
\* isolates the control plane.
AgentPlaced(a, c) ==
    /\ a.policy \in DOMAIN c.policies
    /\ a.profile \in DOMAIN c.profiles
    /\ a.isolation \subseteq c.profiles[a.profile].guarantees
    /\ a.actions \cap ControlPlaneActions # {} =>
        /\ c.profiles[a.profile].isolates
        /\ ControlPlaneGuarantee \in c.profiles[a.profile].guarantees

CrossReferences(c) ==
    /\ \A a, b \in c.agents :
        /\ Identity(a) = Identity(b) => a = b
        /\ a.current /\ b.current /\ a.name = b.name => a = b
    /\ \A a \in c.agents : AgentPlaced(a, c)
    /\ c.pins \cup c.exclusions \subseteq {Identity(a) : a \in c.agents}
    /\ c.pins \cap c.exclusions = {}
    /\ \A v \in DOMAIN c.versions : c.versions[v] \in DOMAIN c.profiles
    /\ c.refs \subseteq DOMAIN c.versions
    /\ c.dropOrder \cap c.mandatory = {}
    /\ c.preload \subseteq c.mandatory \cup c.dropOrder

----------------------------------------------------------------------------
(* The pure rules: resolve_agents, build_execution_request,                *)
(* validate_execution_candidate, select_execution_candidate.               *)

\* A rule forbids one of the Agent's actions or of the Task's effects.
Forbidden(a, c) == (a.actions \cup Task.effects) \cap c.forbidden # {}

\* The semantic conditions of resolve_agents, in its order.
Suits(a, binding) ==
    LET c == binding.configuration
    IN  /\ a.enabled
        /\ a.current
        /\ Task.type \in a.accepts
        /\ Task.competencies \subseteq a.competencies
        /\ c.pins # {} => Identity(a) \in c.pins
        /\ Identity(a) \notin c.exclusions
        /\ ~Forbidden(a, c)
        /\ Task.activation <= binding.sequence

\* The Agent's policy and profile are looked up once it suits the Task.
Resolvable(a, c) ==
    /\ a.policy \in DOMAIN c.policies
    /\ a.profile \in DOMAIN c.profiles
    /\ a.isolation \subseteq c.profiles[a.profile].guarantees

LexLess(s, t) ==
    \E i \in 1 .. Len(s) :
        s[i] < t[i] /\ \A j \in 1 .. (i - 1) : s[j] = t[j]

ResolveAgents(binding) ==
    SetToSortSeq({a \in binding.configuration.agents :
                    Suits(a, binding) /\ Resolvable(a, binding.configuration)},
                 LAMBDA a, b : LexLess(Identity(a), Identity(b)))

\* The request: what the Agent needs, under the captured configuration.  It
\* asks for no placement and no resources yet.
BuildRequest(a, binding) ==
    [agent |-> Identity(a), features |-> a.features,
     minContext |-> a.minContext, placement |-> {}, isolation |-> a.isolation,
     resources |-> {}, configuration |-> binding,
     policy |-> binding.configuration.policies[a.policy]]

Supplies(held, wanted) ==
    \E h \in held : h.name = wanted.name /\ h.quantity >= wanted.quantity

\* What the request demands of a backend's facts.
Meets(facts, request) ==
    /\ request.features \subseteq facts.features
    /\ facts.context >= request.minContext
    /\ request.placement \subseteq facts.placement
    /\ request.isolation \subseteq facts.isolation
    /\ \A wanted \in request.resources : Supplies(facts.resources, wanted)

\* The offer is for this request, and was made on the described revision.
OfferBinds(request, view, offer) ==
    /\ offer.backend = view.backend
    /\ offer.revision = view.revision
    /\ offer.descriptor = [revision |-> view.revision, sheet |-> view.sheet]
    /\ offer.request = request

\* A duplicate launch cannot happen: by key, or by the controller's evidence.
LaunchSafe(request, view, offer) ==
    /\ FactSheets[view.sheet].keyed = FactSheets[offer.sheet].keyed
    /\ request.policy.requiresKeyed => FactSheets[offer.sheet].keyed
    /\ ~request.policy.requiresKeyed /\ ~FactSheets[offer.sheet].keyed =>
        Safety[view.backend].observational

ValidateCandidate(request, view, offer) ==
    /\ view.enabled
    /\ FactSheets[view.sheet].available
    /\ OfferBinds(request, view, offer)
    /\ Meets(FactSheets[view.sheet], request)
    /\ Meets(FactSheets[offer.sheet], request)
    /\ request.isolation \subseteq Safety[view.backend].guarantees
    /\ LaunchSafe(request, view, offer)

\* compare_candidates.  Under one policy both sides have the same keys.
PreferenceKeys(c) ==
    IF "contextCapacity" \in c.request.policy.ordering
    THEN <<0 - FactSheets[c.offer.sheet].context>>
    ELSE <<>>

TieBreakKeys(c) ==
    IF c.request.policy.tieBreak = "backendId"
    THEN <<c.offer.backend>>
    ELSE c.request.agent

CanonicalKeys(c) ==
    c.request.agent \o <<c.offer.backend, c.offer.revision, c.offer.sheet>>

CompareCandidates_LowestFirst(left, right) ==
    \/ left.request.policy.priority < right.request.policy.priority
    \/ /\ left.request.policy.priority = right.request.policy.priority
       /\ LexLess(CanonicalKeys(left), CanonicalKeys(right))

CompareCandidates(left, right) ==
    LET l == left.request.policy
        r == right.request.policy
    IN  \/ l.priority > r.priority
        \/ l.priority = r.priority /\ l.name < r.name
        \/ /\ l.priority = r.priority /\ l.name = r.name
           /\ LexLess(PreferenceKeys(left) \o TieBreakKeys(left) \o CanonicalKeys(left),
                      PreferenceKeys(right) \o TieBreakKeys(right) \o CanonicalKeys(right))

\* min_by keeps the first of the candidates none of the later ones precedes.
SelectCandidate(cs) ==
    FoldLeft(LAMBDA best, c : IF CompareCandidates(c, best) THEN c ELSE best,
             Head(cs), Tail(cs))

----------------------------------------------------------------------------
(* The call.                                                               *)

NoRoute == [pc |-> "idle"]
Failed == [pc |-> "failed"]

Init ==
    /\ active \in [sequence: {1},
                   configuration: {c \in Candidates : CrossReferences(c)}]
    /\ backends \in [BackendIds -> [revision: {1}, sheet: Sheets]]
    /\ route = NoRoute
    /\ moves = 0

\* Capture the snapshot, resolve the Agents, build one request for each.
Resolve ==
    /\ route.pc = "idle"
    /\ LET agents == ResolveAgents(active)
       IN  route' = IF agents = <<>>
                    THEN Failed
                    ELSE [pc |-> "describe", binding |-> active,
                          requests |-> [i \in DOMAIN agents |->
                                            BuildRequest(agents[i], active)],
                          views |-> <<>>]
    /\ UNCHANGED <<active, backends, moves>>

\* The offer calls: each request in turn, over the enabled and available
\* backends in the order of their ids.
OfferCalls(requests, views) ==
    LET sorted == SetToSortSeq({views[i] : i \in DOMAIN views},
                               LAMBDA v, w : LexLess(<<v.backend, v.revision>>,
                                                     <<w.backend, w.revision>>))
        usable == SelectSeq(sorted, LAMBDA v : v.enabled /\ FactSheets[v.sheet].available)
    IN  FlattenSeq([i \in DOMAIN requests |->
            [j \in DOMAIN usable |-> [request |-> requests[i], view |-> usable[j]]]])

\* describe(), one backend after the other.  An unregistered backend, or a
\* second one with the same id, fails the whole call.
Describe ==
    /\ route.pc = "describe"
    /\ Len(route.views) < Len(Ports)
    /\ LET b == Ports[Len(route.views) + 1]
           registered == route.binding.configuration.backends
       IN  route' = IF b \in DOMAIN registered /\ \A i \in DOMAIN route.views :
                                                    route.views[i].backend # b
                    THEN [route EXCEPT !.views = Append(@,
                            [backend |-> b, revision |-> backends[b].revision,
                             sheet |-> backends[b].sheet,
                             enabled |-> registered[b]])]
                    ELSE Failed
    /\ UNCHANGED <<active, backends, moves>>

Described ==
    /\ route.pc = "describe"
    /\ Len(route.views) = Len(Ports)
    /\ route' = [pc |-> "offer", binding |-> route.binding,
                 views |-> route.views,
                 calls |-> OfferCalls(route.requests, route.views),
                 candidates |-> <<>>]
    /\ UNCHANGED <<active, backends, moves>>

\* The answer to one call: offers made on the descriptor the backend has by
\* now, with facts that may be weaker or stronger than the described ones.
Answers(call) ==
    {<<>>} \cup
    {<<[request |-> call.request, backend |-> call.view.backend,
        revision |-> backends[call.view.backend].revision,
        descriptor |-> backends[call.view.backend], sheet |-> s]>> : s \in Sheets}

CollectOffers ==
    /\ route.pc = "offer"
    /\ route.calls # <<>>
    /\ \E offers \in Answers(Head(route.calls)) :
        LET call == Head(route.calls)
            valid == SelectSeq(offers, LAMBDA o :
                                ValidateCandidate(call.request, call.view, o))
        IN  route' = [route EXCEPT
                !.calls = Tail(@),
                !.candidates = @ \o [i \in DOMAIN valid |->
                    [request |-> call.request, view |-> call.view,
                     offer |-> valid[i]]]]
    /\ UNCHANGED <<active, backends, moves>>

OfferFails ==
    /\ route.pc = "offer"
    /\ route.calls # <<>>
    /\ route' = Failed
    /\ UNCHANGED <<active, backends, moves>>

StillPublished_ContentOnly(binding) ==
    binding.configuration.policies = active.configuration.policies

\* The captured binding is compared with the snapshot published by now.
StillPublished(binding) == binding = active

Select ==
    /\ route.pc = "offer"
    /\ route.calls = <<>>
    /\ route' = IF route.candidates # <<>> /\ StillPublished(route.binding)
                THEN [pc |-> "routed", binding |-> route.binding,
                      candidates |-> route.candidates,
                      result |-> SelectCandidate(route.candidates)]
                ELSE Failed
    /\ UNCHANGED <<active, backends, moves>>

\* The caller takes the answer; the next call starts from nothing.
Return ==
    /\ route.pc \in {"routed", "failed"}
    /\ route' = NoRoute
    /\ UNCHANGED <<active, backends, moves>>

----------------------------------------------------------------------------
(* Meanwhile.                                                              *)

ActivateConfiguration(c) ==
    /\ active.sequence < MaxActivations
    /\ CrossReferences(c)
    /\ active' = [sequence |-> active.sequence + 1, configuration |-> c]
    /\ UNCHANGED <<backends, route, moves>>

\* A backend publishes other facts, under a new revision or, if it is
\* careless, under the old one.
DescriptorMoves(b, s) ==
    /\ moves < MaxMoves
    /\ s # backends[b].sheet
    /\ \E r \in {backends[b].revision, backends[b].revision + 1} :
        backends' = [backends EXCEPT ![b] = [revision |-> r, sheet |-> s]]
    /\ moves' = moves + 1
    /\ UNCHANGED <<active, route>>

Next ==
    \/ Resolve \/ Describe \/ Described \/ CollectOffers \/ OfferFails
    \/ Select \/ Return
    \/ \E c \in Candidates : ActivateConfiguration(c)
    \/ \E b \in BackendIds, s \in Sheets : DescriptorMoves(b, s)

Spec == Init /\ [][Next]_vars

----------------------------------------------------------------------------
(* Properties.                                                             *)

\* The candidate no other one beats is chosen, whatever the order of ports,
\* Agents and offers: no policy of higher priority was available, under its
\* own policy no larger context where that is preferred, and every other
\* candidate comes strictly after it.
ChosenIsBest ==
    route.pc = "routed" =>
        \A i \in DOMAIN route.candidates :
            LET c == route.candidates[i]
                best == route.result
                context(x) == FactSheets[x.offer.sheet].context
            IN  /\ c.request.policy.priority <= best.request.policy.priority
                /\ c.request.policy = best.request.policy
                   /\ "contextCapacity" \in best.request.policy.ordering =>
                        context(c) <= context(best)
                /\ c # best => CompareCandidates(best, c)

\* A route is returned under the configuration published at that moment, by
\* an Agent and a backend which that configuration enables.
RoutedUnderPublished ==
    [][route'.pc = "routed" /\ route.pc # "routed" =>
        LET c == route'.result
        IN  /\ c.request.configuration = active
            /\ \E a \in active.configuration.agents :
                Identity(a) = c.request.agent /\ Suits(a, active)
            /\ active.configuration.backends[c.offer.backend]]_vars

============================================================================
