---------------------------- MODULE Activation -----------------------------
(* The plugin registry and its resolver (lbd-pipeline, PluginRegistry).     *)
(* resolve_activation walks the requested ids with a stack, adds what each  *)
(* plugin requires, and then refuses any pair that conflicts.  The registry *)
(* is the host's: the manifests of its built-in plugins.                     *)
EXTENDS Naturals, Sequences, SequencesExt, FiniteSets

CONSTANTS
    Ids,          \* every id, registered or not
    Hosts,        \* the programs that build a registry
    Registered,   \* [Hosts -> SUBSET Ids]
    Requires,     \* [Ids -> Seq(Ids)]: manifest.requires, in order
    Conflicts     \* [Hosts -> [Ids -> SUBSET Ids]]: manifest.conflicts_with

ASSUME RegistryAssumption ==
    /\ Registered \in [Hosts -> SUBSET Ids]
    /\ Requires \in [Ids -> Seq(Ids)]
    /\ Conflicts \in [Hosts -> [Ids -> SUBSET Ids]]

VARIABLES
    host,        \* whose registry it is
    requested,   \* the ids asked for
    queue,       \* ids to visit, the last one first
    pushing,     \* requirements of the last plugin the inner loop has yet to look at
    enabled,     \* ordered_enabled: the plan so far, in the order of the visit
    outcome      \* "resolving" | "accepted" | "unknown" | "missing" | "conflict"

resolver == <<host, requested, queue, pushing, enabled, outcome>>

Plugins == Registered[host]
Seen == Range(enabled)
Needs(p) == Range(Requires[p])

ResolveInit(h, request) ==
    /\ host = h
    /\ requested = request
    /\ queue = request
    /\ pushing = <<>>
    /\ enabled = <<>>
    /\ outcome = "resolving"

(* Mutation: what a plugin requires is not looked at.                       *)
VisitAlone ==
    /\ outcome = "resolving" /\ queue # <<>>
    /\ outcome' = IF Last(queue) \in Plugins THEN outcome ELSE "unknown"
    /\ queue' = Front(queue)
    /\ enabled' = IF Last(queue) \in Seen \/ Last(queue) \notin Plugins THEN enabled
                  ELSE Append(enabled, Last(queue))
    /\ UNCHANGED <<host, requested, pushing>>

(* One turn of the loop: an id that is seen already is skipped, one the     *)
(* registry does not know ends it, any other joins the plan.                *)
Visit ==
    /\ outcome = "resolving" /\ pushing = <<>> /\ queue # <<>>
    /\ queue' = Front(queue)
    /\ \/ /\ Last(queue) \in Seen
          /\ UNCHANGED <<pushing, enabled, outcome>>
       \/ /\ Last(queue) \notin Seen \cup Plugins
          /\ outcome' = "unknown"
          /\ UNCHANGED <<pushing, enabled>>
       \/ /\ Last(queue) \in Plugins \ Seen
          /\ enabled' = Append(enabled, Last(queue))
          /\ pushing' = Requires[Last(queue)]
          /\ UNCHANGED outcome
    /\ UNCHANGED <<host, requested>>

(* The inner loop: requirements are pushed in reverse, so that they are     *)
(* visited in order, but for those that are seen already.                   *)
Push ==
    /\ outcome = "resolving" /\ pushing # <<>>
    /\ queue' = IF Last(pushing) \in Seen THEN queue ELSE Append(queue, Last(pushing))
    /\ pushing' = Front(pushing)
    /\ UNCHANGED <<host, requested, enabled, outcome>>

Clashes(p, q) == p # q /\ (q \in Conflicts[host][p] \/ p \in Conflicts[host][q])

(* The two passes after the loop.                                           *)
Judge ==
    /\ outcome = "resolving" /\ pushing = <<>> /\ queue = <<>>
    /\ outcome' = IF \E p \in Seen : ~ (Needs(p) \subseteq Seen) THEN "missing"
                  ELSE IF \E p, q \in Seen : Clashes(p, q) THEN "conflict"
                  ELSE "accepted"
    /\ UNCHANGED <<host, requested, queue, pushing, enabled>>

ResolveNext == Visit \/ Push \/ Judge

(* The resolver by itself: any registry, any request.                       *)
ResolveSpec ==
    /\ \E h \in Hosts, request \in Seq(Ids) : ResolveInit(h, request)
    /\ [][ResolveNext]_resolver

(* ----- what a plan promises --------------------------------------------- *)
Closed(S) == \A p \in S : Needs(p) \subseteq S

(* The id was requested, or a plugin before place i of the plan requires it.*)
AskedFor(id, i) ==
    \/ id \in Range(requested)
    \/ \E j \in DOMAIN enabled : j < i /\ id \in Needs(enabled[j])

ResolveTypeOK ==
    /\ host \in Hosts
    /\ requested \in Seq(Ids)
    /\ queue \in Seq(Ids)
    /\ pushing \in Seq(Ids)
    /\ enabled \in Seq(Plugins)
    /\ outcome \in {"resolving", "accepted", "unknown", "missing", "conflict"}

(* An accepted plan holds what was asked for and what that requires, to the *)
(* end of every chain of requirements, holds nothing else, names no plugin  *)
(* twice, and no two of its plugins conflict; and MissingDependency is      *)
(* never returned: the loop has visited every requirement, or has stopped   *)
(* at an unknown one.  (resolve_activation; lib.rs:639-708.)                *)
AcceptedPlanIsSound ==
    /\ outcome = "accepted" =>
          /\ Range(requested) \subseteq Seen
          /\ Closed(Seen)
          /\ \A i \in DOMAIN enabled : AskedFor(enabled[i], i)
          /\ \A i, j \in DOMAIN enabled : enabled[i] = enabled[j] => i = j
          /\ \A p, q \in Seen : p # q => q \notin Conflicts[host][p]
    /\ outcome # "missing"

(* The strengthening: what is not yet in the plan is still to be visited.   *)
Ahead == Range(queue) \cup Range(pushing)
NothingForgotten ==
    outcome # "unknown" =>
        /\ Range(requested) \subseteq Seen \cup Ahead
        /\ \A p \in Seen : Needs(p) \subseteq Seen \cup Ahead
NothingAdded ==
    /\ \A i \in DOMAIN enabled : AskedFor(enabled[i], i)
    /\ \A d \in Ahead : AskedFor(d, Len(enabled) + 1)
NothingTwice == \A i, j \in DOMAIN enabled : enabled[i] = enabled[j] => i = j
Judged ==
    /\ outcome \in {"accepted", "conflict"} => queue = <<>> /\ pushing = <<>>
    /\ outcome = "accepted" => \A p, q \in Seen : p # q => q \notin Conflicts[host][p]
    /\ outcome # "missing"
ResolveInv == ResolveTypeOK /\ NothingForgotten /\ NothingAdded /\ NothingTwice /\ Judged
=============================================================================
