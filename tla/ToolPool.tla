------------------------------- MODULE ToolPool -------------------------------
(***************************************************************************)
(* The tools a request offers: the Registry's and the MCP servers',        *)
(* assembled into one pool, and the part of that pool a sub-agent gets.    *)
(*                                                                         *)
(* The pool's order is what a prompt cache keys on: the registry's tools   *)
(* are a prefix that MCP servers which come and go must not move.          *)
(***************************************************************************)
EXTENDS Integers, Sequences, FiniteSets, SequencesExt, Selections

CONSTANTS
    Registrable,   \* names of tools a registry may hold
    Switched,      \* those of them that are denied, allowed, turned on and off
    Offered,       \* names of tools the MCP servers may offer
    Specs          \* names an agent's definition may list

(* The names a pool may have, in the order of their bytes. *)
NameOrder == <<"Agent", "Bash", "ExitPlanMode", "Read", "Task", "mcp__a__x", "mcp__a__y", "wait">>

ASSUME PoolAssumption ==
    /\ Switched \subseteq Registrable /\ Specs \subseteq Registrable \cup Offered \cup {"Agent"}
    /\ Registrable \cup Offered \subseteq ToSet(NameOrder)

VARIABLES
    registry,   \* its tools: registered, denied, disabled
    pool,       \* the last assembled pool
    asked,      \* the tools of the registry it was assembled from
    agent       \* what the agent resolved last got

poolVars == <<registry, pool, asked, agent>>

Sorted(S) == Only(NameOrder, S)

(* isMCPTool, mcpServerOf: both MCP tools are of server a. *)
IsMCPTool(n) == n \in {"mcp__a__x", "mcp__a__y"}
NoAgent == [main |-> TRUE, tools |-> << >>, valid |-> << >>, invalid |-> << >>]

PoolInit ==
    /\ registry = [tools |-> {}, denied |-> {}, disabled |-> {}]
    /\ pool = << >> /\ agent = NoAgent
    /\ asked = {}

-----------------------------------------------------------------------------
(* Register ignores a name it has; Deny and Undeny take any name. *)
RegisterTool(n) ==
    /\ n \notin registry.tools
    /\ registry' = [registry EXCEPT !.tools = @ \cup {n}]
    /\ agent' = NoAgent /\ UNCHANGED <<pool, asked>>

Deny(n) ==
    /\ registry' = [registry EXCEPT !.denied = @ \cup {n}]
    /\ agent' = NoAgent /\ UNCHANGED <<pool, asked>>

Undeny(n) ==
    /\ registry' = [registry EXCEPT !.denied = @ \ {n}]
    /\ agent' = NoAgent /\ UNCHANGED <<pool, asked>>

(* IsEnabled is the tool's to say, each time anew. *)
TurnOnOrOff(n) ==
    /\ registry' = [registry EXCEPT !.disabled = IF n \in @ THEN @ \ {n} ELSE @ \cup {n}]
    /\ agent' = NoAgent /\ UNCHANGED <<pool, asked>>

GetTools == registry.tools \ (registry.denied \cup registry.disabled)

-----------------------------------------------------------------------------
(* FilterByDenyRules: a rule without a pattern names a tool or a server. *)
FilterByDenyRules(names, rules) ==
    {n \in names : n \notin rules /\ (IsMCPTool(n) => "mcp__a" \notin rules)}

(* The registry's tools, then the servers' of other names. *)
AssembledPool(base, external) == Sorted(base) \o Sorted(external \ base)

AssembleToolPool(rules, external) ==
    LET base == FilterByDenyRules(GetTools, rules)
        servers == FilterByDenyRules(external, rules)
    IN  /\ pool' = AssembledPool(base, servers)
        /\ asked' = base /\ agent' = NoAgent
        /\ UNCHANGED registry

-----------------------------------------------------------------------------
(* FilterToolsForAgent, with the sets of agents/types.go:190-223; the set  *)
(* of tools only custom agents lose is empty.  ResolveAgentTools never     *)
(* says that a spawn is an in-process teammate.                            *)
FilterToolsForAgent(names, plan, async) ==
    Only(names, {n \in ToSet(names) :
        \/ IsMCPTool(n)
        \/ plan /\ n = "ExitPlanMode"
        \/ n \notin {"Task", "ExitPlanMode", "AskUserQuestion"} /\ (async => n \in {"Bash", "Read"})})

(* The tools listed, in the order of the list, each once. *)
Chosen(specs, tools) ==
    Those(specs, {i \in DOMAIN specs : specs[i] \in tools /\ \A j \in 1..(i - 1) : specs[j] # specs[i]})

(* Agent(x) and Task(x) list the agents a tool may start: for a sub-agent  *)
(* they are valid and no tool.  The pool and the list alone decide, so one *)
(* agent is looked at before the pool or the registry goes on.             *)
ResolveAgentTools(specs, denied, spawn) ==
    LET main == "main" \in spawn
        offered == IF main THEN pool ELSE FilterToolsForAgent(pool, "plan" \in spawn, "async" \in spawn)
        afterDeny == Only(offered, ToSet(offered) \ denied)
        tools == ToSet(afterDeny)
        meta == IF main THEN {} ELSE {"Task", "Agent"}
        named == Only(specs, ToSet(specs) \ meta)
    IN  /\ agent = NoAgent
        /\ agent' = IF specs = << >> THEN [NoAgent EXCEPT !.main = main, !.tools = afterDeny]
                    ELSE [main    |-> main,
                          tools   |-> Chosen(named, tools),
                          valid   |-> Only(specs, meta \cup tools),
                          invalid |-> Only(named, ToSet(named) \ tools)]
        /\ UNCHANGED <<registry, pool, asked>>

PoolNext ==
    \/ \E n \in Registrable : RegisterTool(n)
    \/ \E n \in Switched : Deny(n) \/ Undeny(n) \/ TurnOnOrOff(n)
    \/ \E rules \in SUBSET (Switched \cup {"mcp__a"}), external \in SUBSET Offered :
          AssembleToolPool(rules, external)
    \/ \E specs \in BoundedSeq(Specs, 2), denied \in {{}, Switched},
          spawn \in (SUBSET {"plan", "async"}) \cup {{"main"}} :
          ResolveAgentTools(specs, denied, spawn)

-----------------------------------------------------------------------------
PoolTypeOK ==
    /\ registry.tools \cup registry.denied \cup registry.disabled \subseteq Registrable
    /\ ToSet(pool) \subseteq Registrable \cup Offered
    /\ asked \subseteq Registrable

(* Built-ins are "the cache-friendly prefix of the tool pool"              *)
(* (registry.go:32): a pool assembled from the same tools of the registry  *)
(* begins like the one before, whatever the servers offer by then; and no  *)
(* name is in it twice.                                                    *)
PrefixStable ==
    [][ /\ IsInjective(pool')
        /\ asked' = asked =>
             \A i \in 1..Cardinality(asked) : pool'[i] = pool[i] ]_poolVars

(* An agent that lists its tools gets each listed one once, those its list *)
(* call valid and no other; a sub-agent never gets the tool that starts    *)
(* one.                                                                    *)
AgentGetsItsList ==
    /\ agent.main \/ "Task" \notin ToSet(agent.tools)
    /\ IsInjective(agent.tools)
    /\ agent.valid # << >> => ToSet(agent.tools) \cup {"Task", "Agent"} = ToSet(agent.valid) \cup {"Task", "Agent"}
    /\ ToSet(agent.valid) \cap ToSet(agent.invalid) = {}
===============================================================================
