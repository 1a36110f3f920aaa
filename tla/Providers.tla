------------------------------ MODULE Providers ------------------------------
(***************************************************************************)
(* The registry of llmprovider: which provider serves a protocol, who      *)
(* registered it, and the limits of a request it is asked to stream.       *)
(*                                                                         *)
(* The built-in providers are lazy: the first call makes the inner one,    *)
(* under a sync.Once, and a failure of that is every later call's answer.  *)
(* Numbers are in units of 512 tokens.                                     *)
(***************************************************************************)
EXTENDS Integers, Sequences

CONSTANTS
    Apis,           \* protocols, the keys of the registry
    Sources,        \* plugins that register providers; "" is no source
    TokenLimits,    \* values of opts.MaxTokens and model.MaxOutput; 0 is not given
    MaxProviders    \* bound: providers ever registered

VARIABLES
    providers,    \* registered provider of an api, 0 if none
    bySource,     \* apis a source is remembered for
    made          \* for each provider its api, its source, whether that was removed since,
                  \*   and its inner provider

ASSUME TokenAssumption == TokenLimits \subseteq Nat

registryVars == <<providers, bySource, made>>

Levels == {"off", "minimal", "low", "medium", "high", "xhigh"}
MinOutput == 2
DefaultOutput == 8

-----------------------------------------------------------------------------
(* ClampThinkingLevel and the default budgets. *)
BudgetForLevel(level) ==
    CASE level = "minimal" -> 2
      [] level = "low" -> 4
      [] level = "medium" -> 16
      [] level \in {"high", "xhigh"} -> 32
      [] OTHER -> 0

(* AdjustMaxTokensForThinking *)
AdjustMaxTokens(base, output, level) ==
    LET budget == BudgetForLevel(level)
        max    == IF base = 0 THEN output
                  ELSE IF base + budget > output THEN output ELSE base + budget
    IN  [max |-> max, budget |-> IF max <= budget THEN (IF max > MinOutput THEN max - MinOutput ELSE 0)
                                                  ELSE budget]

(* What Anthropic's request says if the adjusted limit is 0. *)
MaxTokensSent(max, base, output) ==
    IF max # 0 THEN max ELSE IF base # 0 THEN base ELSE IF output # 0 THEN output ELSE DefaultOutput

-----------------------------------------------------------------------------
RegistryInit ==
    /\ providers = [a \in Apis |-> 0]
    /\ bySource = [s \in Sources |-> {}]
    /\ made = << >>

(* The same protocol registered again replaces the provider before it. *)
Register(api, source) ==
    /\ Len(made) < MaxProviders
    /\ providers' = [providers EXCEPT ![api] = Len(made) + 1]
    /\ bySource' = [s \in Sources |-> IF s = source THEN bySource[s] \cup {api} ELSE bySource[s]]
    /\ made' = Append(made, [api |-> api, source |-> source, removed |-> FALSE, inner |-> "none"])

Removed(sources) ==
    [p \in 1..Len(made) |-> IF made[p].source \in sources THEN [made[p] EXCEPT !.removed = TRUE] ELSE made[p]]

(* Mutant: the source is still remembered for its protocols. *)
UnregisterRemembered(source) ==
    /\ bySource[source] # {}
    /\ providers' = [a \in Apis |-> IF a \in bySource[source] THEN 0 ELSE providers[a]]
    /\ made' = Removed({source})
    /\ UNCHANGED bySource

Unregister(source) ==
    /\ bySource[source] # {}
    /\ providers' = [a \in Apis |-> IF a \in bySource[source] THEN 0 ELSE providers[a]]
    /\ bySource' = [bySource EXCEPT ![source] = {}]
    /\ made' = Removed({source})

ClearRegistry ==
    /\ providers' = [a \in Apis |-> 0]
    /\ bySource' = [s \in Sources |-> {}]
    /\ made' = Removed(Sources \cup {""})

(* A call routed to a provider makes its inner one, once and with one of   *)
(* two outcomes that stays; an unknown protocol, as an inner provider that *)
(* failed, is an error channel and changes nothing.                        *)
StreamSimple(api) ==
    /\ providers[api] # 0 /\ made[providers[api]].inner = "none"
    /\ \E outcome \in {"ready", "failed"} : made' = [made EXCEPT ![providers[api]].inner = outcome]
    /\ UNCHANGED <<providers, bySource>>

RegistryNext ==
    \/ \E api \in Apis, source \in Sources \cup {""} : Register(api, source)
    \/ \E source \in Sources : Unregister(source)
    \/ ClearRegistry
    \/ \E api \in Apis : StreamSimple(api)

-----------------------------------------------------------------------------
RegistryTypeOK ==
    /\ bySource \in [Sources -> SUBSET Apis]
    /\ \A a \in Apis : \/ providers[a] = 0
                       \/ providers[a] \in 1..Len(made) /\ made[providers[a]].api = a

(* A plugin that goes takes a protocol with it only if it registered one   *)
(* for it since it came (registry.go:30-51): loaded, removed and loaded    *)
(* again, it leaves the providers that others registered in between.  If   *)
(* it registered first, it takes the provider that replaced its own.       *)
LostOnlyToARegistrant ==
    [][\A a \in Apis : providers[a] # 0 /\ providers'[a] = 0 =>
         \E p \in 1..Len(made) : made[p].api = a /\ ~made[p].removed /\ made'[p].removed]_registryVars

(* A request with a thinking budget leaves room for an answer and asks for *)
(* no more than the model can give, whatever the caller and the model say  *)
(* (stream_options.go:27-63, anthropic/provider.go:90-99).  The room may   *)
(* be less than MinOutput: only a limit that does not exceed the budget    *)
(* makes it smaller.                                                       *)
ThinkingFits ==
    made = <<>> =>
        \A base, output \in TokenLimits, level \in Levels :
            LET limits == AdjustMaxTokens(base, output, level)
                max    == MaxTokensSent(limits.max, base, output)
            IN  limits.budget > 0 => limits.budget < max /\ max <= output
=============================================================================
