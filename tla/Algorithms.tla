----------------------------- MODULE Algorithms -----------------------------
(***************************************************************************)
(* The pure modules Paging, Deliverer, PluginChain and Configuration, with *)
(* their inputs: a behaviour picks a subject and one input of it, and      *)
(* ends.  What an input may be is said with each module.                   *)
(***************************************************************************)
EXTENDS Paging, Deliverer, PluginChain, Configuration

CONSTANTS
    PagingInputs,           \* tables, and what is asked of them
    DeliveryInputs,         \* rules, names and addresses
    ChainInputs,            \* plugins and requests
    ConfigurationInputs     \* files and environments

ASSUME AlgorithmsAssumption ==
    /\ \A in \in PagingInputs : IsPaging(in)
    /\ \A in \in DeliveryInputs : IsDelivery(in)
    /\ \A in \in ChainInputs : IsChain(in)
    /\ \A in \in ConfigurationInputs : IsConfiguration(in)

VARIABLES subject, input

AInit == subject = "none" /\ input = <<>>

Pick(s, inputs) == subject = "none" /\ subject' = s /\ input' \in inputs

ANext ==
    \/ Pick("paging", PagingInputs)
    \/ Pick("delivery", DeliveryInputs)
    \/ Pick("plugins", ChainInputs)
    \/ Pick("configuration", ConfigurationInputs)

ASpec == AInit /\ [][ANext]_<<subject, input>>

-----------------------------------------------------------------------------
\* Links of the lists of the admin API, numbered pages, and the iterator of the DAO
\* visit the rows they should once and in order, while the table changes.
PagesAreExact == subject = "paging" => PagingIsExact(input)

\* The deliverer connects to what the rules of its ACL allow, through redirects and
\* connections that are kept, and the result of the attempt says when they do not.
DialsAreAllowed == subject = "delivery" => RulesHold(input)

\* Chains of plugins: the gateway ingests what all of them accept, and the worker
\* signs what it sends.
ChainsGuard == subject = "plugins" => ChainGuards(input)

\* The configuration that a node runs with is the one that its sources say.
ConfigurationIsEffective == subject = "configuration" => EffectiveConfiguration(input)
=============================================================================
