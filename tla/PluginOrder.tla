----------------------------- MODULE PluginOrder ----------------------------
(***************************************************************************)
(* The order in which a command runs its plugins (loadPlugins() of         *)
(* src/src/stack/command/stack/commands/__init__.py): a traversal of the   *)
(* graph of what they say they require and precede.                        *)
(***************************************************************************)
EXTENDS GraphIterator, SequencesExt

CONSTANT
    Plugins     \* what each plugin provides, requires and precedes

ASSUME PluginAssumption ==
    /\ Plugins \subseteq
           [provides : Nodes, requires : SUBSET Nodes, precedes : SUBSET Nodes]
    /\ IsFiniteSet(Plugins)
    /\ \A p, q \in Plugins : p.provides = q.provides => p = q

VARIABLE plugins    \* what runPlugins() goes through; <<>> is not loaded yet

To(m, n) == [parent |-> m, child |-> n, label |-> NoLabel]

PluginGraph ==
    UNION {{To(p.provides, n) : n \in p.precedes \cup {TAIL}}
               \cup {To(n, p.provides) : n \in p.requires} : p \in Plugins}

(* No plugins are on a cycle but through TAIL, and a plugin that does not   *)
(* require TAIL comes after none that does. The plugins of every command of *)
(* the repository are like that; what would be on a cycle could be skipped. *)
ASSUME PluginsOrderable ==
    /\ \A S \in SUBSET (Nodes \ {TAIL}) :
           S # {} => \E n \in S : \A e \in PluginGraph : e.child = n => e.parent \notin S
    /\ \A q \in Plugins : TAIL \notin q.requires => ~ Leads(PluginGraph, TAIL, q.provides)

PluginInit ==
    /\ edges = PluginGraph
    /\ time = Cleared.time /\ seen = Cleared.seen /\ finish = Cleared.finish
    /\ top = Cleared.top /\ caller = Cleared.caller /\ label = Cleared.label
    /\ plugins = <<>>

(* What is required and nobody provides has a place in the order alone. *)
Finished == {n \in {p.provides : p \in Plugins} : finish[n] # 0}

(* A slip: the list is not reversed. *)
LoadBackwards ==
    /\ Done /\ plugins = <<>>
    /\ plugins' = Sorted(Finished, finish)
    /\ UNCHANGED <<edges, position>>

Load ==
    /\ Done /\ plugins = <<>>
    /\ plugins' = Reverse(Sorted(Finished, finish))
    /\ UNCHANGED <<edges, position>>

LoadPlugins ==
    \/ plugins = <<>> /\ GraphNext /\ UNCHANGED plugins
    \/ Load
-----------------------------------------------------------------------------
Follows(m, n) ==
    \A i, j \in DOMAIN plugins : plugins[i] = m /\ plugins[j] = n => i < j

(* Each plugin runs once, after the plugins it requires and before those it *)
(* precedes; a plugin that requires TAIL, which all of them are told to be  *)
(* before and so is on a cycle with it, runs after all that do not          *)
(* (commands/__init__.py:2176-2204, remove/host/plugin_host.py:83-87).     *)
PluginsOrdered ==
    plugins # <<>> =>
        /\ ToSet(plugins) = {p.provides : p \in Plugins}
        /\ \A i, j \in DOMAIN plugins : plugins[i] = plugins[j] => i = j
        /\ \A e \in edges :
               ~ Reaches(e.child, e.parent) => Follows(e.parent, e.child)
        /\ \A p, q \in Plugins :
               TAIL \in p.requires /\ TAIL \notin q.requires =>
                   Follows(q.provides, p.provides)
=============================================================================
