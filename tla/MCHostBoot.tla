----------------------------- MODULE MCHostBoot -----------------------------
(* remove host, with the plugins that change what the boot commands read. *)
EXTENDS HostBoot

MCNodes == {"boot", "redis", "interface", "host", "TAIL"}

MCPlugins ==
    {[provides |-> "boot", requires |-> {}, precedes |-> {}],
     [provides |-> "interface", requires |-> {"boot", "redis"}, precedes |-> {}],
     [provides |-> "host", requires |-> {"TAIL"}, precedes |-> {}]}
=============================================================================
