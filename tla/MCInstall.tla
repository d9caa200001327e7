------------------------------ MODULE MCInstall ------------------------------
EXTENDS Install

(* Every action of either tool that changes anything. *)
MCJob ==
    [tool : {"drdsh"}, scope : Scope, plugin : {FALSE},
     action : {"install", "uninstall", "start", "stop", "restart", "enable", "disable"}]
    \cup [tool : {"drdsh"}, scope : {"relay"}, plugin : {FALSE}, action : {"asset"}]
    \cup [tool : {"drdsh"}, scope : {"daemon"}, plugin : {TRUE}, action : {"install", "asset"}]
    \cup [tool : {"drdsh"}, scope : {"daemon"}, plugin : {FALSE}, action : {"unplug"}]
    \cup [tool : {"relayctl"}, scope : {"relay"}, plugin : {FALSE},
          action : {"install", "asset", "uninstall", "start"}]
=============================================================================
