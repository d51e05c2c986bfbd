------------------------------ MODULE MCServer ------------------------------
(***************************************************************************)
(* Module Server with the plugins of plugins.conf whose load() and         *)
(* unload() do something, and with one asio thread.                        *)
(***************************************************************************)
EXTENDS Server

MCPlugins == {"AsioContextThreads", "SignalHandler", "NetworkEntity", "TcpServer",
              "ConsoleTerminal", "BasicTerminalCommands"}

MCDependsOn ==
    [p \in MCPlugins |->
       CASE p \in {"SignalHandler", "NetworkEntity"} -> {"AsioContextThreads"}
         [] p = "TcpServer" -> {"AsioContextThreads", "SignalHandler", "NetworkEntity"}
         [] p = "BasicTerminalCommands" -> {"ConsoleTerminal", "TcpServer"}
         [] OTHER -> {}]

MCTerminators == {"SignalHandler", "BasicTerminalCommands"}
=============================================================================
