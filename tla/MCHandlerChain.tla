--------------------------- MODULE MCHandlerChain ---------------------------
(* A small instance of HandlerChain for TLC.                                *)
EXTENDS HandlerChain

\* Every model, firmware and configuration.
AllConfigs == Config
=============================================================================
