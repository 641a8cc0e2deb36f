---------------------------- MODULE MCAudioContext ----------------------------
(* Small instances of AudioContext.                                        *)
EXTENDS AudioContext
===============================================================================
