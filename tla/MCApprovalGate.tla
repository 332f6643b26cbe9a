----------------------------- MODULE MCApprovalGate -----------------------------
(* Instances of ApprovalGate for TLC: one task, since tasks share nothing.    *)
EXTENDS ApprovalGate
===============================================================================
