---------------------------- MODULE MCRulePublish ----------------------------
(* Small instances of RulePublish. *)
EXTENDS RulePublish
=============================================================================
