----------------------------- MODULE MCTerraform -----------------------------
(* A bounded instance of Terraform for TLC. *)
EXTENDS Terraform
==============================================================================
