------------------------------- MODULE MCApiKeys -------------------------------
(* Instances of ApiKeys for TLC.                                           *)
EXTENDS ApiKeys, TLC

(* Workers, keys and names are interchangeable.  For safety runs only.     *)
Symmetry == Permutations(Workers) \union Permutations(Keys)
              \union Permutations(Names)
===============================================================================
