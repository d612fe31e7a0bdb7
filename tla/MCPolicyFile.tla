----------------------------- MODULE MCPolicyFile -----------------------------
(***************************************************************************)
(* PolicyFile for TLC: a tool under two names, a restricted tool, an       *)
(* argument and "*".                                                       *)
(***************************************************************************)
EXTENDS PolicyFile, TLC

MCWord == {"git", "/bin/git", "sh", "*"}
MCBase(w) == IF w = "/bin/git" THEN "git" ELSE w
MCPath(w) == IF w = "git" THEN "/bin/git" ELSE w

Upto(n, W) == UNION {[1..k -> W] : k \in 1..n}
MCRule == Upto(2, MCWord)
          \cup {<<"git", "*", "*">>, <<"git", "*", "sh">>, <<"*", "git", "*">>,
                <<"*", "*", "sh">>, <<"/bin/git", "sh", "*">>, <<"*", "*", "*">>}
MCAsked == {<<"sh">>, <<"/bin/git", "*">>}
MCCommand == Upto(2, MCWord \ {"*"})
             \cup {<<w, a, b>> : w \in MCWord \ {"*"},
                               a, b \in {"git", "sh"}}
Admins == Permutations(Admin)
==============================================================================
