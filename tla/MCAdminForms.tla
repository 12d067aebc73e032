---------------------------- MODULE MCAdminForms ----------------------------
(* Two pages: both the policies page, or the settings page and the tab.    *)
EXTENDS AdminForms, TLC

CONSTANTS p1, p2, e1, e2

MCForms == {p1 :> "policies" @@ p2 :> "policies", p1 :> "settings" @@ p2 :> "tab"}
MCFiles == {[policies |-> {e1}, port |-> 4055]}
MCValidPorts == {4050, 4055}
=============================================================================
