-------------------------- MODULE MCBrowserHistory --------------------------
(* A small instance of the browser history provider. *)
EXTENDS BrowserHistory

TwoNames == {"ours", "other"}
TwoDirectories == {1, 2}
OneTitle == {"none", "titled"}
NullTitle == {"none"}
=============================================================================
