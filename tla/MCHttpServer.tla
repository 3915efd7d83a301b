---------------------------- MODULE MCHttpServer ----------------------------
(***************************************************************************)
(* An instance of HttpServer: with users and everything; with an open      *)
(* index page and nobody to tell of tokens; and with nobody to log in.     *)
(***************************************************************************)
EXTENDS HttpServer

Configured(passwd, indexPath, api, callback) ==
    [passwd |-> passwd, indexPath |-> indexPath, api |-> api, callback |-> callback]

MCConfigurations == {
    Configured(TRUE, "default", TRUE, TRUE),
    Configured(TRUE, "open", FALSE, FALSE),
    Configured(FALSE, "protected", FALSE, TRUE)}
=============================================================================
