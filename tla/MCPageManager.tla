--------------------------- MODULE MCPageManager ---------------------------
(* An instance of PageManager for TLC: three pages and a client that makes  *)
(* any call at any time.                                                    *)
EXTENDS PageManager

AnyPage == 1..3

\* Every call a client of page_manager.h could make.
AnyLink == [from : AnyPage, to : AnyPage, animated : BOOLEAN, history : BOOLEAN]
=============================================================================
