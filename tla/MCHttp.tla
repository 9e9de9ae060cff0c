------------------------------- MODULE MCHttp -------------------------------
(* One request with up to two subrequests (HttpRequest). *)
EXTENDS HttpRequest

MCWorlds == {{"subrequest", "slow", "upstream"},
             {"subrequest", "upstream", "resolver", "fail"},
             {"subrequest", "redirect", "slow"},
             {"subrequest", "discard", "slow", "fail"},
             {"discard", "slow", "upstream", "redirect", "fail"}}

\* a body that is discarded while a subrequest waits for its upstream
DiscardWorlds == {{"subrequest", "discard", "upstream"}}
=============================================================================
