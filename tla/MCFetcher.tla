----------------------------- MODULE MCFetcher -----------------------------
(* Fetcher for TLC: settings below, inside and above the accepted range.    *)
EXTENDS Fetcher

MCSettings == {-1, 0, 1, 2, HardMaxRedirects, HardMaxRedirects + 1}
=============================================================================
