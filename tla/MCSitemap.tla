----------------------------- MODULE MCSitemap -----------------------------
(* Sitemap for TLC: every document with at most MaxLocs entries, and every  *)
(* robots.txt with at most one sitemap, be it one of the common paths or    *)
(* not; the common paths play the same part, so one of them is enough.      *)
EXTENDS Sitemap, TLC

CONSTANT MaxLocs

Lists(S, max) == UNION {[1..n -> S] : n \in 0..max}

MCDocuments ==
    [type : {"urlset"}, locs : Lists(URLs, MaxLocs)]
        \cup [type : {"index"}, locs : Lists(Maps, MaxLocs)]
        \cup [type : {"none", "malformed"}, locs : {<<>>}]

\* /sitemap.xml and /sitemap_index.xml
CONSTANTS SitemapXml, SitemapIndexXml
MCCommonPaths == <<SitemapXml, SitemapIndexXml>>
MCDirectives == Lists(Maps \ {SitemapIndexXml}, 1)
============================================================================
