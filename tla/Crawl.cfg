SPECIFICATION FairSpec
CONSTANTS
  Workers = {w1, w2}
  home = home
  a = a
  b = b
  Resources = {home, a, b}
  First = home
  Links <- Ring
INVARIANTS TypeOK NoLinkForgotten CrawlIsComplete
PROPERTY Termination
