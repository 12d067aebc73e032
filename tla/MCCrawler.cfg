SPECIFICATION Spec
CONSTANTS
  home = home
  a = a
  b = b
  c = c
  raw = raw
  x = x
  site = site
  other = other
  bad = bad
  NoEntry = NoEntry
  Invalid = bad
  Urls <- MCUrls
  HostOf <- MCHostOf
  Redirects <- MCRedirects
  LinkLists <- MCLinkLists
  Inputs <- MCInputs
INVARIANTS
  CrawlSound
  CrawlIsComplete
PROPERTIES
  CrawlEnds
