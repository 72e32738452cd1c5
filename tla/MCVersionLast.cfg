SPECIFICATION MCSpec
CONSTANTS
  Host = {localhost, revival}
  Port = {p1223, p1224}
  DefaultHost = localhost
  DefaultPort = p1223
  None = None
  OpenMenuChanges = FALSE
  Programs = {"server.exe"}
  Others = {"resources"}
  Exe = "MH3U_Online.exe"
  Version = "version.txt"
  QuickReopen = FALSE
  MaxRelease = 3
INVARIANTS
  VersionRewrittenLast
