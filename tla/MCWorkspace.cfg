SPECIFICATION WorkspaceSpec
CONSTANTS
  f1 = f1
  f2 = f2
  f3 = f3
  f4 = f4
  f5 = f5
  k1 = k1
  k2 = k2
  k3 = k3
  k4 = k4
  folderA = folderA
  other = other
  l1 = l1
  DeviceFiles <- MCFiles
  Keys <- MCKeys
  Labels <- MCLabels
  NoLabel = NoLabel
  KeyOf <- MCKeyOf
  Top <- MCTop
  Sort <- MCSort
  NameOf <- MCNameOf
  Stem <- MCStem
  Languages = {l1}
  NoLanguage = NoLanguage
  Speaks <- MCSpeaks
  Lists <- MCLists
  BadList = BadList
  Lowest = 1
  Highest = 1
  BatchMax = 3
  MaxPick = 2
  MaxActs = 7
INVARIANTS DraftIsOne OnlyAgreedIsSent SubmissionsAreGroups
CHECK_DEADLOCK FALSE
