SPECIFICATION Spec
CONSTANTS
  hero = hero
  avatar = avatar
  banner = banner
  logo = logo
  e1 = e1
  e2 = e2
  utc = utc
  west = west
  a1 = a1
  a2 = a2
  t1 = t1
  t2 = t2
  b1 = b1
  c1 = c1
  ann = ann
  stand = stand
  bob = bob
  cyd = cyd
  Holders = {hero, avatar, banner, logo}
  Kind <- MCKind
  WithRow = {hero, avatar, logo}
  WithImage = {hero, avatar}
  Requests = {1, 2, 3}
  NoImage = null
  Shows = {sponsor}
  Calls = {1, 2, 3, 4}
  NoValue = null
  Garbage = undefined
  Events = {e1, e2}
  Staged = {e1}
  Zones = {utc, west}
  Offset <- MCOffset
  FirstZone <- MCFirstZone
  Slots = {1, 2, 3}
  Times = {1, 2, 3}
  Opens = 0
  Closes = 4
  Editors = {q1, q2}
  PageSize = 2
  MostListed = 5
  Sockets = {a1, a2, t1, t2, b1, c1}
  Fields = {ann, stand, bob, cyd}
  FieldOf <- MCFieldOf
  SponsorFields = {stand}
  Talk <- MCTalk
  Messages = {1, 2, 3}
  MaxAttempts = 2
  Devices = {d1, d2, d3}
  Nobody = null
  Budgets <- MCBudgets
INVARIANTS
  UrlServed
  OrphansExplained
  OnlineHasSession
  BroadcastStoppable
  ShiftedOnce
  
  EntriesTrue
  Delivered
  SupersededTold
CHECK_DEADLOCK FALSE
