SPECIFICATION WatchSpec
CONSTANTS
  Subjects = {s1}
  Runners = {w1, w2}
  Countries = {"NG", "GH"}
  Networks = {"MTN", "Glo"}
  Home = "NG"
  MaxSends = 3
  MaxUsual = 1
  MaxNotices = 3
  MaxManual = 1
  MaxFaults = 1
  volumeSpikeMultiple = 2
  volumeSpikeMinimum = 2
  failureMinimum = 2
  destinationCountries = 2
  signInCountries = 2
  pumpingMinimum = 1
  MIN_SAMPLE = 2
INVARIANTS SeldomTwice
PROPERTY WhatLastsIsTold
